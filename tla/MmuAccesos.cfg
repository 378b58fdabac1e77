SPECIFICATION Spec
CONSTANTS
    INT_MAX = 2
    Ceros = 0
    Pids = {1, 2}
    Paginas = {2, 3}
    CANTIDAD_NIVELES = 2
    ENTRADAS_POR_TABLA = 2
    Marcos = {0, 1, 2, 3}
    MarcoDe <- MCMarcoDe
    Valores = {0, 1}
    Configuraciones <- MCConfiguraciones
    MAX_RELOJ = 1
CHECK_DEADLOCK FALSE
INVARIANTS TypeOK SinDuplicados TraduccionFiel NadaSePierde SinRastros
PROPERTIES FifoSacaLaMasVieja ClockMProtegeModificadas ClockSegundaOportunidad CumpleMemoriaVirtual
