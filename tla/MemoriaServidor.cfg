SPECIFICATION Spec
CONSTANTS
    TAM_MEMORIA = 6
    TAM_PAGINA = 2
    ENTRADAS_POR_TABLA = 3
    TAM_INT = 1
    Pids = {0, 1}
    Tamanios = {2, 3}
    Archivos <- MCArchivos
    Valores = {1}
    Direcciones = {1, 3}
    Perdidas = {0, 6}
    Operaciones <- MCServidor
    MaxPedidos = 5
    PidsNuevos = TRUE
    EnteroCrudo = FALSE
    SwapPuedeFallar = FALSE
CHECK_DEADLOCK FALSE
INVARIANTS TypeOK DuenoUnico SinFugas
PROPERTIES SoloSuPedidoLoQuita ConsultaVale CumpleMemoriaPrivada
