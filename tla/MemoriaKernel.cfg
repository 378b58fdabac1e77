SPECIFICATION Spec
CONSTANTS
    TAM_MEMORIA = 96
    TAM_PAGINA = 32
    ENTRADAS_POR_TABLA = 3
    TAM_INT = 4
    Pids = {0, 1}
    Tamanios = {64}
    Archivos <- MCUnArchivo
    Valores = {1}
    Direcciones = {0}
    Perdidas = {0, 6}
    Operaciones <- MCKernel
    MaxPedidos = 3
    PidsNuevos = FALSE
    EnteroCrudo = TRUE
    SwapPuedeFallar = FALSE
CHECK_DEADLOCK FALSE
PROPERTY CreadoConSuTamanio
