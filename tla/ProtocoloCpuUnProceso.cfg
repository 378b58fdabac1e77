SPECIFICATION SpecJusta
CONSTANTS
    Programas <- MCProgramaComun
    MAX_INSTRUCCIONES = 3
    TAM_PCB = 2
    MAX_DESPACHOS = 3
CHECK_DEADLOCK FALSE
PROPERTIES EsperaOtroProceso
