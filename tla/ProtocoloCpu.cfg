SPECIFICATION SpecJusta
CONSTANTS
    Programas <- MCProgramas
    MAX_INSTRUCCIONES = 3
    TAM_PCB = 2
    MAX_DESPACHOS = 3
CHECK_DEADLOCK FALSE
INVARIANTS TypeOK ManoAMano AdelantoAcotado RespuestaEnCamino LeeSinEsperar
PROPERTIES CumpleEntregaDeSyscalls SyscallSeConfirma ProgramaTermina
