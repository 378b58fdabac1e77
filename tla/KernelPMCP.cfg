SPECIFICATION SpecJusta
CONSTANTS
    Algoritmo = "PMCP"
    MaxProcesos = 3
    MaxSyscalls = 4
    Respuestas <- MCCualquierRespuesta
    CpuPuedeCaer = TRUE
CHECK_DEADLOCK FALSE
INVARIANTS
    NadieRepetido
    EjecutaCreadoEnMemoria
    CreadoPasaAReady
PROPERTIES
    ColaNewSeLibera
    NewAvanza
