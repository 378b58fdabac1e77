SPECIFICATION SpecJusta
CONSTANTS
    Algoritmo = "FIFO"
    MaxProcesos = 4
    MaxSyscalls = 4
    Respuestas <- MCCualquierRespuesta
    CpuPuedeCaer = FALSE
CHECK_DEADLOCK FALSE
INVARIANTS
    TypeOK
    OrdenDeLlegada
    EnUnaSolaCola
    RespuestaPropia
    CpuCoherente
PROPERTIES
    UnProcesoPorCpu
    CumpleCicloDeVida
    ColaNewSeLibera
    NewAvanza
