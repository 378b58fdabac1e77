SPECIFICATION Spec
CONSTANTS
    Algoritmo = "FIFO"
    MaxProcesos = 3
    MaxSyscalls = 4
    Respuestas <- MCCualquierRespuesta
    CpuPuedeCaer = FALSE
CHECK_DEADLOCK FALSE
INVARIANT CreadoPasaAReady
