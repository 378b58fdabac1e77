SPECIFICATION SpecJusta
CONSTANTS
    Algoritmo = "FIFO"
    MaxProcesos = 2
    MaxSyscalls = 2
    Respuestas <- MCSiempreHayEspacio
    CpuPuedeCaer = FALSE
CHECK_DEADLOCK FALSE
PROPERTY PausaTermina
