--------------------------- MODULE Memoria_proofs ---------------------------
(***************************************************************************)
(* Type correctness of the memory module, for every size of memory, pages  *)
(* and tables, any pids and any requests; and what its operators return.    *)
(***************************************************************************)
EXTENDS MemoriaPropiedades, TLAPS

(* The product of two naturals, and of a smaller natural.                   *)
LEMMA ProductoNat == ASSUME NEW a \in Nat, NEW b \in Nat PROVE a * b \in Nat
  BY SMT

LEMMA ProductoCota ==
    ASSUME NEW a \in Nat, NEW b \in Nat, NEW t \in Nat, a < b
    PROVE  a * t + t <= b * t
<1>1. a + 1 <= b OBVIOUS
<1>2. (b - (a + 1)) \in Nat BY <1>1
<1>3. (b - (a + 1)) * t \in Nat BY <1>2, ProductoNat
<1>4. (b - (a + 1)) * t = b * t - (a * t + t) BY SMT
<1> QED BY <1>3, <1>4, ProductoNat

(* A byte of a frame is a byte of physical memory.                          *)
LEMMA ByteDeMarco ==
    ASSUME NEW m \in Marcos, NEW k \in 0..TAM_PAGINA - 1
    PROVE  m * TAM_PAGINA + k \in Bytes
<1> USE SupuestoTamanios DEF TotalMarcos, Marcos, Bytes
<1>1. TotalMarcos \in Nat /\ TotalMarcos * TAM_PAGINA <= TAM_MEMORIA
  BY SMT
<1>2. m \in Nat /\ m < TotalMarcos BY <1>1
<1>3. m * TAM_PAGINA + TAM_PAGINA <= TotalMarcos * TAM_PAGINA BY <1>1, <1>2, ProductoCota
<1>4. m * TAM_PAGINA \in Nat BY <1>2, ProductoNat
<1> HIDE DEF TotalMarcos, Marcos
<1> QED BY <1>1, <1>3, <1>4, ProductoNat

(* A virtual address falls on an entry of the table, and an offset in it.   *)
LEMMA PaginaDeDireccion ==
    ASSUME NEW dir \in Nat
    PROVE  /\ (dir \div TAM_PAGINA) % ENTRADAS_POR_TABLA \in Paginas
           /\ dir % TAM_PAGINA \in 0..TAM_PAGINA - 1
  BY SupuestoTamanios, SMT DEF Paginas

(* What atoi makes of a natural is a natural.                               *)
LEMMA LeidoNat == ASSUME NEW n \in Nat PROVE Leido(n) \in Nat
  BY SMT DEF Leido, AtoiDeBytes

(* The fields of a request, by its code.                                    *)
LEMMA CamposDePedido ==
    ASSUME pedido \in Pedidos \cup {Nada}
    PROVE  /\ pedido # Nada => /\ pedido \in Pedidos
                               /\ Destino(pedido) \in Pids
           /\ pedido.op = "ENVIO_ARCHIVO_KERNEL" =>
                 pedido.tam \in Nat /\ Destino(pedido) = 0 /\ pedido # Nada
           /\ pedido.op \in {"CONSULTAR_ESPACIO", "CREAR_PROCESO"} => Leido(pedido.tam) \in Nat
           /\ pedido.op \in ConPid \cup {"CONSULTAR_ESPACIO", "CREAR_PROCESO"} =>
                 /\ Leido(pedido.pid) \in Pids /\ Destino(pedido) = Leido(pedido.pid)
                 /\ pedido # Nada
<1>0. /\ Tamanios \subseteq Nat /\ 0 \in Pids
      /\ \A p \in Pids : Leido(p) \in Pids
  BY SupuestoPedidos
<1>1. CASE pedido \in [op : {"ENVIO_ARCHIVO_KERNEL"}, pid : {0}, tam : Tamanios, archivo : Archivos]
  <2>1. pedido.op = "ENVIO_ARCHIVO_KERNEL" /\ pedido.tam \in Nat BY <1>0, <1>1
  <2>2. pedido \in Pedidos BY <1>1 DEF Pedidos
  <2>3. Destino(pedido) = 0 BY <2>1 DEF Destino
  <2>4. pedido # Nada BY <2>1 DEF Nada
  <2> QED BY <1>0, <2>1, <2>2, <2>3, <2>4 DEF ConPid
<1>2. CASE pedido \in [op : {"CONSULTAR_ESPACIO"}, pid : {0}, tam : Tamanios]
  <2>1. pedido.tam \in Nat /\ pedido.pid \in Pids /\ pedido.op = "CONSULTAR_ESPACIO" BY <1>0, <1>2
  <2>2. Leido(pedido.tam) \in Nat /\ Leido(pedido.pid) \in Pids BY <1>0, <2>1, LeidoNat
  <2> QED BY <1>2, <2>1, <2>2 DEF Pedidos, ConPid, Nada, Destino
<1>3. CASE pedido \in [op : {"CREAR_PROCESO"}, pid : Pids, tam : Tamanios]
  <2>1. pedido.tam \in Nat /\ pedido.pid \in Pids /\ pedido.op = "CREAR_PROCESO" BY <1>0, <1>3
  <2>2. Leido(pedido.tam) \in Nat /\ Leido(pedido.pid) \in Pids BY <1>0, <2>1, LeidoNat
  <2> QED BY <1>3, <2>1, <2>2 DEF Pedidos, ConPid, Nada, Destino
<1>4. CASE pedido \in [op : ConPid, pid : Pids]
  <2>1. pedido.pid \in Pids /\ pedido.op \in ConPid BY <1>4
  <2>2. Leido(pedido.pid) \in Pids BY <1>0, <2>1
  <2> QED BY <1>4, <2>1, <2>2 DEF Pedidos, ConPid, Nada, Destino
<1>5. CASE pedido = Nada
  BY <1>5 DEF ConPid, Nada
<1> QED BY <1>1, <1>2, <1>3, <1>4, <1>5 DEF Pedidos

(* What a creation takes: distinct frames, free until now, one per page.    *)
LEMMA TablaNueva ==
    ASSUME NEW n, NEW f \in PrimerosLibres(n), marcos_libres \subseteq Marcos
    PROVE  /\ TablaCon(f) \in [Paginas -> Marcos \cup {SinMarco}]
           /\ \A i \in Paginas : \/ TablaCon(f)[i] = SinMarco
                                 \/ i \in DOMAIN f /\ TablaCon(f)[i] = f[i]
           /\ DOMAIN f = 0..n - 1 /\ \A i \in DOMAIN f : f[i] \in marcos_libres
           /\ \A i, j \in DOMAIN f : i < j => f[i] < f[j]
<1>1. f \in [0..n - 1 -> marcos_libres] BY DEF PrimerosLibres
<1>2. \A i, j \in 0..n - 1 : i < j => f[i] < f[j] BY DEF PrimerosLibres
<1> QED BY <1>1, <1>2 DEF TablaCon

(* The frames of a table are frames.                                        *)
LEMMA MarcosDeTabla ==
    ASSUME NEW tabla \in [Paginas -> Marcos \cup {SinMarco}]
    PROVE  MarcosDe(tabla) \subseteq Marcos
  BY DEF MarcosDe

(* A page that is present is read and written inside physical memory.       *)
LEMMA ByteLeido ==
    ASSUME memoria_fisica \in [Bytes -> Celdas],
           NEW tabla \in [Paginas -> Marcos \cup {SinMarco}], NEW i \in Paginas,
           tabla[i] # SinMarco, NEW k \in 0..TAM_PAGINA - 1
    PROVE  ByteDe(tabla, i, k) \in Celdas
<1>1. tabla[i] \in Marcos OBVIOUS
<1>2. tabla[i] * TAM_PAGINA + k \in Bytes BY <1>1, ByteDeMarco
<1> QED BY <1>2 DEF ByteDe

(* Writing pages to swap adds bytes of memory to it.                        *)
LEMMA SwapTipo ==
    ASSUME memoria_fisica \in [Bytes -> Celdas],
           DOMAIN swap \subseteq Nat, \A b \in DOMAIN swap : swap[b] \in Celdas,
           NEW pid \in Pids, NEW tabla \in [Paginas -> Marcos \cup {SinMarco}],
           NEW paginas \in Volcables(tabla)
    PROVE  /\ DOMAIN SwapCon(pid, tabla, paginas) \subseteq Nat
           /\ \A b \in DOMAIN SwapCon(pid, tabla, paginas) :
                 SwapCon(pid, tabla, paginas)[b] \in Celdas
<1> DEFINE Escritos == {<<i, k>> : i \in paginas, k \in 0..TAM_PAGINA - 1}
           Lugar(e) == Posicion(pid, e[1]) + e[2]
           Byte(b)  == IF \E e \in Escritos : Lugar(e) = b
                       THEN LET e == CHOOSE e \in Escritos : Lugar(e) = b
                            IN  ByteDe(tabla, e[1], e[2])
                       ELSE swap[b]
           Dominio  == DOMAIN swap \cup {Lugar(e) : e \in Escritos}
<1>1. SwapCon(pid, tabla, paginas) = [b \in Dominio |-> Byte(b)]
  BY DEF SwapCon
<1>2. \A i \in paginas : i \in Paginas /\ tabla[i] # SinMarco
  BY DEF Volcables
<1>3. \A e \in Escritos : e[1] \in Paginas /\ tabla[e[1]] # SinMarco /\ e[2] \in 0..TAM_PAGINA - 1
  BY <1>2
<1>4. \A e \in Escritos : ByteDe(tabla, e[1], e[2]) \in Celdas
  BY <1>3, ByteLeido
<1>5. \A e \in Escritos : Lugar(e) \in Nat
  <2> SUFFICES ASSUME NEW e \in Escritos PROVE Lugar(e) \in Nat
    OBVIOUS
  <2>1. e[1] \in Nat /\ e[2] \in Nat /\ pid \in Nat /\ TAM_PAGINA \in Nat
    BY <1>3, SupuestoTamanios, SupuestoPedidos DEF Paginas
  <2>2. e[1] * TAM_PAGINA \in Nat BY <2>1, ProductoNat
  <2> QED BY <2>1, <2>2 DEF Posicion
<1>6. Dominio \subseteq Nat BY <1>5
<1>7. ASSUME NEW b \in Dominio PROVE Byte(b) \in Celdas
  <2>1. CASE \E e \in Escritos : Lugar(e) = b
    <3> DEFINE e == CHOOSE e \in Escritos : Lugar(e) = b
    <3>1. e \in Escritos BY <2>1
    <3>2. Byte(b) = ByteDe(tabla, e[1], e[2]) BY <2>1
    <3> HIDE DEF e, Escritos, Byte
    <3> QED BY <3>1, <3>2, <1>4
  <2>2. CASE ~ \E e \in Escritos : Lugar(e) = b
    <3>1. b \in DOMAIN swap BY <2>2
    <3> QED BY <2>2, <3>1
  <2> QED BY <2>1, <2>2
<1> HIDE DEF Byte, Dominio
<1> QED BY <1>1, <1>6, <1>7

(* A creation keeps the types of frames and of active processes.            *)
LEMMA CrearConTipo ==
    ASSUME TypeOK, NEW pid \in Pids, NEW tam \in Nat, NEW n, NEW f \in PrimerosLibres(n),
           CrearCon(pid, tam, f)
    PROVE  marcos_libres' \subseteq Marcos /\ procesos_activos' \in [Pids -> ProcesoT]
<1>1. TablaCon(f) \in [Paginas -> Marcos \cup {SinMarco}] BY TablaNueva DEF TypeOK
<1>2. [tamanio |-> tam, tabla |-> TablaCon(f)] \in ProcesoT BY <1>1 DEF ProcesoT
<1> QED BY <1>2 DEF CrearCon, Clave, TypeOK

LEMMA SinProcesoTipo == SinProceso \in ProcesoT /\ TablaVacia \in [Paginas -> Marcos \cup {SinMarco}]
  BY DEF SinProceso, TablaVacia, ProcesoT

(* Initially every frame is free and no process exists.                     *)
LEMMA TipoInicial == Init => TypeOK
  BY SinProcesoTipo, SupuestoPedidos
     DEF Init, TypeOK, CpuT, Celdas, SinConfirmar

(* An answer to the kernel ends its request.                                *)
LEMMA Confirmado ==
    ASSUME NEW tam, NEW ok \in BOOLEAN, Confirmar(tam, ok)
    PROVE  /\ pedido' = Nada
           /\ confirmacion'.ok \in BOOLEAN /\ confirmacion'.ok = ok
           /\ confirmacion'.op = pedido.op /\ confirmacion'.tam = tam
  BY DEF Confirmar

(* A dump answers the kernel or goes on, and moves nothing else.             *)
LEMMA PasoDeDump ==
    ASSUME TypeOK, DumpProceso \/ VolcarPagina
    PROVE  /\ pedido.op = "DUMP_MEMORY" /\ pedido # Nada
           /\ \/ pedido' = Nada /\ confirmacion'.ok \in BOOLEAN /\ confirmacion'.op = pedido.op
              \/ pedido' = pedido /\ confirmacion' = confirmacion
           /\ UNCHANGED <<marcos_libres, procesos_activos, procesos_suspendidos, memoria_fisica,
                          swap, sem_archivo_listo, envio_pendiente, cpu, respuesta>>
<1>1. CASE DumpProceso
  <2>1. \/ Confirmar(0, FALSE)
        \/ UNCHANGED <<pedido, confirmacion>>
    BY <1>1, Zenon DEF DumpProceso
  <2>2. pedido.op = "DUMP_MEMORY" /\ pedido # Nada
    BY <1>1, CamposDePedido DEF DumpProceso, TypeOK, ConPid
  <2>3. UNCHANGED <<marcos_libres, procesos_activos, procesos_suspendidos, memoria_fisica,
                    swap, sem_archivo_listo, envio_pendiente, cpu, respuesta>>
    BY <1>1 DEF DumpProceso, procesos, archivo, cliente
  <2> QED BY <2>1, <2>2, <2>3, Confirmado
<1>2. CASE VolcarPagina
  <2>1. \/ Confirmar(0, TRUE)
        \/ UNCHANGED <<pedido, confirmacion>>
    BY <1>2, Zenon DEF VolcarPagina
  <2>2. pedido.op = "DUMP_MEMORY" /\ pedido # Nada
    BY <1>2, CamposDePedido DEF VolcarPagina, TypeOK, ConPid
  <2>3. UNCHANGED <<marcos_libres, procesos_activos, procesos_suspendidos, memoria_fisica,
                    swap, sem_archivo_listo, envio_pendiente, cpu, respuesta>>
    BY <1>2 DEF VolcarPagina, procesos, archivo, cliente
  <2> QED BY <2>1, <2>2, <2>3, Confirmado
<1> QED BY <1>1, <1>2

(* Steps of the kernel thread.                                              *)
LEMMA TipoKernel == TypeOK /\ AtenderKernel => TypeOK'
<1> SUFFICES ASSUME TypeOK, AtenderKernel PROVE TypeOK'
  OBVIOUS
<1>0. pedido \in Pedidos \cup {Nada} BY DEF TypeOK
<1>1. CASE RecibirPedido
  BY <1>1 DEF RecibirPedido, TypeOK, procesos, SinConfirmar
<1>2. CASE ConsultarEspacio
  BY <1>2 DEF ConsultarEspacio, Confirmar, HayEspacio, TypeOK, procesos, archivo, cliente
<1>3. CASE CrearProceso
  <2> DEFINE tam == Leido(pedido.tam)
             n   == MarcosNecesarios(tam)
  <2>1. tam \in Nat /\ Leido(pedido.pid) \in Pids BY <1>0, <1>3, CamposDePedido DEF CrearProceso
  <2>0. /\ confirmacion'.ok \in BOOLEAN /\ pedido' = Nada
        /\ UNCHANGED <<procesos_suspendidos, memoria_fisica, swap, sem_archivo_listo,
                       envio_pendiente, cpu>>
    <3>1. Confirmar(tam, FALSE) \/ Confirmar(tam, TRUE) BY <1>3, Zenon DEF CrearProceso
    <3> QED BY <1>3, <3>1, Confirmado, Zenon DEF CrearProceso, archivo, cliente
  <2>2. CASE UNCHANGED <<marcos_libres, procesos_activos>>
    BY <2>0, <2>2 DEF TypeOK
  <2>3. CASE \E f \in PrimerosLibres(n) : CrearCon(Leido(pedido.pid), tam, f)
    <3>1. marcos_libres' \subseteq Marcos /\ procesos_activos' \in [Pids -> ProcesoT]
      BY <2>1, <2>3, CrearConTipo
    <3> QED BY <2>0, <3>1 DEF TypeOK
  <2> QED BY <1>3, <2>2, <2>3 DEF CrearProceso
<1>4. CASE RechazarArchivo
  BY <1>4 DEF RechazarArchivo, Confirmar, TypeOK, procesos, archivo, cliente
<1>5. CASE ArchivoVacio
  BY <1>5, SinProcesoTipo, SupuestoPedidos DEF ArchivoVacio, Confirmar, TypeOK, cliente
<1>6. CASE CargarArchivo
  <2>1. pedido.tam \in Nat BY <1>0, <1>6, CamposDePedido DEF CargarArchivo
  <2>2. marcos_libres' \subseteq Marcos /\ procesos_activos' \in [Pids -> ProcesoT]
    BY <1>6, <2>1, CrearConTipo, SupuestoPedidos DEF CargarArchivo
  <2> QED BY <1>6, <2>2 DEF CargarArchivo, Confirmar, TypeOK, cliente
<1>7. CASE FinalizarProceso
  <2>1. Leido(pedido.pid) \in Pids BY <1>0, <1>7, CamposDePedido DEF FinalizarProceso, ConPid
  <2>2. MarcosDe(procesos_activos[Leido(pedido.pid)].tabla) \subseteq Marcos
    BY <2>1, MarcosDeTabla DEF TypeOK, ProcesoT
  <2> QED BY <1>7, <2>1, <2>2, SinProcesoTipo DEF FinalizarProceso, TypeOK, archivo, cliente
<1>8. CASE SuspenderProceso
  <2> DEFINE pid == Leido(pedido.pid)
             proceso == procesos_activos[pid]
  <2>1. pid \in Pids BY <1>0, <1>8, CamposDePedido DEF SuspenderProceso, ConPid
  <2>2. proceso \in ProcesoT /\ proceso.tabla \in [Paginas -> Marcos \cup {SinMarco}]
    BY <2>1 DEF TypeOK, ProcesoT
  <2>3. CASE Hay(procesos_activos, pid)
    <3>1. PICK paginas \in Volcables(proceso.tabla) : swap' = SwapCon(pid, proceso.tabla, paginas)
      BY <1>8, <2>3 DEF SuspenderProceso
    <3>2. DOMAIN swap' \subseteq Nat /\ \A b \in DOMAIN swap' : swap'[b] \in Celdas
      BY <2>1, <2>2, <3>1, SwapTipo DEF TypeOK
    <3>3. [tamanio |-> proceso.tamanio, tabla |-> TablaVacia] \in ProcesoT
      BY <2>2, SinProcesoTipo DEF ProcesoT
    <3>4. marcos_libres' \subseteq Marcos
      BY <1>8, <2>2, <2>3, MarcosDeTabla DEF SuspenderProceso, TypeOK
    <3>5. procesos_activos' \in [Pids -> ProcesoT] /\ procesos_suspendidos' \in [Pids -> ProcesoT]
      BY <1>8, <2>1, <2>3, <3>3, SinProcesoTipo DEF SuspenderProceso, TypeOK
    <3> QED BY <1>8, <3>2, <3>4, <3>5 DEF SuspenderProceso, Confirmar, TypeOK, archivo, cliente
  <2>4. CASE ~ Hay(procesos_activos, pid)
    BY <1>8, <2>4 DEF SuspenderProceso, Confirmar, TypeOK, procesos, archivo, cliente
  <2> QED BY <2>3, <2>4
<1>9. CASE ReactivarProceso
  <2> DEFINE pid == Leido(pedido.pid)
  <2>1. pid \in Pids BY <1>0, <1>9, CamposDePedido DEF ReactivarProceso, ConPid
  <2>2. procesos_activos' \in [Pids -> ProcesoT] /\ procesos_suspendidos' \in [Pids -> ProcesoT]
    BY <1>9, <2>1, SinProcesoTipo DEF ReactivarProceso, TypeOK, procesos
  <2> QED BY <1>9, <2>2 DEF ReactivarProceso, Confirmar, TypeOK, archivo, cliente
<1>10. CASE DumpProceso \/ VolcarPagina BY <1>10, PasoDeDump DEF TypeOK
<1> QED BY <1>1, <1>2, <1>3, <1>4, <1>5, <1>6, <1>7, <1>8, <1>9, <1>10 DEF AtenderKernel

(* Steps of the cpu thread.                                                 *)
LEMMA TipoCpu == TypeOK /\ AtenderCpu => TypeOK'
<1> SUFFICES ASSUME TypeOK, AtenderCpu PROVE TypeOK'
  OBVIOUS
<1>1. CASE ArchivoListo
  BY <1>1 DEF ArchivoListo, TypeOK, CpuT, procesos, cliente
<1>2. CASE SolicitudInstruccion
  BY <1>2 DEF SolicitudInstruccion, TypeOK, CpuT, procesos, cliente
<1>3. CASE PedirAcceso
  <2>1. cpu' \in CpuT
    <3> SUFFICES ASSUME NEW pid \in Pids, NEW dir \in Direcciones,
                        NEW op \in {"LECTURA_MEMORIA", "ESCRITURA_MEMORIA"}, NEW valor \in Valores,
                        NEW fisica \in (IF PaginaPresente(pid, dir) THEN {Traducir(pid, dir)} ELSE {})
                                       \cup (IF Liberando(pid) THEN FisicaPerdida ELSE {}),
                        cpu' = [fase |-> "acceso", op |-> op, pid |-> pid, dir |-> dir,
                                valor |-> valor, fisica |-> fisica]
                 PROVE  cpu' \in CpuT
      BY <1>3 DEF PedirAcceso, TypeOK
    <3>1. dir \in Nat BY SupuestoPedidos
    <3>2. FisicaPerdida \subseteq Nat BY SupuestoTamanios, SupuestoPedidos DEF FisicaPerdida
    <3>3. ASSUME PaginaPresente(pid, dir) PROVE Traducir(pid, dir) \in Nat
      <4>1. MarcoDePagina(pid, dir) \in Marcos
        BY <3>1, <3>3, PaginaDeDireccion DEF MarcoDePagina, PaginaPresente, TypeOK, ProcesoT
      <4> QED BY <3>1, <4>1, PaginaDeDireccion, ByteDeMarco DEF Traducir, Bytes
    <3>4. fisica \in Nat BY <3>2, <3>3
    <3> QED BY <3>1, <3>4 DEF CpuT, Celdas
  <2> QED BY <1>3, <2>1 DEF PedirAcceso, TypeOK, procesos, archivo, cliente
<1>4. CASE CompletarLectura
  BY <1>4, SupuestoPedidos
     DEF CompletarLectura, Responder, TypeOK, CpuT, Celdas, procesos, archivo, cliente
<1>5. CASE CompletarEscritura
  <2>1. cpu' \in CpuT
    BY <1>5, SupuestoPedidos DEF CompletarEscritura, Responder, TypeOK, CpuT, Celdas
  <2>2. memoria_fisica' \in [Bytes -> Celdas]
    BY <1>5 DEF CompletarEscritura, TypeOK, CpuT
  <2> QED BY <1>5, <2>1, <2>2 DEF CompletarEscritura, Responder, TypeOK, procesos, archivo, cliente
<1>6. CASE CpuDesconectada
  BY <1>6 DEF CpuDesconectada, TypeOK, CpuT, procesos, archivo, cliente
<1> QED BY <1>1, <1>2, <1>3, <1>4, <1>5, <1>6 DEF AtenderCpu

LEMMA TipoPaso == TypeOK /\ [Next]_vars => TypeOK'
<1>1. TypeOK /\ UNCHANGED vars => TypeOK'
  BY DEF TypeOK, vars, procesos, archivo, cliente
<1> QED BY <1>1, TipoKernel, TipoCpu DEF Next

(* The state of memory is of its types in every execution.                  *)
THEOREM TipoCorrecto == Spec => []TypeOK
  BY TipoInicial, TipoPaso, PTL DEF Spec
=============================================================================
