# Planificadores Seriales: TLA+ models of a distributed operating-system simulator

The repository simulates an operating system as four processes joined by TCP
sockets: **kernel**, **memoria**, **cpu** and **io**. This directory holds
TLA+ models of them, the TLC instances that check the models, and proofs that
TLAPS checks. Names follow the source, which is in Spanish; line numbers refer
to the files under `src/`.

## 1. Inventory

| Component | State it keeps | Operations | Hard behaviour | What makes it correct |
|---|---|---|---|---|
| **kernel, scheduling** (`kernel/src/main.c`, `planificador_largo_plazo.c`) | queues NEW, READY, EXEC (and BLOCKED, SUSP); semaphore `hay_procesos_ready`; `planificador_pausado`; list of CPUs; `pid_proceso_actual`; six mutexes; one socket to memoria | admission (FIFO, PMCP), dispatch, syscalls INIT_PROC / IO / DUMP_MEMORY / EXIT, replanning, CPU connect and disconnect | four threads, mutexes held across blocking receives, a semaphore that is corrected by reading it, a mutex taken twice, a pause flag read once | a process is in one queue, once; FIFO order; one process per CPU; a thread reads its own answer; no lock is kept for ever; NEW drains while memory accepts |
| **kernel, medium term** (`planificador_medio_plazo.c`) | timers, SUSP queues | suspension timer, cancel, swap in/out | a timer that expires while it is cancelled; a timer freed and still listed | a process is suspended only while blocked |
| **memoria, frames and processes** (`memoria/src/memoria.c`) | `marcos_libres`, `procesos_activos`, `procesos_suspendidos`, page tables, physical memory | file load, space query, create, finish, suspend, reactivate, read, write, dump | a thread for the kernel and one for the CPU; count-then-take; dictionary overwritten by a second creation | a frame has one owner; frames of a finished process are free; contents survive suspension |
| **memoria, swap and dump** | swap file, dump files | page in/out, dump | page places computed from the pid | pages of different processes do not overlap |
| **cpu, instruction cycle** (`cpu/src/cpu.c`) | running PCB, pending syscall, three threads | fetch, decode, execute, syscall hand-over | PCBs and answers share a socket read by two threads | an answer is taken for the syscall it answers |
| **cpu, TLB / page cache / MMU** (`tlb.c`, `cache.c`, `mmu.c`) | entries, use and modified bits, clock hand | look-up, fill, replace (FIFO, LRU, CLOCK, CLOCK-M), write back, evict a process | modified pages on replacement and eviction; frame 0 looks like a miss | a read sees the last write; a modified page is never dropped |
| **io** (`io/src/io.c`) | connection to the kernel | handshake, serve a request | order of requests | one request at a time, each answered |
| **utils** (`protocolo.c`, `conexion.c`, `cliente.c`, `server.c`) | none beyond sockets | framing, connect, accept | partial sends, two writers on one socket | a receiver sees whole packets |

How they interact: the kernel connects to memoria once and all its threads
share that socket (`fd_memoria`); the cpu connects to the kernel twice
(dispatch and interrupt) and to memoria once; io connects to the kernel.
Requests are packets (code, size, payload); most answers are bare booleans
with nothing that says what they answer.

Hazards, each at its line and with the properties that watch it, are listed in
`PROJECT.json`.

## 2. Plan

1. `KernelPlanificacion` and `CicloDeVida`: the scheduling core. **Done**;
   type correctness and the main safety invariants proved.
2. `Memoria` and `MemoriaPrivada`: frames, page tables, swap, creation,
   suspension, dump and termination, with the kernel's thread and the CPU's
   interleaved, against an abstract memory of private bytes. **Done**; type
   correctness, four safety properties and the refinement proved.
3. `Mmu` with `Tlb`, `CachePaginas` and `MemoriaVirtual`: look-up, replacement
   and write-back against an abstract memory in which a read returns the last
   write. **Done**; four invariants, both clocks and the refinement proved.
4. `ProtocoloCpu` and `EntregaDeSyscalls`: the CPU's threads and the words they
   exchange with memory and with the kernel's two writing threads, against the
   abstract delivery of a program's syscalls. **Done**; everything but
   liveness proved.
5. Timers and the IO round trip: not to be modelled while nothing reaches them
   (section 7).
6. More proofs: every safety property and the refinement of the core; in
   memory, that the places of pages in swap do not overlap, and the refinement
   of `MemoriaPrivada`; the order of the TLB's entries between two wraps of
   `contador_orden`; in the CPU's exchanges, that no thread waits for a word that
   will not come. **Done**: what no theorem states is liveness.

No module that is proved about declares a RECURSIVE operator.

## 3. The scheduling core

### Modules

* `KernelPlanificacion` - the model: one action per step of each thread.
* `CicloDeVida` - the abstract specification: what the scheduling promises
  about each process (created once, READY once, given the CPU once, and only
  when the CPU runs nobody).
* `KernelPlanificacionPropiedades` - every property, and `Ciclo`, the
  refinement mapping (the queue a process is in is its abstract state;
  `proceso_en_exec` is who has the CPU).
* `MCKernelPlanificacion` - the values the `.cfg` files choose from.
* `KernelPlanificacion_proofs`, `KernelSeguridad_proofs` - theorems and proofs.

### Threads and steps

| Thread in the model | Code |
|---|---|
| `principal` | `main()` (main.c:693-830): `crear_proceso`, `enviar_proceso`, then `planificar_con_plp` for the first process |
| `largo` | `planificar_procesos_en_new` (planificador_largo_plazo.c:510-567) |
| `corto` | `planificador_corto_plazo_hilo` (main.c:1827-1873) |
| `despacho` | `atender_cpu_dispatch` (main.c:869-1182): accepts the CPU, serves syscalls, replans after an EXIT |
| memoria | `ResponderMemoria`: one boolean per request, in order |
| cpu | `Entorno`: any syscall once a PCB has been sent, or a disconnection |

`pc[h]` is where thread `h` is. A step ends at each lock, unlock, semaphore
operation, send, receive and unprotected access to shared data, so that every
interleaving the code allows at those points exists in the model.
`planificador_corto_plazo()` is one set of actions with the calling thread as
parameter, because `corto` and `despacho` both call it; so are the two
exchanges with memory (`ConsultarMemoria`, `RecibirConsulta`,
`RecibirCreacion`), called by three threads.

What is merged into one step: critical sections of `mutex_cola_ready`,
`mutex_cola_exec` and `mutex_planificador_pausado`, which hold straight-line
code and never nest another blocking call. `mutex_cola_susp_ready` is taken
immediately after `mutex_cola_new` and released immediately after it, so one
owner stands for both.

Kept as the code does it, though one would not write it so:

* `planificador_corto_plazo_hilo` waits on the semaphore and calls
  `planificador_corto_plazo`, which waits again: two tokens per dispatch.
* `AsignarCpu` with READY empty loses the token it holds.
* `CorregirSemaforo` posts one token per process counted earlier, in
  `ContarReady`, if the semaphore is 0 now.
* Under FIFO `despacho` calls `intentar_pasar_a_ready`, which takes a mutex
  its caller already holds: `VencerMutex` is the time-out.
* `cola_exec` is never shortened. `finalizar_proceso_actual` walks it reading
  a `t_proceso_kernel` as if it were a `t_pcb`: what it compares with the pid is
  half of the first field, the pointer `codigo`. In the model it is the history
  of dispatches.
* Under PMCP `planificar_procesos_en_new` decides `i--` by reading
  `proceso->estado` again (planificador_largo_plazo.c:547) after the `sem_post`
  of the admission (146), and nothing protects that read: `ReleerEstado`. If
  another thread has dispatched the process in between (`ESTADO_EXEC`,
  main.c:1781), `i` moves on although the queue shrank, and the next process of
  NEW is not tried in that round. Under FIFO the same read (535) only chooses
  between two ways to unlock.
* `DesecharReady`: after the CPU disconnects, its thread takes processes from
  READY for ever and dispatches them nowhere (main.c:928-946).

Abstracted: names, sizes and times of processes; logs; metrics. Under PMCP
the size order of `cola_new` only decides which process is tried first and
`procesar_init_proc_syscall` appends without sorting, so the model keeps
arrival order. The syscalls are four, one per path of `procesar_syscall`:
`INIT_PROC`; `IO_SIN_DISPOSITIVO`, the only outcome of a well-formed IO
because no code registers a device with a name; `EXIT`; and `RECHAZADA` for
those answered with an error and no other effect on scheduling.

Not in the model: `cola_susp_ready` (only `medio_plazo` fills it, and nothing
reachable starts that thread or blocks a process); `PCB_DEVUELTO` (the value
the cpu sends is not the one the kernel switches on, so that case is never
entered); the second and further CPUs (the listener hands one descriptor to
one dispatch thread); SIGPIPE on a closed socket.

### Runs

| Run | Instance | Checks | Distinct states |
|---|---|---|---|
| `kernel_fifo` | FIFO, 4 processes, 4 syscalls, memory answers anything | `TypeOK`, `OrdenDeLlegada`, `EnUnaSolaCola`, `RespuestaPropia`, `CpuCoherente`, `UnProcesoPorCpu`, `CumpleCicloDeVida` (refinement), `ColaNewSeLibera`, `NewAvanza` | 38 557 |
| `kernel_pmcp` | PMCP, 3 processes, 4 syscalls, the CPU may disconnect | `NadieRepetido`, `EjecutaCreadoEnMemoria`, `CreadoPasaAReady`, `ColaNewSeLibera`, `NewAvanza` | 54 648 |
| `kernel_pausa` | FIFO, 3 processes | violated: `PausaDetieneAlCorto` | - |
| `kernel_pausa_eterna` | FIFO, 2 processes, memory accepts, fair | violated: `PausaTermina` | - |
| `kernel_doble_creacion` | FIFO, 3 processes | violated: `CreadoPasaAReady` | - |

The three violations are disagreements between the code and its own comments
or messages: the pause flag is acted on after it has changed (main.c:1852);
the EXIT of the last process leaves the pause on for ever, because the thread
that would lift it waits for a READY process (main.c:2228); and under FIFO a
process memory has created and the log declares READY stays in NEW, because
the function cannot take a mutex its caller holds
(planificador_largo_plazo.c:181).

**Bounds.** `MaxProcesos` bounds the pids, `MaxSyscalls` what the CPU sends;
both are guards of the environment (`RecibirSyscall`) and cut no step of the
kernel. Three processes are the fewest for one to be dispatched, one in READY
and one in NEW at once; four let two be in NEW while another is being
admitted, which is what an overtaking needs. Four syscalls cover two
`INIT_PROC`s, an `EXIT` that replans, and one more during or after it. The
semaphore has no bound of its own: it stays finite because admissions and
corrections are. The instances stop once the syscalls are spent, so deadlock
is not checked.

`CpuCoherente` speaks only of when `mutex_cpus` is free. Between sending a PCB and
noting its pid (main.c:1789-1794) `pid_proceso_actual` is the previous process's,
and a syscall attended then reads it without a lock; the model has that window,
and no property is about what an EXIT does in it.

**Fairness.** `SpecJusta` adds weak fairness of each thread and of memory:
the threads are never suspended or cancelled, and a POSIX mutex or semaphore
that stays available is eventually granted. Strong fairness of a mutex is not
assumed. Nothing is assumed of the CPU. `NewAvanza` is conditional: it
allows memory to refuse infinitely often. It does not say in which round a
process is tried: one that `ReleerEstado` skips is tried in a later one.

### Proofs

Proved for every `MaxProcesos`, `MaxSyscalls`, both algorithms, any set of
answers and with or without disconnections, from the four named assumptions on
the constants (`SupuestoAlgoritmo`, `SupuestoCotas`, `SupuestoRespuestas`,
`SupuestoCaida`):

* `TipoCorrecto`: `Spec => []TypeOK`.
* `ExclusionMutua`: who owns each mutex is exactly who is inside its section.
* `RespuestaEsPropia`: `Spec => []RespuestaPropia`.
* `CpuEsCoherente`: `Spec => []CpuCoherente`.
* `DespachoExclusivo`: `Spec => UnProcesoPorCpu`.
* `NadieSeRepite`: `Spec => []NadieRepetido`.
* `EjecutaLoCreado`: `Spec => []EjecutaCreadoEnMemoria`.
* `EnOrdenDeLlegada`: under FIFO, `Spec => []OrdenDeLlegada`.
* `LoCreadoPasaAReady`: under PMCP, `Spec => []CreadoPasaAReady`.
* `UnaSolaCola` and `ImplementaCicloDeVida`: if the CPU does not disconnect,
  `Spec => []EnUnaSolaCola` and `Spec => CumpleCicloDeVida`.

None of the invariants is inductive alone.

* `TypeOK` needs `TipoInv`: a thread that waits, publishes or files holds a
  real process (`Lugares`, `ProcesoElegido`), and the next pid never passes
  `MaxProcesos` (`Arranque`). That `RemoveFirst` and `Tail` stay within
  sequences of pids is lemmas `QuitarPrimero` and `QuitarPosicion`.
* `RespuestaPropia` needs the mutex to mean what its name says
  (`ExclusionNew`: the owner of `mutex_cola_new` is in `SeccionNew`, and
  conversely) and `Conversacion`: requests and answers in flight are exactly
  those of the owner's current step, one while it waits and none otherwise.
* `CpuCoherente` needs `ExclusionCpus` and `CpuInv`, which says what holds in
  the middle of a dispatch, between choosing the CPU and noting the pid.
  `UnProcesoPorCpu` follows: only `AsignarCpu` changes `cola_exec`
  (`SoloAsignarDespacha`), inside the section, after a free CPU was seen.

`SeguridadInv` is the conjunction; each part has its own lemma with a step per
action. On top of it a second inductive invariant, `ColasInv`, follows the
processes through the queues. Its lemmas have a step for each action that moves
something; `Quietud` shows once that every other action leaves the queues,
memory and the labels they speak of alone.

* `Reparto`: nobody is twice in a queue or in two, every pid in a queue is
  below `Tope` (the next pid, or the one that has its number and is not filed
  yet), and the process a thread works on is still in NEW, because the thread
  holds `mutex_cola_new`. `NadieRepetido` follows, disconnections or not.
* `Completo`: without disconnections, every pid below `Tope` is in some queue.
  With `Reparto`, `EnUnaSolaCola`, under the hypothesis `~CpuPuedeCaer`.
* `Orden`: under FIFO the queues are sorted and one after another, and the
  process that `principal` or `largo` is about to admit is the least of NEW.
  `despacho` could have chosen another, but its admission always times out on
  its own mutex, so it never moves one. Hence `OrdenDeLlegada`.
* `Creado`: a request on the socket is about the process in hand, and a
  confirmation on it is already in `creaciones`; needs `Conversacion`. Hence
  `EjecutaCreadoEnMemoria`.
* `SinCrear`: under PMCP no process of NEW has been created but the one whose
  confirmation is on the socket, and its thread moves it before it lets go of
  `cola_new`. Hence `CreadoPasaAReady`.
* `ImplementaCicloDeVida`: under `~CpuPuedeCaer`, `Spec => CumpleCicloDeVida`.
  `RecibirCreacion`, `AsignarCpu`, `PlanificarPrimero`, `EncolarEnNew` and
  `LiberarCpu` are the only steps that are not stutters (`SoloEstasMueven`;
  `DesecharReady` is not enabled by `Completo`), and `Reparto` makes the queue a
  process is in its state.

Only model-checked: liveness, which is out of the prover's reach.

## 4. Memory

### Modules

* `Memoria` - the model of `memoria/src/memoria.c`: one action per request.
* `MemoriaPrivada` - the abstract specification: each process has bytes of its
  own from its creation to its end, that only its own writes change; a read
  and a dump return them, a dump in parts. An access
  whose process is taken away before it is made (`tarde`) promises nothing of what
  it reads, and what it writes may fall anywhere. Frames, swap and suspension do
  not appear in it.
* `MemoriaPropiedades` - every property, and `Privada`, the refinement mapping
  (a byte of a process is the byte of its frame, or of its place in swap).
* `MCMemoria` - the files and sets of requests the `.cfg` files choose from.
* `Memoria_proofs`, `MemoriaSeguridad_proofs` - theorems and proofs.

### State, threads and steps

| Model | Code |
|---|---|
| `marcos_libres` | the frames whose flag is true |
| `procesos_activos`, `procesos_suspendidos` | the dictionaries; `SinProceso` is a missing key, `tabla` the page table, `SinMarco` an entry that is not present |
| `memoria_fisica`, `swap` | the two stores; `swap` has the bytes written so far |
| `archivo_instrucciones`, `sem_archivo_listo` | the open file, as the lines it still has, and its semaphore |
| `pedido`, `confirmacion` | what `atender_memoria_kernel` is serving, and its last boolean |
| `cpu`, `respuesta` | where `atender_memoria_cpu` is, with the address it has translated; its last answer |
| `volcado` | the dump being written, or just written |

`atender_memoria_kernel` serves one request at a time and is the only thread
that takes or frees frames or changes a page table, so a handler is one step;
receiving the request is another, and the CPU's thread runs in between. A dump
is a step for each page (`VolcarPagina`): `mutex_procesos` is held, but the copies
of the CPU's thread do not take it, so they can fall between two pages. The
CPU's accesses have two steps, because `leer_memoria` and `escribir_memoria`
sleep between the translation and the copy, with no mutex held; the kernel's
thread may serve any request meanwhile, about the process accessed or another.

`traducir_direccion` reads `procesos_activos` without `mutex_procesos`. While a
request that changes a dictionary is in progress the look-up may miss
(`CambiandoDiccionario`). While one frees the process it has found
(`Liberando`), it reads memory that has been freed, or `marco = -1` under
`presente`: the address it computes is then any of `FisicaPerdida`.

Kept as the code does it: `procesar_envio_archivo_kernel` always creates
process 0, its counter being a local variable; `FINALIZAR_PROCESO` looks among
the active processes only and answers nothing; `SUSPENDER_PROCESO` and
`REACTIVAR_PROCESO` answer true whether or not there is such a process; a
failed translation is not answered; a dump has every entry of the table; a
blank line ends the program like the end of the file; a creation over a pid in
use replaces its entry.

The requests are those the server accepts. Today the kernel sends
`ENVIO_ARCHIVO_KERNEL` (once), `CONSULTAR_ESPACIO` and `CREAR_PROCESO`, and the
CPU `SOLICITUD_INSTRUCCION`; the other codes are the interface the server
already implements, and the constant `Operaciones` chooses.

Assumed of the clients: with `PidsNuevos` the kernel creates no pid twice.
Nothing else: it may finish or suspend a process in the middle of an access.
Assumed of the configuration: one level of tables
(`CANTIDAD_NIVELES=1` in memoria.config; translation, suspension and dump look
at the root table only) and no more frames than entries in a table (16 and 32
there).

Not in the model: `reemplazar_pagina`, `hacer_reemplazo`,
`liberar_paginas_swap` and `dump_memoria`, which nothing calls; `marcos_en_uso`
and the referenced and modified bits, which nothing live reads; the roll-back
of a creation whose frames run out after they were counted, unreachable with a
single thread that takes frames; packets with too few fields; `malloc`
failures; the damage to the heap when `traducir_direccion` sets `referenciada` in
an entry already freed (memoria.c:334).

### Runs

| Run | Instance | Checks | Distinct states |
|---|---|---|---|
| `memoria_servidor` | 3 frames of 2 bytes, 2 pids, sizes 2 and 3, every request, 5 of them | `TypeOK`, `DuenoUnico`, `SinFugas`, `SoloSuPedidoLoQuita`, `ConsultaVale`, `CumpleMemoriaPrivada` (refinement) | 1 822 542 |
| `memoria_kernel` | the requests the kernel sends, integers as it sends them, pages of 32, a process of 64 | violated: `CreadoConSuTamanio` | - |
| `memoria_reactivada` | as `memoria_servidor`, 4 requests | violated: `ActivoEnMemoria` | - |

What the violations show. The kernel puts the bytes of an int where memory
expects text (planificador_largo_plazo.c:263, memoria.c:1098), so a process of
64 bytes is confirmed with size 0, over the entry of process 0. A reactivated
process has no page in memory (memoria.c:775).

What the passing run says of the race. `SoloSuPedidoLoQuita`: between the
translation and the copy, only a request that finishes, suspends or replaces the
process accessed takes its page away; no request about another process does, nor
gives the frame to anybody. `CumpleMemoriaPrivada` holds of every other access,
before, during and after such a one; it excepts the access that came too late
(`AccesoTarde`), whose copy goes wherever the frame has gone.

**Bounds.** Three frames hold a process of two pages and one of one page, and
refuse a second of two: creation succeeds, exactly fits and fails. Size 3 does
not fill its last page. Five requests (`MaxPedidos`) are enough for two
creations, a suspension, a reactivation and a dump; for a creation, two
suspensions with a reactivation between them and a dump; or to free frames and
give them to another process during an access. `Perdidas` has the addresses that
may be computed from a freed entry: 0, which is a frame of some process, and 6,
which is past the end of memory. An int is one
byte wide in the passing run: accesses are then aligned, since what an
unaligned int does to the next frame is outside what the code promises (it is
among the hazards). Addresses 1 and 3 are one in each of the first two pages.
The instance ends when the requests are spent, so deadlock is not checked.

No liveness is claimed of memory: its kernel thread answers in one step and
its CPU thread waits only for the file.

### Proofs

Proved for every size of memory, page and table, any pids, sizes, files and
addresses, with integers garbled or not and with or without failures of the
swap file, from `SupuestoTamanios` and `SupuestoPedidos`:

* `TipoCorrecto`: `Spec => []TypeOK`. It needs the arithmetic of frames (a
  byte of a frame is a byte of physical memory: `ByteDeMarco`) and that what
  goes to swap comes from a frame (`SwapTipo`).
* `MarcoConUnDueno`: `Spec => []DuenoUnico`. `DuenoUnico` is inductive: two
  pages share no frame *because* no page is in a free frame and a suspended
  process is in none.
* `NingunMarcoPerdido`: if `PidsNuevos`, `Spec => []SinFugas`. The inductive
  `FugasInv` adds that a process is in one dictionary at most and one being
  created in none, and `CabeEnLaTabla` that the table has an entry for every
  frame taken.
* `AccesoSeguro`: `Spec => SoloSuPedidoLoQuita`. An access loses its page only by a
  step of the kernel's thread that changes a table (`TardePaso`), a handler
  changes no table but that of the process of its request (`SoloDestino`), and
  while the page is there its frame is nobody else's, by `DuenoUnico`
  (`PerdidoEsTarde`).
* `PromesaCumplida`: `Spec => ConsultaVale`. `PromesaInv`: while the positive
  answer can bear on a creation, that many frames are free.
* `ImplementaMemoriaPrivada`: `Spec => CumpleMemoriaPrivada`, under four
  hypotheses that say what the code leaves to others:
  - `PidsNuevos`: a creation over a pid in use replaces its entry;
  - `LugaresSeparados`, `TAM_MEMORIA <= 1000`: the place of page `i` of `pid` in
    swap is `pid * 1000 + i * TAM_PAGINA`. memoria.config has 512. The size of
    the table would not do (32 entries of 32 bytes are 1024): two processes are
    kept apart because one has at most the machine's frames;
  - `~SwapPuedeFallar`: `suspender_proceso` frees the frame of a page it could
    not write;
  - `AccesosEnSuPagina`: an int does not cross the end of its page, and its
    address is within the table.

  `PrivadaInv` is inductive. Beyond what the theorems above carry it says that
  a process has no page past its size and fits in the machine (`RegistrosBien`,
  without which its place in swap could be another's), that a dump being written is
  that of a process that exists and has at most all its pages (`VolcadoBien`), and
  that an access in progress is to one of the addresses (`AccesoPedido`). Then
  each handler is shown to be the
  abstract operation or a stutter, page by page (`BytesIguales`): suspension and
  reactivation are stutters because a page's bytes are the same in its frame and
  in its place (`SwapEscrito`, `LugarUnico`), a write changes one process's
  bytes because its frame has one owner (`AccesoPropio`, from `DuenoUnico`), unless
  it comes too late, and then the abstract specification allows what it does.

Every property of memory the passing run checks is proved.

## 5. The CPU's accesses to memory

### Modules

* `Tlb`, `CachePaginas` - the operators of `tlb.c` and `cache.c`: look-up,
  insertion, victims, removal of a process.
* `Mmu` - the state machine: an instruction WRITE or READ, and each exchange
  with memory it takes.
* `MemoriaVirtual` - the abstract specification: a memory with one value per
  page, changed only by the writes the process in the CPU asks for, in one
  step. Tables, loads and write-backs do not appear in it. A page may be lost,
  and then nothing more is promised about it.
* `MmuPropiedades` - the properties, and `Virtual`, the refinement mapping: the
  value of a page is its copy in the cache, or else its frame.
* `Mmu_proofs`, `MmuSeguridad_proofs` - theorems and proofs.

### State and steps

| Model | Code |
|---|---|
| `tlb`, `contador_orden` | the list of `EntradaTLB`, oldest first; the counter, that wraps after `INT_MAX` |
| `cache`, `puntero_clock` | the array of `entrada_cache_t`, and the hand |
| `reloj` | `time(NULL)`, which LRU compares |
| `config` | the four keys of cpu.config that size and choose the tables |
| `acceso` | the instruction in progress: `fase` is the `recv` it is waiting in |
| `pcb_en_ejecucion` | the pid; a PCB may be received and returned between instructions |
| `memoria_fisica` | external: memory's frames |
| `terminados`, `escrito`, `perdidas` | history |

`Ejecutar` begins an instruction: the cache serves it at once, refuses it
because it goes past the page, or does not have the page. The phases are those
of `obtener_direccion_fisica_con_cache`: `tlb` (`ConsultarTlb`), `tabla`
(`RecibirMarco`), `pagina` (`RecibirPagina`, or `PaginaNoLlega`), `desalojo`
(`Desalojo`, the write-back of the victim) and `acceso`. Without a cache the
`pagina` phase is skipped (`obtener_direccion_fisica`).

Memory is external: `src/memoria` has no handler for operations 1, 2, 4 and 5
of mmu.c and cache.c, so they mean what the CPU takes them for, and each may
fail.

Kept as the code does it: a frame is its address and frame 0 is NULL, so a page
in frame 0 is never reached (mmu.c:63, 236); the cache keeps the frame's address
and sends it back as the frame (cache.c:131), and the model takes memory to
understand it; a victim is replaced whether or not memory confirmed it
(cache.c:149); a write that crosses the page is made in memory and leaves the
copy in the cache as it was (cache.c:296); a process that ends loses its
modified pages, because `limpiar_tlb_proceso` evicts it on descriptor 0
(mmu.c:278). These are the losses `perdidas` records, and `NadaSePierde` and the
refinement say there is no other.

Abstracted: a page's content is one value, which any write inside it replaces;
an address is its page and whether the datum fits in what is left of it. Not in
the model: the end of the program (`destruir_*`), and `limpiar_tlb`,
`limpiar_cache`, `marcar_pagina_modificada` and `mostrar_estado_tlb`, which
nothing calls.

Today's binaries reach little of this. cpu.config has 0 entries in both tables
and lacks `TAMANIO_PAGINA`, `CANTIDAD_NIVELES` and `ENTRADAS_POR_TABLA`, which
the code reads; `ciclo_instruccion` never returns `PROCESS_EXIT`; `READ` is
executed by `execute_instruction`, which nothing calls. The module models what
these functions do when they are configured and called as they ask. cache.h
makes a page 4096 bytes and memoria.config 32: the model assumes that the sizes
agree.

### Run

`mmu_accesos`: two processes, two pages each, one page in frame 0, two frames
of one process consecutive; two levels of tables with two entries; a cache of 2
under CLOCK and under CLOCK-M, a TLB of 2 under LRU, and a TLB of 2 under FIFO
with a cache of 1. 3 803 086 distinct states. It checks `TypeOK`,
`SinDuplicados`, `TraduccionFiel`, `NadaSePierde`, `SinRastros`,
`FifoSacaLaMasVieja`, `ClockMProtegeModificadas`, `ClockSegundaOportunidad` and
`CumpleMemoriaVirtual` (refinement).

**Bounds.** Three pages can be in use at once, one more than the tables hold,
so every victim is chosen and every kind of page displaced; two values tell an
old content from a new one. `INT_MAX = 2` makes the counter wrap while entries
of before are still there. `MAX_RELOJ = 1` gives equal and different
timestamps. Pages 2 and 3 differ only in their second-level entry. The instance
stops when both processes ended.

No liveness is claimed: every wait is for memory, which is external and may
not answer.

### Proofs

Proved for every set of processes, pages and frames, every page table, size of
the TLB and of the cache, and both replacements of each, from
`SupuestoMemoria`, `SupuestoConfiguracion` and `SupuestoInt`, and the hypothesis
`EntradasDistintas` of each theorem: two pages of a process never have the same
entries at every level. That holds when `ENTRADAS_POR_TABLA` to the power of
`CANTIDAD_NIVELES` exceeds every page number, which the provers, without a
theory of exponentiation, cannot derive.

* `TiposMmu`, `SinDuplicadosSiempre`, `TraduccionFielSiempre`,
  `SinRastrosSiempre`, from the inductive `IInv`. The four need one another: a
  page is not loaded twice only because the access in progress is about a page
  that is not in the cache (`AccesoBien`), and a copy's frame is right only if
  the translation in progress is.
* `NadaSePierdeSiempre`, from `JInv`, which adds `Coherencia` (a copy that is
  not modified equals its frame) and `Traida` (the page in transit, during a
  write-back, still equals its frame).
* `ClockMSiempre` and `ClockSiempre`: every entry is looked at in a lap
  (`Vuelta` is onto), so a victim that is not the wanted kind means there was
  none.
* `ImplementaMemoriaVirtual`: `Spec => CumpleMemoriaVirtual`, one step per
  action.

* `FifoSiempre`, for every size of the TLB and every `INT_MAX`, from `OrdenBien`:
  among the entries of pages in `recientes` an earlier place means a smaller
  order, and all are below the counter. `recientes`, a history variable, holds
  the pages that entered since the counter was last put back to 0. An exception
  read off the orders alone ("some entry's order has not been reached again")
  was tried first; it is enough with two entries, those of the run, and false
  with three, when the counter reaches the order of an entry that outlived the
  wrap.

Every property of the runs is proved.

## 6. The CPU's exchanges

### Modules

* `ProtocoloCpu` - the four threads of the CPU, memory's thread for the CPU and
  the two threads of the kernel that write to the dispatch socket.
* `EntregaDeSyscalls` - the abstract specification: lines run in order, none
  skipped or repeated, and the kernel attends each syscall among them once, in
  the order of the program.
* `ProtocoloCpuPropiedades` - the properties and the refinement mapping.
* `MCProtocoloCpu` - the programs.
* `ProtocoloCpu_proofs` - theorems about the threads and about how far the CPU
  runs ahead.
* `ProtocoloCpuEntrega_proofs` - the refinement, the types, and that neither
  thread of the CPU waits in vain.

### Threads and words

| Thread | Code |
|---|---|
| `principal` | `main`, `iniciar_cpu`, `recibir_pcb`, `recibir_instruccion`, `procesar_instruccion` (cpu.c) |
| `despacho` | `conectar_kernel_dispatch` (cpu.c:300-405) |
| `interrupcion` | `conectar_kernel_interrupt` (cpu.c:407-434) |
| `conexion` | `conectar_cpu_memoria` (cpu.c:436-502) |
| `memoria` | `atender_memoria_cpu` (memoria.c:1504-1604) |
| `kernel` | `atender_cpu_dispatch` (main.c:869-1182) |
| `corto` | `planificador_corto_plazo` (main.c:1738-1824) |

A packet is sent in two or three `send`s (cliente.c:109-158) and read in pieces
by whoever reads it; nothing keeps a code together with its size. So a socket
is a sequence of words: a code, a size (`tam`) or data. A packet is put on it
whole only where no other thread writes to that socket; the kernel's two
writers, and the CPU's request to memory, put one word at a time.

What the code does with those words, and the model with it:

* memory reads the code of `SOLICITUD_INSTRUCCION` and not its size; the 0 is
  the next code and makes it drop all that has arrived (`LimpiarBuffer`);
* the CPU reads the code of `ARCHIVO_LISTO` and not its size; the 0 is the
  answer to the first request, and the CPU asks again (`Seguir`);
* every answer of the kernel has two words and `despacho` reads one, so the
  size of an answer is the answer to the next syscall (`Confirmar`);
* no code the kernel answers is one the CPU expects (43 and 44 in kernel.h, 26
  and 27 in conexion.h), and every case of the switch goes on;
* a PCB sent while the CPU waits for an answer is read, word by word, as
  answers;
* `ciclo_instruccion` always returns `CONTINUE_EXECUTION`, so after the end of
  its program the CPU calls `recibir_instruccion` again, on a closed
  descriptor, and then once more, waiting for a file that is not announced
  again.

Of a line of the program the model keeps its number and its kind: `EXIT`, `IO`,
`INIT_PROC` (which stands for `DUMP_MEMORY` too: the kernel answers and frees
no CPU), `WRITE`, any other instruction, or a blank line. A `WRITE` ends the CPU
(`caida`): cpu.config has no `TAMANIO_PAGINA`, and `config_get_int_value` takes
`atoi` of the value of a key that is not there (cpu.c:653). The sample programs of
the repository (`ejemplo`, `MEMORIA_BASE`) have such lines. The kernel's queues are those
of section 3: here the kernel may free the CPU on an EXIT or an IO, may have a
process to send, or may wait for a READY process for ever (`detenido`).

Assumed: a signal does not interrupt a `recv`, no thread is stopped by a SIGPIPE
on a closed socket, and what arrived before memory closed is still read.
`puntual` says that the CPU's pauses between requests (seconds) outlast
memory's (tenths); both cases are in the model.

Not in the model: the kernel disconnecting; what memory and the kernel do of the
sockets of a CPU that has ended; the words that a WRITE would exchange on the
descriptor the lines come from, were there a page size (mmu.c:222 would then take
an answer that is waiting for the frame it asks for, and memory has no handler
for the request: section 5); and `check_interrupt`, which nothing calls.
`LeeSinEsperar`, `CumpleEntregaDeSyscalls` and `ProgramaTermina` say in their
comments what they owe to that.

### Runs

| Run | Instance | Checks | Distinct states |
|---|---|---|---|
| `cpu_protocolo` | every program of up to 2 lines and 4 longer ones, PCBs of 2 words, 3 dispatches, `MAX_INSTRUCCIONES = 3`, fair | `TypeOK`, `ManoAMano`, `AdelantoAcotado`, `RespuestaEnCamino`, `LeeSinEsperar`, `CumpleEntregaDeSyscalls` (refinement), `SyscallSeConfirma`, `ProgramaTermina` | 735 683 |
| `cpu_adelantada` | the same | violated: `SigueAtendida` | - |
| `cpu_un_proceso` | one program of two lines, fair | violated: `EsperaOtroProceso` | - |

The violations. After its first program the CPU waits for the announcement of a
file that memory announces once (cpu.c:517), so that it neither returns the PCB
nor receives another process, as cpu.c:208-210 and 276 say it does. And the CPU
takes the 0 left over from the first answer for the answer to its second
syscall, and runs the next line before the kernel has attended it (cpu.c:360,
against cpu.c:629 and main.c:1009). `AdelantoAcotado` says how far this can go:
one syscall per answer, and one per word of every PCB after the first. `CumpleEntregaDeSyscalls` says what it does not break.

Two invariants say that nobody waits in vain, though words are read out of step.
`RespuestaEnCamino`: while `despacho` waits for an answer there is a word for it
on the socket, or the kernel has the syscall; principal, which reads the same
socket for its PCB, has not taken it. `LeeSinEsperar`: with `puntual`, principal
never even waits for the answer to the request it has just made, because the
size of `ARCHIVO_LISTO`, taken for an answer, put its requests one ahead of what
it reads. A request dropped would show as an answer missing: with those pauses
none is.

**Bounds.** Two lines give every order of two kinds; the longer programs have
two syscalls after one that may free the CPU, so that a PCB is read as answers,
and three, so that the lead grows past one. `TAM_PCB = 2` is the least with
which a PCB's data are more than one word. Three dispatches are two while the
first process still runs. `MAX_INSTRUCCIONES` (1000 in the code) must exceed 2,
which is as far as the count ever gets. The system stops at the end of the
program: deadlock is not checked, and what should not stop is a liveness
property.

**Fairness.** Weak fairness of each thread: none is ever suspended or
cancelled, and in each a single action is possible at a time. That a PCB once
begun is sent whole is fairness of `TerminarPcb`; that the kernel has a process
to send is not assumed. `ProgramaTermina` is conditional on `puntual`, because
without it a request can be dropped, and both liveness properties except the
kernel being `detenido` (main.c:2228, the run `kernel_pausa_eterna`). What
`ProgramaTermina` promises is that every line is run before the first blank one, if
there is one (memory takes it for the end of the file), and before the first WRITE,
which is the last line run.

### Proofs

For every set of programs, every `TAM_PCB` of one word or more, any number of
dispatches and any `MAX_INSTRUCCIONES` of two or more (`SupuestoProgramas`,
`SupuestoLimites`):

* `ManoAManoSiempre`: from `Control`, which says where
  the threads are and what the semaphores between them are worth, and nothing
  of the words. `ManoAMano` is not inductive alone: that a token of
  `sem_instruccion_lista` is there at most once rests on principal waiting.
  `Control` also says that the file is announced once (`ArchivoBien`) and the
  descriptor closed before the second time round (`CicloBien`), on which the
  other theorems rest: the CPU receives one PCB only, the disagreement the run
  `cpu_un_proceso` shows.
* `AdelantoSiempre`: from `Cuenta`, an account of the dispatch socket. The words
  in it, those the kernel still owes of what it began (`FaltanDelKernel`,
  `FaltanDeCorto`), those despacho has consumed and those of the first PCB are
  at most two per syscall attended and `TAM_PCB + 2` per PCB. `AdelantoAcotado`
  is that sum with its other terms dropped.
* `EntregaCumplida`: the refinement, from `Control` and `EntregaBien`.
  `MemoriaBien` gives every word on the socket from memory by its place among
  all those memory ever sends: two of the announcement, three per line, two of
  the end. `LecturaBien` says how many of them have been read in each state of
  principal, which is what shows that a 0 read as a code never leaves a line
  half read. `SyscallsBien` describes the socket to the kernel as packets whose
  lines follow the last syscall attended and skip none. Only
  `ProcesarInstruccion` and `ProcesarSyscall` change what the abstract
  specification sees.
* `TypeOKSiempre`: from all of these and `Tipos`, which adds what the
  semaphores of the handshakes are worth and what is on the dispatch socket
  until the CPU has its process (`PrimerPcbBien`), without which the pid the CPU
  reads could be any word.
* `RespuestaSiempre`: from `DebidasBien`, which counts the other way from
  `Cuenta`. Three words per syscall sent and not confirmed are on the socket to
  the kernel or in `atendidas` (`PorConfirmar`, `CodigoLeido`), and of the two
  words the kernel owes per syscall it has attended despacho took at most one
  (`PorResponder`). If both sockets were empty and the kernel had nothing in
  hand, `confirmadas + 1` syscalls would be attended and twice as many words
  written, of which only `confirmadas` were taken. That principal took none of
  them is the third part: before the first PCB no syscall is attended.
* `LecturaSiempre`: from `PedidosBien`, which relates what memory has delivered
  to what principal has asked. While memory is serving, `linea` and the request
  it has not read yet (`SinAtender`) add up to the lines executed, one more for
  the size of the announcement once it has been taken for an answer, and the
  request in hand (`Pedidas`); and `EnEspera` lists the three contents the
  socket to memory can have, which is what shows that a size taken for a code
  drops only itself. With `LecturaBien`, an empty socket would mean as many
  lines delivered as executed, one fewer than that sum allows.

`SyscallSeConfirma` and `ProgramaTermina`, under fairness, are only
model-checked.

## 7. Not modelled

* **IO devices.** `io.c` connects and waits; no device ever registers a name
  with the kernel, `fd_io` is never set, and the list of devices holds a type
  the look-up does not read, so `procesar_io_syscall` never finds one. In the
  models an IO is what it is today: a syscall with an error answer. Were it
  reached, `procesar_fin_io` would run twice (main.c:1330-1364) and main.c:2319
  would lock a mutex its caller holds.
* **Medium-term scheduler.** `planificador_medio_plazo` is not started by
  anybody and `bloquear_proceso_por_io` is never reached (it looks for a `t_pcb`
  in a list of `t_proceso_kernel`), so no process is blocked and no timer runs.
  Its code has defects a model would only restate: a timer is freed and still
  listed (planificador_medio_plazo.c:211-238), and two functions lock
  `mutex_cola_blocked` again (319-389).
* **`planificador_corto_plazo.c`** has no caller; `main.c` has its own thread.
* **`dump_memoria`** locks a mutex its loop holds (memoria.c:714), and nothing
  calls it.
* **Interrupts.** The kernel never sends one and the CPU never looks.
* **Start-up and shut-down**: sockets, configuration, logs, signals.

## 8. Running

    tlc -config KernelFIFO.cfg MCKernelPlanificacion
    tlapm KernelPlanificacion_proofs.tla
    tlapm KernelSeguridad_proofs.tla
    tlc -config MemoriaServidor.cfg MCMemoria
    tlapm Memoria_proofs.tla
    tlapm MemoriaSeguridad_proofs.tla
    tlc -config MmuAccesos.cfg MCMmu
    tlapm Mmu_proofs.tla
    tlapm MmuSeguridad_proofs.tla
    tlc -config ProtocoloCpu.cfg MCProtocoloCpu
    tlapm ProtocoloCpu_proofs.tla
    tlapm ProtocoloCpuEntrega_proofs.tla

`MemoriaServidor`, `MmuAccesos` and `ProtocoloCpu` take one to three minutes each
and every other run less than half a minute.
