----------------------------- MODULE Mmu_proofs -----------------------------
(***************************************************************************)
(* The tables of the CPU: what the operators of Tlb and CachePaginas       *)
(* return, and that the tables keep to their sets and sizes, hold no page  *)
(* twice, translate as the page table does and keep nothing of a process   *)
(* that ended.                                                             *)
(***************************************************************************)
EXTENDS MmuPropiedades, FiniteSetTheorems, SequenceTheorems, WellFoundedInduction, TLAPS

(* A set of naturals has a least member.                                    *)
LEMMA MinimoNat ==
    ASSUME NEW S \in SUBSET Nat, S # {}
    PROVE  \E x \in S : \A y \in S : x <= y
<1> DEFINE R == StrictSubsetOrdering(Nat)
           T == {0..x : x \in S}
<1>1. T \subseteq FiniteSubsetsOf(Nat) /\ T # {}
  <2>1. \A x \in S : IsFiniteSet(0..x) BY FS_Interval
  <2>2. \A x \in S : 0..x \in SUBSET Nat OBVIOUS
  <2> QED BY <2>1, <2>2 DEF FiniteSubsetsOf
<1>2. IsWellFoundedOn(R, FiniteSubsetsOf(Nat)) BY FS_StrictSubsetOrderingWellFounded
<1> HIDE DEF R, T
<1>3. PICK t \in T : \A u \in T : ~ (<<u, t>> \in R) BY <1>1, <1>2, WFMin
<1> USE DEF T
<1>4. PICK x \in S : t = 0..x BY <1>3
<1>5. ASSUME NEW y \in S, ~(x <= y) PROVE FALSE
  <2>1. x \in Nat /\ y \in Nat /\ y < x BY <1>5
  <2>2. 0..y \subseteq 0..x /\ x \in 0..x /\ x \notin 0..y BY <2>1
  <2>3. <<0..y, 0..x>> \in R BY <2>1, <2>2 DEF R, StrictSubsetOrdering
  <2> QED BY <1>3, <1>4, <2>3
<1> QED BY <1>5

(* A table of keys has a first least one.                                   *)
LEMMA PrimeraClave ==
    ASSUME NEW n \in Nat, n > 0, NEW clave \in [1..n -> Nat]
    PROVE  \E i \in 1..n : \A j \in 1..n : \/ clave[i] < clave[j]
                                           \/ clave[i] = clave[j] /\ i <= j
<1> DEFINE C == {clave[i] : i \in 1..n}
<1>1. C \in SUBSET Nat /\ C # {} BY 1 \in 1..n
<1>2. PICK c \in C : \A d \in C : c <= d BY <1>1, MinimoNat
<1> DEFINE I == {i \in 1..n : clave[i] = c}
<1>3. I \in SUBSET Nat /\ I # {} BY <1>2
<1>4. PICK i \in I : \A j \in I : i <= j BY <1>3, MinimoNat
<1>5. \A j \in 1..n : clave[j] \in C /\ clave[j] \in Nat OBVIOUS
<1>6. \A j \in 1..n : \/ clave[i] < clave[j]
                      \/ clave[i] = clave[j] /\ i <= j
  <2> SUFFICES ASSUME NEW j \in 1..n
               PROVE  clave[i] < clave[j] \/ (clave[i] = clave[j] /\ i <= j)
    OBVIOUS
  <2>1. clave[i] = c /\ c <= clave[j] /\ c \in Nat BY <1>1, <1>2, <1>5
  <2>2. CASE clave[j] = c BY <2>1, <2>2, <1>4
  <2>3. CASE clave[j] # c BY <2>1, <2>3, <1>5
  <2> QED BY <2>2, <2>3
<1> QED BY <1>6

----------------------------------------------------------------------------
(* The TLB.  A list taken from another, some entries left out, in its order. *)
Tomada(r, s) ==
    \E f \in [DOMAIN r -> DOMAIN s] :
        /\ \A a, b \in DOMAIN r : a < b => f[a] < f[b]
        /\ \A k \in DOMAIN r : r[k] = s[f[k]]

LEMMA SinUno ==
    ASSUME NEW S, NEW s \in Seq(S), NEW i \in 1..Len(s)
    PROVE  /\ RemoveAt(s, i) \in Seq(S) /\ Len(RemoveAt(s, i)) = Len(s) - 1
           /\ Tomada(RemoveAt(s, i), s)
<1> DEFINE r == RemoveAt(s, i)
           f == [k \in 1..Len(s) - 1 |-> IF k < i THEN k ELSE k + 1]
<1>1. /\ SubSeq(s, 1, i - 1) \in Seq(S) /\ Len(SubSeq(s, 1, i - 1)) = i - 1
      /\ \A k \in 1..i - 1 : SubSeq(s, 1, i - 1)[k] = s[k]
  BY SubSeqProperties, LenProperties, ElementOfSeq
<1>2. /\ SubSeq(s, i + 1, Len(s)) \in Seq(S) /\ Len(SubSeq(s, i + 1, Len(s))) = Len(s) - i
      /\ \A k \in 1..Len(s) - i : SubSeq(s, i + 1, Len(s))[k] = s[i + k]
  BY SubSeqProperties, LenProperties, ElementOfSeq
<1>3. /\ r \in Seq(S) /\ Len(r) = Len(s) - 1
      /\ \A k \in 1..Len(s) - 1 : r[k] = IF k < i THEN s[k] ELSE s[k + 1]
  <2> DEFINE a == SubSeq(s, 1, i - 1)
             b == SubSeq(s, i + 1, Len(s))
  <2>0. r = a \o b BY DEF RemoveAt
  <2> HIDE DEF a, b, r
  <2>1. /\ a \in Seq(S) /\ Len(a) = i - 1 /\ b \in Seq(S) /\ Len(b) = Len(s) - i
    BY <1>1, <1>2 DEF a, b
  <2>2. /\ a \o b \in Seq(S) /\ Len(a \o b) = Len(a) + Len(b)
        /\ \A k \in 1..Len(a) + Len(b) : (a \o b)[k] = IF k <= Len(a) THEN a[k] ELSE b[k - Len(a)]
    BY <2>1, ConcatProperties
  <2>3. /\ r \in Seq(S) /\ Len(r) = Len(s) - 1
        /\ \A k \in 1..Len(s) - 1 : r[k] = IF k <= i - 1 THEN a[k] ELSE b[k - (i - 1)]
    <3>1. Len(a) + Len(b) = Len(s) - 1 BY <2>1, LenProperties
    <3> QED BY <2>0, <2>1, <2>2, <3>1
  <2>4. ASSUME NEW k \in 1..Len(s) - 1 PROVE r[k] = IF k < i THEN s[k] ELSE s[k + 1]
    <3>0. Len(s) \in Nat BY LenProperties
    <3>1. CASE k < i
      <4>1. k \in 1..i - 1 BY <3>0, <3>1
      <4>2. a[k] = s[k] BY <4>1, <1>1 DEF a
      <4> QED BY <2>3, <3>1, <4>1, <4>2
    <3>2. CASE k >= i
      <4>1. k - (i - 1) \in 1..Len(s) - i /\ i + (k - (i - 1)) = k + 1 BY <3>0, <3>2
      <4>2. b[k - (i - 1)] = s[k + 1] BY <4>1, <1>2 DEF b
      <4> QED BY <2>3, <3>0, <3>2, <4>2
    <3> QED BY <3>1, <3>2
  <2> QED BY <2>3, <2>4
<1>4. DOMAIN r = 1..Len(s) - 1 /\ DOMAIN s = 1..Len(s) BY <1>3
<1>5. f \in [DOMAIN r -> DOMAIN s] BY <1>4
<1>6. \A a, b \in DOMAIN r : a < b => f[a] < f[b] BY <1>4
<1>7. \A k \in DOMAIN r : r[k] = s[f[k]] BY <1>3, <1>4
<1> QED BY <1>3, <1>5, <1>6, <1>7 DEF Tomada

(* Both victims are entries of the list.                                    *)
LEMMA VictimaEnLista ==
    ASSUME NEW P, NEW G, NEW M, NEW T \in SUBSET Nat,
           NEW s \in Seq(EntradasTlb(P, G, M, T)), Len(s) > 0
    PROVE  encontrar_victima_fifo(s) \in 1..Len(s) /\ encontrar_victima_lru(s) \in 1..Len(s)
<1>0. /\ Len(s) \in Nat /\ DOMAIN s = 1..Len(s)
      /\ \A i \in 1..Len(s) : s[i].orden_insercion \in Nat /\ s[i].timestamp \in Nat
  <2>1. Len(s) \in Nat /\ DOMAIN s = 1..Len(s) BY LenProperties
  <2>2. \A i \in 1..Len(s) : s[i] \in EntradasTlb(P, G, M, T) BY ElementOfSeq
  <2>3. \A e \in EntradasTlb(P, G, M, T) : e.orden_insercion \in 0..INT_MAX /\ e.timestamp \in T
    BY DEF EntradasTlb
  <2>4. 0..INT_MAX \subseteq Nat BY SupuestoInt
  <2> QED BY <2>1, <2>2, <2>3, <2>4
<1>1. encontrar_victima_fifo(s) \in 1..Len(s)
  <2> DEFINE clave == [i \in 1..Len(s) |-> s[i].orden_insercion]
  <2>1. clave \in [1..Len(s) -> Nat] BY <1>0
  <2>2. \E i \in 1..Len(s) : \A j \in 1..Len(s) : \/ clave[i] < clave[j]
                                                  \/ clave[i] = clave[j] /\ i <= j
    BY <1>0, <2>1, PrimeraClave
  <2> QED BY <1>0, <2>2 DEF encontrar_victima_fifo, PrimerMinimo
<1>2. encontrar_victima_lru(s) \in 1..Len(s)
  <2> DEFINE clave == [i \in 1..Len(s) |-> s[i].timestamp]
  <2>1. clave \in [1..Len(s) -> Nat] BY <1>0
  <2>2. \E i \in 1..Len(s) : \A j \in 1..Len(s) : \/ clave[i] < clave[j]
                                                  \/ clave[i] = clave[j] /\ i <= j
    BY <1>0, <2>1, PrimeraClave
  <2> QED BY <1>0, <2>2 DEF encontrar_victima_lru, PrimerMinimo
<1> QED BY <1>1, <1>2

(* There is room after ConLugar, and nothing new.                           *)
LEMMA HaceLugar ==
    ASSUME NEW P, NEW G, NEW M, NEW T \in SUBSET Nat,
           NEW s \in Seq(EntradasTlb(P, G, M, T)), NEW n \in Nat, n > 0, Len(s) <= n,
           NEW alg
    PROVE  /\ ConLugar(s, n, alg) \in Seq(EntradasTlb(P, G, M, T))
           /\ Len(ConLugar(s, n, alg)) < n
           /\ Tomada(ConLugar(s, n, alg), s)
<1>1. CASE Len(s) < n
  <2>1. ConLugar(s, n, alg) = s BY <1>1 DEF ConLugar
  <2>2. Tomada(s, s)
    <3> DEFINE f == [k \in DOMAIN s |-> k]
    <3>1. f \in [DOMAIN s -> DOMAIN s] OBVIOUS
    <3> QED BY <3>1 DEF Tomada
  <2> QED BY <1>1, <2>1, <2>2
<1>2. CASE Len(s) = n
  <2> DEFINE v == IF alg = "FIFO" THEN encontrar_victima_fifo(s) ELSE encontrar_victima_lru(s)
  <2>1. v \in 1..Len(s) BY <1>2, VictimaEnLista
  <2>2. ConLugar(s, n, alg) = RemoveAt(s, v) BY <1>2 DEF ConLugar
  <2> HIDE DEF v
  <2> QED BY <1>2, <2>1, <2>2, SinUno
<1> QED BY <1>1, <1>2

LEMMA FuncionSeq ==
    ASSUME NEW S, NEW n \in Nat, NEW f \in [1..n -> S]
    PROVE  f \in Seq(S) /\ Len(f) = n /\ DOMAIN f = 1..n
OBVIOUS

(* Two entries for the same page, and the same translation.                 *)
MismaPagina(e, x)    == e.pid = x.pid /\ e.pagina = x.pagina
MismaTraduccion(e, x) == MismaPagina(e, x) /\ e.marco = x.marco
Unicas(s) == \A i, j \in DOMAIN s : MismaPagina(s[i], s[j]) => i = j

LEMMA RefrescaSinTraducir ==
    ASSUME NEW P, NEW G, NEW M, NEW T \in SUBSET Nat,
           NEW s \in Seq(EntradasTlb(P, G, M, T)), NEW pid, NEW pagina, NEW ahora \in T
    PROVE  /\ RefrescarPrimera(s, pid, pagina, ahora) \in Seq(EntradasTlb(P, G, M, T))
           /\ Len(RefrescarPrimera(s, pid, pagina, ahora)) = Len(s)
           /\ \A i \in 1..Len(s) :
                 MismaTraduccion(RefrescarPrimera(s, pid, pagina, ahora)[i], s[i])
<1> DEFINE r == RefrescarPrimera(s, pid, pagina, ahora)
           E == EntradasTlb(P, G, M, T)
<1>1. Len(s) \in Nat /\ DOMAIN s = 1..Len(s) /\ \A i \in 1..Len(s) : s[i] \in E
  BY LenProperties, ElementOfSeq
<1>2. DOMAIN r = 1..Len(s) /\ \A i \in 1..Len(s) : r[i] = s[i] \/ r[i] = [s[i] EXCEPT !.timestamp = ahora]
  BY <1>1 DEF RefrescarPrimera
<1>3. \A e \in E : [e EXCEPT !.timestamp = ahora] \in E /\ MismaTraduccion([e EXCEPT !.timestamp = ahora], e)
  BY DEF EntradasTlb, MismaTraduccion, MismaPagina
<1>4. \A i \in 1..Len(s) : r[i] \in E /\ MismaTraduccion(r[i], s[i])
  BY <1>1, <1>2, <1>3 DEF MismaTraduccion, MismaPagina
<1>5. r \in [1..Len(s) -> E]
  <2>1. r = [i \in 1..Len(s) |-> r[i]] BY <1>1 DEF RefrescarPrimera
  <2> HIDE DEF r, E
  <2> QED BY <1>4, <2>1
<1> HIDE DEF r, E
<1>6. r \in Seq(E) /\ Len(r) = Len(s) BY <1>1, <1>5, FuncionSeq
<1> QED BY <1>4, <1>6 DEF r, E

LEMMA Tomadas ==
    ASSUME NEW S, NEW s \in Seq(S), NEW r \in Seq(S), Tomada(r, s)
    PROVE  /\ \A k \in 1..Len(r) : \E i \in 1..Len(s) : r[k] = s[i]
           /\ Unicas(s) => Unicas(r)
<1>1. DOMAIN s = 1..Len(s) /\ DOMAIN r = 1..Len(r) BY LenProperties
<1>2. PICK f \in [DOMAIN r -> DOMAIN s] :
          /\ \A a, b \in DOMAIN r : a < b => f[a] < f[b]
          /\ \A k \in DOMAIN r : r[k] = s[f[k]]
  BY DEF Tomada
<1>3. \A k \in 1..Len(r) : f[k] \in 1..Len(s) /\ r[k] = s[f[k]] BY <1>1, <1>2
<1>4. \A a, b \in DOMAIN r : f[a] = f[b] => a = b
  <2> SUFFICES ASSUME NEW a \in DOMAIN r, NEW b \in DOMAIN r, a # b PROVE f[a] # f[b] OBVIOUS
  <2>1. f[a] \in Int /\ f[b] \in Int /\ a \in Int /\ b \in Int BY <1>1, <1>3
  <2>2. a < b \/ b < a BY <2>1
  <2> QED BY <1>2, <2>1, <2>2
<1>5. Unicas(s) => Unicas(r) BY <1>1, <1>2, <1>3, <1>4 DEF Unicas, MismaPagina
<1> QED BY <1>3, <1>5

(* After actualizar_tlb the page has one entry, with its new frame; the      *)
(* others were there.                                                        *)
LEMMA ActualizaTlb ==
    ASSUME NEW P, NEW G, NEW M, NEW T \in SUBSET Nat,
           NEW s \in Seq(EntradasTlb(P, G, M, T)), NEW n \in Nat, n > 0, Len(s) <= n,
           NEW alg, NEW pid \in P, NEW pagina \in G, NEW marco \in M, NEW ahora \in T,
           NEW orden \in 0..INT_MAX, Unicas(s)
    PROVE  LET r == actualizar_tlb(s, n, alg, pid, pagina, marco, ahora, orden) IN
           /\ r \in Seq(EntradasTlb(P, G, M, T)) /\ Len(r) <= n
           /\ Unicas(r)
           /\ \A k \in 1..Len(r) :
                 \/ EsDe(r[k], pid, pagina) /\ r[k].marco = marco
                 \/ \E i \in 1..Len(s) : MismaTraduccion(r[k], s[i])
<1> DEFINE r == actualizar_tlb(s, n, alg, pid, pagina, marco, ahora, orden)
           E == EntradasTlb(P, G, M, T)
<1>0. Len(s) \in Nat /\ DOMAIN s = 1..Len(s) /\ \A i \in 1..Len(s) : s[i] \in E
  BY LenProperties, ElementOfSeq
<1>1. CASE Posiciones(s, pid, pagina) # {}
  <2> DEFINE q == RefrescarPrimera(s, pid, pagina, ahora)
  <2>1. r = [i \in DOMAIN q |-> IF EsDe(q[i], pid, pagina) THEN [q[i] EXCEPT !.marco = marco] ELSE q[i]]
    BY <1>1 DEF actualizar_tlb
  <2>2. q \in Seq(E) /\ Len(q) = Len(s) /\ \A i \in 1..Len(s) : MismaTraduccion(q[i], s[i])
    BY RefrescaSinTraducir
  <2> HIDE DEF q, r
  <2>3. DOMAIN q = 1..Len(s) /\ \A i \in 1..Len(s) : q[i] \in E BY <2>2, LenProperties, ElementOfSeq
  <2>4. \A e \in E : /\ [e EXCEPT !.marco = marco] \in E
                      /\ MismaPagina([e EXCEPT !.marco = marco], e)
                      /\ [e EXCEPT !.marco = marco].marco = marco
    BY DEF EntradasTlb, MismaPagina
  <2>5. ASSUME NEW i \in 1..Len(s)
        PROVE  /\ r[i] \in E /\ MismaPagina(r[i], s[i])
               /\ (EsDe(r[i], pid, pagina) /\ r[i].marco = marco) \/ MismaTraduccion(r[i], s[i])
    <3>1. CASE EsDe(q[i], pid, pagina)
      <4>1. r[i] = [q[i] EXCEPT !.marco = marco] BY <2>1, <2>3, <3>1
      <4>2. r[i] \in E /\ MismaPagina(r[i], q[i]) /\ r[i].marco = marco BY <4>1, <2>3, <2>4
      <4> QED BY <3>1, <4>2, <2>2 DEF MismaPagina, MismaTraduccion, EsDe
    <3>2. CASE ~EsDe(q[i], pid, pagina)
      <4>1. r[i] = q[i] BY <2>1, <2>3, <3>2
      <4> QED BY <4>1, <2>2, <2>3 DEF MismaTraduccion
    <3> QED BY <3>1, <3>2
  <2>6. r \in [1..Len(s) -> E]
    <3>1. DOMAIN r = 1..Len(s) /\ r = [i \in 1..Len(s) |-> r[i]] BY <2>1, <2>3
    <3> HIDE DEF E
    <3> QED BY <3>1, <2>5
  <2>7. r \in Seq(E) /\ Len(r) = Len(s) /\ DOMAIN r = 1..Len(s) BY <2>6, <1>0, FuncionSeq
  <2>8. Unicas(r) BY <2>5, <2>7, <1>0 DEF Unicas, MismaPagina
  <2> QED BY <2>5, <2>7, <2>8 DEF r
<1>2. CASE Posiciones(s, pid, pagina) = {}
  <2> DEFINE q == ConLugar(s, n, alg)
             e == [pid |-> pid, pagina |-> pagina, marco |-> marco, timestamp |-> ahora,
                   orden_insercion |-> orden]
  <2>1. r = Append(q, e) BY <1>2 DEF actualizar_tlb
  <2>2. q \in Seq(E) /\ Len(q) < n /\ Tomada(q, s) BY HaceLugar
  <2>3. e \in E /\ EsDe(e, pid, pagina) /\ e.marco = marco BY DEF EntradasTlb, EsDe
  <2> HIDE DEF q, r, e
  <2>4. /\ r \in Seq(E) /\ Len(r) = Len(q) + 1 /\ Len(q) \in Nat
        /\ r[Len(q) + 1] = e /\ \A k \in 1..Len(q) : r[k] = q[k]
    BY <2>1, <2>2, <2>3, AppendProperties, LenProperties
  <2>5. Unicas(q) /\ \A k \in 1..Len(q) : \E i \in 1..Len(s) : q[k] = s[i]
    BY <2>2, Tomadas
  <2>6. \A k \in 1..Len(q) : ~EsDe(q[k], pid, pagina)
    BY <1>2, <1>0, <2>5 DEF Posiciones
  <2>7. DOMAIN r = 1..Len(q) + 1 /\ DOMAIN q = 1..Len(q) BY <2>2, <2>4, LenProperties
  <2>8. Unicas(r)
    <3> SUFFICES ASSUME NEW i \in 1..Len(q) + 1, NEW j \in 1..Len(q) + 1,
                        MismaPagina(r[i], r[j])
                 PROVE  i = j
      BY <2>7 DEF Unicas
    <3>1. CASE i \in 1..Len(q) /\ j \in 1..Len(q) BY <3>1, <2>4, <2>5, <2>7 DEF Unicas
    <3>2. CASE i = Len(q) + 1 /\ j \in 1..Len(q)
      BY <3>2, <2>3, <2>4, <2>6 DEF MismaPagina, EsDe
    <3>3. CASE j = Len(q) + 1 /\ i \in 1..Len(q)
      BY <3>3, <2>3, <2>4, <2>6 DEF MismaPagina, EsDe
    <3>4. CASE i = Len(q) + 1 /\ j = Len(q) + 1 BY <3>4
    <3> QED BY <3>1, <3>2, <3>3, <3>4, <2>4
  <2>9. ASSUME NEW k \in 1..Len(r)
        PROVE  \/ EsDe(r[k], pid, pagina) /\ r[k].marco = marco
               \/ \E i \in 1..Len(s) : MismaTraduccion(r[k], s[i])
    <3>1. CASE k = Len(q) + 1 BY <3>1, <2>3, <2>4
    <3>2. CASE k \in 1..Len(q) BY <3>2, <2>4, <2>5 DEF MismaTraduccion, MismaPagina
    <3> QED BY <3>1, <3>2, <2>4
  <2> QED BY <2>2, <2>4, <2>8, <2>9 DEF r
<1> QED BY <1>1, <1>2

(* Nothing is left of the process in the list, and nothing is new.           *)
LEMMA EliminaEntradas ==
    ASSUME NEW S, NEW s \in Seq(S), NEW pid, NEW r \in eliminar_entradas_proceso(s, pid)
    PROVE  /\ r \in Seq(S) /\ Len(r) <= Len(s) /\ Tomada(r, s)
           /\ \A k \in 1..Len(r) : r[k].pid # pid
<1> DEFINE Quedan == {i \in DOMAIN s : s[i].pid # pid}
           n == Cardinality(Quedan)
<1>1. PICK f \in [1..n -> Quedan] :
          /\ \A a, b \in DOMAIN f : a < b => f[a] < f[b]
          /\ r = [k \in DOMAIN f |-> s[f[k]]]
  BY DEF eliminar_entradas_proceso
<1>2. Len(s) \in Nat /\ DOMAIN s = 1..Len(s) /\ \A i \in 1..Len(s) : s[i] \in S
  BY LenProperties, ElementOfSeq
<1>3. n \in Nat /\ n <= Len(s)
  <2>1. IsFiniteSet(1..Len(s)) /\ Cardinality(1..Len(s)) = Len(s) BY <1>2, FS_Interval
  <2>2. Quedan \in SUBSET (1..Len(s)) BY <1>2
  <2> HIDE DEF Quedan
  <2>3. IsFiniteSet(Quedan) /\ n <= Len(s) BY <2>1, <2>2, FS_Subset
  <2> QED BY <2>3, FS_CardinalityType
<1>4. DOMAIN f = 1..n BY <1>1
<1>5. \A k \in 1..n : f[k] \in 1..Len(s) /\ s[f[k]].pid # pid BY <1>1, <1>2, <1>4
<1> HIDE DEF Quedan, n
<1>6. r \in [1..n -> S] BY <1>1, <1>2, <1>4, <1>5
<1>7. r \in Seq(S) /\ Len(r) = n /\ DOMAIN r = 1..n BY <1>3, <1>6, FuncionSeq
<1>8. \A a, b \in 1..n : a < b => f[a] < f[b] BY <1>1, <1>4
<1>9. Tomada(r, s)
  <2>1. f \in [DOMAIN r -> DOMAIN s] BY <1>1, <1>2, <1>4, <1>5, <1>7
  <2>2. \A k \in DOMAIN r : r[k] = s[f[k]] BY <1>1, <1>4, <1>7
  <2> QED BY <1>7, <1>8, <2>1, <2>2 DEF Tomada
<1>10. \A k \in 1..Len(r) : r[k].pid # pid BY <1>1, <1>4, <1>5, <1>7
<1> QED BY <1>3, <1>7, <1>9, <1>10

----------------------------------------------------------------------------
(* The cache.                                                               *)
LEMMA PrimerEntradaEs ==
    ASSUME NEW S \in SUBSET Nat, S # {}
    PROVE  PrimerEntrada(S) \in S /\ \A j \in S : PrimerEntrada(S) <= j
<1>1. \E i \in S : \A j \in S : i <= j BY MinimoNat
<1> QED BY <1>1 DEF PrimerEntrada

(* The entry of a page that is in the cache.                                *)
LEMMA PrimeraEs ==
    ASSUME NEW n \in Nat, NEW c \in [0..n - 1 -> Entradas], NEW pid, NEW pagina,
           EnCache(c, pid, pagina)
    PROVE  /\ Primera(c, pid, pagina) \in DOMAIN c /\ c[Primera(c, pid, pagina)].ocupado
           /\ c[Primera(c, pid, pagina)].pid = pid /\ c[Primera(c, pid, pagina)].pagina = pagina
<1>1. Ocupan(c, pid, pagina) \in SUBSET Nat /\ Ocupan(c, pid, pagina) # {}
  BY DEF EnCache, Ocupan
<1>2. Primera(c, pid, pagina) \in Ocupan(c, pid, pagina) BY <1>1, PrimerEntradaEs DEF Primera
<1> QED BY <1>2 DEF Ocupan

LEMMA VueltaDentro ==
    ASSUME NEW n \in Nat, n > 0, NEW E, NEW c \in [0..n - 1 -> E],
           NEW puntero \in Nat, NEW k \in Nat
    PROVE  Tamanio(c) = n /\ Vuelta(c, puntero, k) \in 0..n - 1
<1>1. DOMAIN c = 0..n - 1 OBVIOUS
<1>2. Cardinality(0..n - 1) = n BY FS_Interval
<1>3. puntero + k \in Nat OBVIOUS
<1>4. \A x \in Nat : x % n \in 0..n - 1 OBVIOUS
<1> QED BY <1>1, <1>2, <1>3, <1>4 DEF Tamanio, Vuelta

(* The victim is an entry of the cache, and choosing it clears use bits and *)
(* nothing else.                                                            *)
SoloUsados(c, d) == \A i \in DOMAIN c : d[i] = c[i] \/ d[i] = [c[i] EXCEPT !.usado = FALSE]
EleccionBuena(e, c, n) ==
    /\ e.cache \in [0..n - 1 -> Entradas]
    /\ SoloUsados(c, e.cache)
    /\ e.victima \in 0..n - 1 /\ e.puntero \in 0..n

LEMMA Eligiendo ==
    ASSUME NEW n \in Nat, n > 0, NEW c \in [0..n - 1 -> Entradas],
           NEW d \in [0..n - 1 -> Entradas], SoloUsados(c, d),
           NEW puntero \in Nat, NEW k \in Nat
    PROVE  EleccionBuena(Eleccion(d, Vuelta(c, puntero, k)), c, n)
<1> DEFINE v == Vuelta(c, puntero, k)
<1>1. v \in 0..n - 1 BY VueltaDentro
<1> HIDE DEF v
<1>2. v \in Nat BY <1>1
<1>3. Vuelta(d, v, 1) \in 0..n - 1 BY <1>2, VueltaDentro
<1>4. Eleccion(d, v) = [cache |-> d, victima |-> v, puntero |-> Vuelta(d, v, 1)] BY DEF Eleccion
<1>5. EleccionBuena(Eleccion(d, v), c, n)
  BY <1>1, <1>3, <1>4 DEF EleccionBuena
<1> QED BY <1>5 DEF v

LEMMA TamanioEs ==
    ASSUME NEW n \in Nat, NEW E, NEW c \in [0..n - 1 -> E]
    PROVE  DOMAIN c = 0..n - 1 /\ Tamanio(c) = n
<1>1. DOMAIN c = 0..n - 1 OBVIOUS
<1>2. Cardinality(0..n - 1) = n BY FS_Interval
<1> QED BY <1>1, <1>2 DEF Tamanio

LEMMA ApagarUso ==
    ASSUME NEW e \in Entradas, e.ocupado
    PROVE  [e EXCEPT !.usado = FALSE] \in Entradas
<1>1. e # Libre BY DEF Libre
<1> QED BY <1>1 DEF Entradas

(* The hand reaches every entry in one lap.                                 *)
LEMMA VueltaCompleta ==
    ASSUME NEW n \in Nat, n > 0, NEW E, NEW c \in [0..n - 1 -> E],
           NEW puntero \in 0..n, NEW i \in 0..n - 1
    PROVE  \E k \in 0..n - 1 : Vuelta(c, puntero, k) = i
<1>1. Tamanio(c) = n BY VueltaDentro
<1>2. i % n = i /\ (i + n) % n = i OBVIOUS
<1>3. CASE puntero <= i
  <2>1. i - puntero \in 0..n - 1 /\ puntero + (i - puntero) = i BY <1>3
  <2> QED BY <1>1, <1>2, <2>1 DEF Vuelta
<1>4. CASE puntero > i
  <2>1. i + n - puntero \in 0..n - 1 /\ puntero + (i + n - puntero) = i + n BY <1>4
  <2> QED BY <1>1, <1>2, <2>1 DEF Vuelta
<1> QED BY <1>3, <1>4

(* CLOCK: the victim's use bit is clear, or all were set.                   *)
LEMMA EligeClock ==
    ASSUME NEW n \in Nat, n > 0, NEW c \in [0..n - 1 -> Entradas], NEW puntero \in 0..n,
           \A i \in 0..n - 1 : c[i].ocupado
    PROVE  LET e == seleccionar_victima_clock(c, puntero) IN
           /\ EleccionBuena(e, c, n)
           /\ c[e.victima].usado => \A i \in 0..n - 1 : c[i].usado
<1>0. \A i \in 0..n - 1 : \E k \in 0..n - 1 : Vuelta(c, puntero, k) = i BY VueltaCompleta
<1> DEFINE SinUso(e) == ~e.usado
           m == Pasadas(c, puntero, SinUso)
           Pasada(i) == \E k \in 0..m - 1 : i = Vuelta(c, puntero, k)
           d == [i \in DOMAIN c |-> IF Pasada(i) THEN [c[i] EXCEPT !.usado = FALSE] ELSE c[i]]
           Cerca == {k \in DOMAIN c : SinUso(c[Vuelta(c, puntero, k)])}
<1>1. DOMAIN c = 0..n - 1 /\ Tamanio(c) = n /\ puntero \in Nat
  <2>1. Tamanio(c) = n BY TamanioEs
  <2> QED BY <2>1
<1>2. Cerca \in SUBSET Nat BY <1>1
<1>3. m = IF Cerca = {} THEN n ELSE PrimerEntrada(Cerca) BY <1>1 DEF Pasadas
<1>4. seleccionar_victima_clock(c, puntero) = Eleccion(d, Vuelta(c, puntero, m))
  BY DEF seleccionar_victima_clock
<1>5. m \in Nat /\ (Cerca # {} => m \in Cerca)
  <2> HIDE DEF Cerca, m
  <2> QED BY <1>2, <1>3, PrimerEntradaEs
<1>6. d \in [0..n - 1 -> Entradas] /\ SoloUsados(c, d)
  <2>1. \A x \in Entradas : x.ocupado => [x EXCEPT !.usado = FALSE] \in Entradas BY ApagarUso
  <2> HIDE DEF Pasada
  <2>2. d \in [0..n - 1 -> Entradas] BY <1>1, <2>1
  <2>3. SoloUsados(c, d) BY <1>1 DEF SoloUsados
  <2> QED BY <2>2, <2>3
<1>7. (Cerca = {}) => \A i \in 0..n - 1 : c[i].usado
  <2> SUFFICES ASSUME Cerca = {}, NEW i \in 0..n - 1 PROVE c[i].usado OBVIOUS
  <2>1. PICK k \in 0..n - 1 : Vuelta(c, puntero, k) = i BY <1>0
  <2>2. k \notin Cerca OBVIOUS
  <2> QED BY <1>1, <2>1, <2>2
<1>8. Cerca # {} => ~c[Vuelta(c, puntero, m)].usado
  <2>1. \A k \in Cerca : ~c[Vuelta(c, puntero, k)].usado OBVIOUS
  <2> HIDE DEF Cerca, m
  <2> QED BY <1>5, <2>1
<1>9. Eleccion(d, Vuelta(c, puntero, m)).victima = Vuelta(c, puntero, m) BY DEF Eleccion
<1> HIDE DEF m, d, Cerca
<1>10. EleccionBuena(Eleccion(d, Vuelta(c, puntero, m)), c, n) BY <1>1, <1>5, <1>6, Eligiendo
<1> QED BY <1>4, <1>7, <1>8, <1>9, <1>10

(* CLOCK-M: the victim is not modified, or all are.                          *)
LEMMA EligeClockM ==
    ASSUME NEW n \in Nat, n > 0, NEW c \in [0..n - 1 -> Entradas], NEW puntero \in 0..n,
           \A i \in 0..n - 1 : c[i].ocupado
    PROVE  LET e == seleccionar_victima_clock_m(c, puntero) IN
           /\ EleccionBuena(e, c, n)
           /\ c[e.victima].modificado => \A i \in 0..n - 1 : c[i].modificado
<1>0. \A i \in 0..n - 1 : \E k \in 0..n - 1 : Vuelta(c, puntero, k) = i BY VueltaCompleta
<1> DEFINE SinUsoLimpia(e) == ~e.usado /\ ~e.modificado
           Limpia(e) == ~e.modificado
           m == Pasadas(c, puntero, SinUsoLimpia)
           l == Pasadas(c, puntero, Limpia)
           d == [i \in DOMAIN c |-> [c[i] EXCEPT !.usado = FALSE]]
           CercaM == {k \in DOMAIN c : SinUsoLimpia(c[Vuelta(c, puntero, k)])}
           CercaL == {k \in DOMAIN c : Limpia(c[Vuelta(c, puntero, k)])}
           e == seleccionar_victima_clock_m(c, puntero)
<1>1. DOMAIN c = 0..n - 1 /\ Tamanio(c) = n /\ puntero \in Nat
  <2>1. Tamanio(c) = n BY TamanioEs
  <2> QED BY <2>1
<1>2. CercaM \in SUBSET Nat /\ CercaL \in SUBSET Nat BY <1>1
<1>3. m = IF CercaM = {} THEN n ELSE PrimerEntrada(CercaM) BY <1>1 DEF Pasadas
<1>4. l = IF CercaL = {} THEN n ELSE PrimerEntrada(CercaL) BY <1>1 DEF Pasadas
<1>5. e = IF m < n THEN Eleccion(c, Vuelta(c, puntero, m)) ELSE Eleccion(d, Vuelta(c, puntero, l))
  BY <1>1 DEF seleccionar_victima_clock_m
<1>6. /\ m \in Nat /\ (CercaM # {} => m \in CercaM)
      /\ l \in Nat /\ (CercaL # {} => l \in CercaL)
  <2> HIDE DEF CercaM, CercaL, m, l
  <2> QED BY <1>2, <1>3, <1>4, PrimerEntradaEs
<1>7. d \in [0..n - 1 -> Entradas] /\ SoloUsados(c, d) /\ SoloUsados(c, c)
  <2>1. \A x \in Entradas : x.ocupado => [x EXCEPT !.usado = FALSE] \in Entradas BY ApagarUso
  <2> QED BY <1>1, <2>1 DEF SoloUsados
<1>8. (CercaL = {}) => \A i \in 0..n - 1 : c[i].modificado
  <2> SUFFICES ASSUME CercaL = {}, NEW i \in 0..n - 1 PROVE c[i].modificado OBVIOUS
  <2>1. PICK k \in 0..n - 1 : Vuelta(c, puntero, k) = i BY <1>0
  <2>2. k \notin CercaL OBVIOUS
  <2> QED BY <1>1, <2>1, <2>2
<1>9. /\ \A k \in CercaM : ~c[Vuelta(c, puntero, k)].modificado
      /\ \A k \in CercaL : ~c[Vuelta(c, puntero, k)].modificado
  OBVIOUS
<1>10. \A x, v : Eleccion(x, v).victima = v BY DEF Eleccion
<1> HIDE DEF m, l, d, CercaM, CercaL, e
<1>11. CASE m < n
  <2>1. e = Eleccion(c, Vuelta(c, puntero, m)) BY <1>5, <1>11
  <2>2. CercaM # {} BY <1>3, <1>11
  <2>3. ~c[e.victima].modificado BY <1>6, <1>9, <1>10, <2>1, <2>2
  <2>4. EleccionBuena(e, c, n) BY <1>1, <1>6, <1>7, <2>1, Eligiendo
  <2> QED BY <2>3, <2>4 DEF e
<1>12. CASE ~(m < n)
  <2>1. e = Eleccion(d, Vuelta(c, puntero, l)) BY <1>5, <1>12
  <2>2. CercaL # {} => ~c[e.victima].modificado BY <1>6, <1>9, <1>10, <2>1
  <2>3. EleccionBuena(e, c, n) BY <1>1, <1>6, <1>7, <2>1, Eligiendo
  <2> QED BY <1>8, <2>2, <2>3 DEF e
<1> QED BY <1>11, <1>12

(* The entry that a page is loaded into.                                     *)
LEMMA EligeEntrada ==
    ASSUME NEW n \in Nat, n > 0, NEW c \in [0..n - 1 -> Entradas], NEW puntero \in 0..n, NEW alg
    PROVE  LET e == elegir_entrada(c, puntero, alg) IN
           /\ EleccionBuena(e, c, n)
           /\ alg # "CLOCK-M" /\ c[e.victima].ocupado /\ c[e.victima].usado
                 => \A i \in 0..n - 1 : c[i].usado
           /\ alg = "CLOCK-M" /\ c[e.victima].modificado => \A i \in 0..n - 1 : c[i].modificado
<1> DEFINE e == elegir_entrada(c, puntero, alg)
<1>1. CASE Libres(c) # {}
  <2>1. Libres(c) \in SUBSET Nat BY DEF Libres
  <2>2. PrimerEntrada(Libres(c)) \in Libres(c) BY <1>1, <2>1, PrimerEntradaEs
  <2>3. e = [cache |-> c, victima |-> PrimerEntrada(Libres(c)), puntero |-> puntero]
    BY <1>1 DEF elegir_entrada
  <2>4. e.cache = c /\ e.victima \in 0..n - 1 /\ ~c[e.victima].ocupado /\ e.puntero = puntero
    BY <2>2, <2>3 DEF Libres
  <2>5. c[e.victima] = Libre BY <2>4 DEF Entradas
  <2>6. ~c[e.victima].modificado BY <2>5 DEF Libre
  <2>7. EleccionBuena(e, c, n)
    <3> HIDE DEF e
    <3> QED BY <2>4 DEF EleccionBuena, SoloUsados
  <2> QED BY <2>4, <2>6, <2>7
<1>0. Libres(c) = {} => \A i \in 0..n - 1 : c[i].ocupado BY DEF Libres
<1>2. CASE Libres(c) = {} /\ alg = "CLOCK-M"
  BY <1>0, <1>2, EligeClockM DEF elegir_entrada
<1>3. CASE Libres(c) = {} /\ alg # "CLOCK-M"
  BY <1>0, <1>3, EligeClock DEF elegir_entrada
<1> QED BY <1>1, <1>2, <1>3

----------------------------------------------------------------------------
(* The inductive invariant.                                                 *)
\* The levels of the table are enough to tell the pages apart.
EntradasDistintas == \A p, q \in Paginas : EntradasDe(p) = EntradasDe(q) => p = q

TlbBien ==
    /\ tlb \in Seq(EntradasTlb(Pids, Paginas, Marcos \ {NULL}, Instantes))
    /\ Len(tlb) <= config.entradas_tlb
    /\ Unicas(tlb)
    /\ \A k \in 1..Len(tlb) : /\ tlb[k].marco = MarcoDe[<<tlb[k].pid, tlb[k].pagina>>]
                             /\ tlb[k].pid \notin terminados

SinRepetir(c) ==
    \A i, j \in DOMAIN c : c[i].ocupado /\ c[j].ocupado /\ MismaPagina(c[i], c[j]) => i = j
CacheBuena(c, n, fin) ==
    /\ c \in [0..n - 1 -> Entradas]
    /\ SinRepetir(c)
    /\ \A i \in 0..n - 1 : c[i].ocupado =>
          c[i].marco = MarcoDe[<<c[i].pid, c[i].pagina>>] /\ c[i].pid \notin fin
CacheBien == CacheBuena(cache, config.entradas_cache, terminados)

\* What an access knows in each phase: the page it waits for is not in the cache,
\* the frame it has is the page's, and the victim it writes back is a modified page.
AccesoBien ==
    /\ acceso \in Accesos
    /\ acceso.fase # "sin_pcb" => Pid \in Pids \ terminados
    /\ EnMarcha => Pagina \in Paginas
    /\ acceso.fase \in {"tlb", "tabla", "pagina", "desalojo"} => ~EnCache(cache, Pid, Pagina)
    /\ acceso.fase \in {"pagina", "desalojo", "acceso"} =>
          acceso.marco \in Marcos \ {NULL} /\ acceso.marco = MarcoDe[EnCurso]
    /\ acceso.fase \in {"pagina", "desalojo"} => config.entradas_cache > 0
    /\ acceso.fase = "desalojo" => /\ acceso.victima \in DOMAIN cache
                                  /\ cache[acceso.victima].ocupado
                                  /\ cache[acceso.victima].modificado

RestoBien ==
    /\ config \in Configuraciones
    /\ contador_orden \in 0..INT_MAX /\ recientes \subseteq Direcciones
    /\ puntero_clock \in 0..config.entradas_cache
    /\ reloj \in Instantes
    /\ pcb_en_ejecucion \in Pids \cup {0}
    /\ memoria_fisica \in [Marcos -> Valores]
    /\ terminados \subseteq Pids
    /\ escrito \in [Direcciones -> Valores]
    /\ perdidas \subseteq Direcciones

IInv == TlbBien /\ CacheBien /\ AccesoBien /\ RestoBien

LEMMA Configurado ==
    ASSUME RestoBien
    PROVE  config.entradas_tlb \in Nat /\ config.entradas_cache \in Nat
BY SupuestoConfiguracion DEF RestoBien

LEMMA InvariantesDeIInv ==
    ASSUME IInv
    PROVE  TypeOK /\ SinDuplicados /\ TraduccionFiel /\ SinRastros
<1>1. DOMAIN tlb = 1..Len(tlb) BY LenProperties DEF IInv, TlbBien
<1>2. TypeOK BY DEF IInv, TlbBien, CacheBien, CacheBuena, AccesoBien, RestoBien, TypeOK
<1>3. SinDuplicados
  BY <1>1 DEF IInv, TlbBien, CacheBien, CacheBuena, SinRepetir, SinDuplicados, Unicas, MismaPagina
<1>4. TraduccionFiel BY <1>1 DEF IInv, TlbBien, CacheBien, CacheBuena, AccesoBien, TraduccionFiel
<1>5. SinRastros
  <2>1. \A i \in DOMAIN tlb : tlb[i].pid \notin terminados BY <1>1 DEF IInv, TlbBien
  <2>2. ASSUME NEW i \in DOMAIN cache PROVE cache[i].pid \notin terminados
    <3>1. CASE cache[i].ocupado BY <3>1 DEF IInv, CacheBien, CacheBuena
    <3>2. CASE ~cache[i].ocupado
      <4>1. cache[i] \in Entradas BY DEF IInv, CacheBien, CacheBuena
      <4>0. cache[i] = Libre BY <3>2, <4>1 DEF Entradas
      <4>2. cache[i].pid = -1 BY <4>0 DEF Libre
      <4>3. -1 \notin terminados BY SupuestoMemoria DEF IInv, RestoBien
      <4> QED BY <4>2, <4>3
    <3> QED BY <3>1, <3>2
  <2> QED BY <2>1, <2>2 DEF SinRastros
<1> QED BY <1>2, <1>3, <1>4, <1>5

LEMMA ReposoBien == Reposo \in Accesos /\ [Reposo EXCEPT !.fase = "sin_pcb"] \in Accesos
BY SupuestoMemoria DEF Reposo, Accesos, Fases, NULL

LEMMA AlEmpezar == Init => IInv
<1> SUFFICES ASSUME Init PROVE IInv OBVIOUS
<1>1. RestoBien
  <2>1. 0 \in 0..INT_MAX /\ 0 \in Instantes BY SupuestoInt, SupuestoConfiguracion DEF Instantes
  <2>2. config.entradas_cache \in Nat BY SupuestoConfiguracion DEF Init
  <2> QED BY <2>1, <2>2, SupuestoMemoria DEF Init, RestoBien
<1>2. TlbBien
  <2>1. <<>> \in Seq(EntradasTlb(Pids, Paginas, Marcos \ {NULL}, Instantes)) /\ Len(<<>>) = 0
    BY EmptySeq
  <2>2. tlb = <<>> BY DEF Init
  <2> QED BY <1>1, <2>1, <2>2, Configurado DEF TlbBien, Unicas
<1>3. CacheBien
  <2>1. cache = [i \in 0..config.entradas_cache - 1 |-> Libre] BY DEF Init, inicializar_cache
  <2>2. ~Libre.ocupado /\ Libre \in Entradas BY DEF Libre, Entradas
  <2> QED BY <2>1, <2>2 DEF CacheBien, CacheBuena, SinRepetir
<1>4. AccesoBien
  <2>1. acceso = [Reposo EXCEPT !.fase = "sin_pcb"] BY DEF Init
  <2>2. acceso \in Accesos /\ acceso.fase = "sin_pcb" BY <2>1, ReposoBien DEF Reposo
  <2> QED BY <2>2 DEF AccesoBien, EnMarcha
<1> QED BY <1>1, <1>2, <1>3, <1>4 DEF IInv

----------------------------------------------------------------------------
(* What the accesses do to the tables.                                      *)
MismaCopia(e, x) == e.ocupado = x.ocupado /\ MismaTraduccion(e, x)

LEMMA RetocaCache ==
    ASSUME NEW n \in Nat, NEW fin, NEW c, CacheBuena(c, n, fin), NEW d \in [0..n - 1 -> Entradas],
           \A i \in 0..n - 1 : MismaCopia(d[i], c[i])
    PROVE  /\ CacheBuena(d, n, fin)
           /\ \A p, q : EnCache(d, p, q) <=> EnCache(c, p, q)
<1>1. DOMAIN c = 0..n - 1 /\ DOMAIN d = 0..n - 1 BY DEF CacheBuena
<1>2. SinRepetir(d)
  BY <1>1 DEF CacheBuena, SinRepetir, MismaCopia, MismaTraduccion, MismaPagina
<1>3. \A i \in 0..n - 1 : d[i].ocupado =>
          d[i].marco = MarcoDe[<<d[i].pid, d[i].pagina>>] /\ d[i].pid \notin fin
  BY DEF CacheBuena, MismaCopia, MismaTraduccion, MismaPagina
<1>4. ASSUME NEW p, NEW q PROVE Ocupan(d, p, q) = Ocupan(c, p, q)
  BY <1>1 DEF Ocupan, MismaCopia, MismaTraduccion, MismaPagina
<1> QED BY <1>2, <1>3, <1>4 DEF CacheBuena, EnCache

LEMMA CargaCache ==
    ASSUME NEW n \in Nat, NEW fin, NEW c, CacheBuena(c, n, fin), NEW v \in 0..n - 1,
           NEW pid \in Pids, pid \notin fin, NEW pagina \in Paginas, NEW marco \in Marcos \ {NULL},
           marco = MarcoDe[<<pid, pagina>>], NEW contenido \in Valores, ~EnCache(c, pid, pagina)
    PROVE  CacheBuena([c EXCEPT ![v] = Nueva(pid, pagina, marco, contenido)], n, fin)
<1> DEFINE e == Nueva(pid, pagina, marco, contenido)
           d == [c EXCEPT ![v] = e]
<1>1. /\ e \in Entradas /\ e.ocupado /\ e.pid = pid /\ e.pagina = pagina /\ e.marco = marco
  BY DEF Nueva, Entradas
<1>2. DOMAIN c = 0..n - 1 /\ c \in [0..n - 1 -> Entradas] BY DEF CacheBuena
<1>3. \A i \in 0..n - 1 : c[i].ocupado => ~(c[i].pid = pid /\ c[i].pagina = pagina)
  BY <1>2 DEF EnCache, Ocupan
<1> HIDE DEF e
<1>4. /\ d \in [0..n - 1 -> Entradas] /\ DOMAIN d = 0..n - 1
      /\ d[v] = e /\ \A i \in 0..n - 1 : i # v => d[i] = c[i]
  BY <1>1, <1>2
<1> HIDE DEF d
<1>5. SinRepetir(d)
  <2> SUFFICES ASSUME NEW i \in 0..n - 1, NEW j \in 0..n - 1, d[i].ocupado, d[j].ocupado,
                      MismaPagina(d[i], d[j])
               PROVE  i = j
    BY <1>4 DEF SinRepetir
  <2>1. CASE i = v BY <2>1, <1>1, <1>3, <1>4 DEF MismaPagina
  <2>2. CASE j = v BY <2>2, <1>1, <1>3, <1>4 DEF MismaPagina
  <2>3. CASE i # v /\ j # v BY <2>3, <1>2, <1>4 DEF CacheBuena, SinRepetir
  <2> QED BY <2>1, <2>2, <2>3
<1>6. \A i \in 0..n - 1 : d[i].ocupado =>
          d[i].marco = MarcoDe[<<d[i].pid, d[i].pagina>>] /\ d[i].pid \notin fin
  BY <1>1, <1>4 DEF CacheBuena
<1> QED BY <1>4, <1>5, <1>6 DEF CacheBuena, d, e

LEMMA RecordadoTipo ==
    ASSUME NEW f \in [Direcciones -> Valores], NEW X
    PROVE  Recordado(f, X) \in [Direcciones -> Valores]
BY SupuestoMemoria DEF Recordado

(* escribir_en_cache and leer_de_cache keep whose each entry is.             *)
LEMMA UsaEntrada ==
    ASSUME IInv, NEW pedida, pedida.pagina \in Paginas, pedida.valor \in Valores, Pid \in Pids,
           EnCache(cache, Pid, pedida.pagina), UsarEntrada(pedida)
    PROVE  /\ CacheBuena(cache', config.entradas_cache, terminados)
           /\ \A p, q : EnCache(cache', p, q) <=> EnCache(cache, p, q)
           /\ escrito' \in [Direcciones -> Valores]
<1> DEFINE n == config.entradas_cache
           i == Primera(cache, Pid, pedida.pagina)
<1>1. n \in Nat /\ cache \in [0..n - 1 -> Entradas] /\ CacheBuena(cache, n, terminados)
  BY Configurado DEF IInv, CacheBien, CacheBuena
<1>2. i \in 0..n - 1 /\ cache[i].ocupado BY <1>1, PrimeraEs
<1> HIDE DEF n, i
<1>3. cache[i] # Libre /\ cache[i] \in Entradas BY <1>1, <1>2 DEF Libre
<1>4. /\ Usar(cache, i) \in [0..n - 1 -> Entradas]
      /\ \A j \in 0..n - 1 : MismaCopia(Usar(cache, i)[j], cache[j])
  <2>1. /\ [cache[i] EXCEPT !.usado = TRUE] \in Entradas
        /\ MismaCopia([cache[i] EXCEPT !.usado = TRUE], cache[i])
    BY <1>3 DEF Entradas, MismaCopia, MismaTraduccion, MismaPagina
  <2>2. Usar(cache, i) = [cache EXCEPT ![i] = [cache[i] EXCEPT !.usado = TRUE]] BY DEF Usar
  <2>3. \A e : MismaCopia(e, e) BY DEF MismaCopia, MismaTraduccion, MismaPagina
  <2> QED BY <1>1, <1>2, <2>1, <2>2, <2>3
<1>5. ASSUME NEW v \in Valores
      PROVE  /\ Escribir(cache, i, v) \in [0..n - 1 -> Entradas]
             /\ \A j \in 0..n - 1 : MismaCopia(Escribir(cache, i, v)[j], cache[j])
  <2> DEFINE e == [cache[i] EXCEPT !.contenido = v, !.modificado = TRUE, !.usado = TRUE]
  <2>1. e \in Entradas /\ MismaCopia(e, cache[i])
    BY <1>3 DEF Entradas, MismaCopia, MismaTraduccion, MismaPagina
  <2>2. Escribir(cache, i, v) = [cache EXCEPT ![i] = e] BY <1>1, <1>2 DEF Escribir
  <2>3. \A x : MismaCopia(x, x) BY DEF MismaCopia, MismaTraduccion, MismaPagina
  <2> HIDE DEF e
  <2> QED BY <1>1, <1>2, <2>1, <2>2, <2>3
<1>6. CASE pedida.tipo = "WRITE"
  <2>1. /\ cache' = Escribir(cache, i, pedida.valor)
        /\ escrito' = Recordado([escrito EXCEPT ![<<Pid, pedida.pagina>>] = pedida.valor], perdidas)
    BY <1>6 DEF UsarEntrada, i
  <2>2. [escrito EXCEPT ![<<Pid, pedida.pagina>>] = pedida.valor] \in [Direcciones -> Valores]
    BY DEF IInv, RestoBien
  <2>3. escrito' \in [Direcciones -> Valores] BY <2>1, <2>2, RecordadoTipo
  <2>4. cache' \in [0..n - 1 -> Entradas] /\ \A j \in 0..n - 1 : MismaCopia(cache'[j], cache[j])
    BY <1>5, <2>1
  <2>5. CacheBuena(cache', n, terminados) /\ \A p, q : EnCache(cache', p, q) <=> EnCache(cache, p, q)
    BY <1>1, <2>4, RetocaCache
  <2> QED BY <2>3, <2>5 DEF n
<1>7. CASE pedida.tipo # "WRITE"
  <2>1. cache' = Usar(cache, i) /\ escrito' = escrito BY <1>7 DEF UsarEntrada, i
  <2>2. CacheBuena(cache', n, terminados) /\ \A p, q : EnCache(cache', p, q) <=> EnCache(cache, p, q)
    BY <1>1, <1>4, <2>1, RetocaCache
  <2> QED BY <2>1, <2>2 DEF n, IInv, RestoBien
<1> QED BY <1>6, <1>7

----------------------------------------------------------------------------
(* Every step keeps IInv.                                                    *)
LEMMA PasoRecibirPcb == ASSUME IInv, RecibirPcb PROVE IInv'
<1>1. AccesoBien'
  <2>1. Reposo \in Accesos /\ Reposo.fase = "libre" BY ReposoBien DEF Reposo
  <2>2. acceso' = Reposo /\ Pid' \in Pids \ terminados'
    BY DEF RecibirPcb, historia, Pid
  <2> QED BY <2>1, <2>2 DEF AccesoBien, EnMarcha
<1>2. TlbBien' BY DEF RecibirPcb, IInv, TlbBien, tablas, historia
<1>3. CacheBien' BY DEF RecibirPcb, IInv, CacheBien, tablas, historia
<1>4. RestoBien' BY DEF RecibirPcb, IInv, RestoBien, tablas, historia
<1> QED BY <1>1, <1>2, <1>3, <1>4 DEF IInv

LEMMA PasoDevolverPcb == ASSUME IInv, DevolverPcb PROVE IInv'
<1>1. AccesoBien'
  <2>1. acceso' = [Reposo EXCEPT !.fase = "sin_pcb"] BY DEF DevolverPcb
  <2>2. acceso' \in Accesos /\ acceso'.fase = "sin_pcb" BY <2>1, ReposoBien DEF Reposo
  <2> QED BY <2>2 DEF AccesoBien, EnMarcha
<1>2. TlbBien' BY DEF DevolverPcb, IInv, TlbBien, tablas, historia
<1>3. CacheBien' BY DEF DevolverPcb, IInv, CacheBien, tablas, historia
<1>4. RestoBien' BY DEF DevolverPcb, IInv, RestoBien, tablas, historia
<1> QED BY <1>1, <1>2, <1>3, <1>4 DEF IInv

LEMMA PasoFinDeProceso == ASSUME IInv, FinDeProceso PROVE IInv'
<1>1. acceso' \in Accesos /\ acceso'.fase = "sin_pcb"
  BY ReposoBien DEF FinDeProceso, Reposo
<1>2. AccesoBien' BY <1>1 DEF AccesoBien, EnMarcha
<1>3. Pid \in Pids /\ Pid \in Nat /\ terminados' = terminados \cup {Pid} /\ config' = config
  BY SupuestoMemoria DEF FinDeProceso, IInv, AccesoBien
<1>4. TlbBien'
  <2> DEFINE E == EntradasTlb(Pids, Paginas, Marcos \ {NULL}, Instantes)
  <2>1. tlb' \in eliminar_entradas_proceso(tlb, Pid) BY DEF FinDeProceso
  <2>2. tlb \in Seq(E) BY DEF IInv, TlbBien
  <2> HIDE DEF E
  <2>3. /\ tlb' \in Seq(E) /\ Len(tlb') <= Len(tlb) /\ Tomada(tlb', tlb)
        /\ \A k \in 1..Len(tlb') : tlb'[k].pid # Pid
    BY <2>1, <2>2, EliminaEntradas
  <2>4. /\ Unicas(tlb) => Unicas(tlb')
        /\ \A k \in 1..Len(tlb') : \E i \in 1..Len(tlb) : tlb'[k] = tlb[i]
    BY <2>2, <2>3, Tomadas
  <2>5. Len(tlb) \in Nat /\ Len(tlb') \in Nat /\ config.entradas_tlb \in Nat
    BY <2>2, <2>3, LenProperties, Configurado DEF IInv
  <2>6. Unicas(tlb') /\ Len(tlb') <= config.entradas_tlb
    BY <2>3, <2>4, <2>5 DEF IInv, TlbBien
  <2>7. \A k \in 1..Len(tlb') : /\ tlb'[k].marco = MarcoDe[<<tlb'[k].pid, tlb'[k].pagina>>]
                               /\ tlb'[k].pid \notin terminados'
    BY <1>3, <2>3, <2>4 DEF IInv, TlbBien
  <2> QED BY <1>3, <2>3, <2>6, <2>7 DEF TlbBien, E
<1>5. CacheBien'
  <2> DEFINE n == config.entradas_cache
  <2>1. cache \in [0..n - 1 -> Entradas] /\ CacheBuena(cache, n, terminados)
    BY DEF IInv, CacheBien, CacheBuena
  <2> HIDE DEF n
  <2>2. cache' = [i \in DOMAIN cache |-> IF cache[i].ocupado /\ cache[i].pid = Pid THEN Libre ELSE cache[i]]
    BY DEF FinDeProceso, Desalojar
  <2>3. Libre \in Entradas /\ ~Libre.ocupado BY DEF Entradas, Libre
  <2>4. /\ cache' \in [0..n - 1 -> Entradas] /\ DOMAIN cache' = 0..n - 1
        /\ \A i \in 0..n - 1 : cache'[i].ocupado => cache'[i] = cache[i] /\ cache[i].pid # Pid
    BY <2>1, <2>2, <2>3
  <2>5. CacheBuena(cache', n, terminados')
    BY <1>3, <2>1, <2>4 DEF CacheBuena, SinRepetir
  <2> QED BY <1>3, <2>5 DEF CacheBien, n
<1>6. RestoBien'
  <2>1. perdidas' \subseteq Direcciones
    <3>1. \A j \in DOMAIN cache : cache[j].modificado => cache[j].pagina \in Paginas
      <4>1. \A e \in Entradas : e.modificado => e.pagina \in Paginas
        <5>1. ~Libre.modificado BY DEF Libre
        <5> QED BY <5>1 DEF Entradas
      <4>2. \A j \in DOMAIN cache : cache[j] \in Entradas BY DEF IInv, CacheBien, CacheBuena
      <4> QED BY <4>1, <4>2
    <3> QED BY <1>3, <3>1 DEF FinDeProceso, IInv, RestoBien, Direcciones
  <2>2. escrito' \in [Direcciones -> Valores]
    BY RecordadoTipo DEF FinDeProceso, IInv, RestoBien
  <2> QED BY <1>3, <2>1, <2>2 DEF FinDeProceso, IInv, RestoBien
<1> QED BY <1>2, <1>4, <1>5, <1>6 DEF IInv

LEMMA PasoTic == ASSUME IInv, Tic PROVE IInv'
<1>1. AccesoBien' BY DEF Tic, IInv, AccesoBien, tablas, historia, EnMarcha, EnCurso, Pid, Pagina
<1>2. TlbBien' BY DEF Tic, IInv, TlbBien, tablas, historia
<1>3. CacheBien' BY DEF Tic, IInv, CacheBien, tablas, historia
<1>4. RestoBien'
  <2>1. reloj' \in Instantes BY SupuestoConfiguracion DEF Tic, IInv, RestoBien, Instantes
  <2> QED BY <2>1 DEF Tic, IInv, RestoBien, tablas, historia
<1> QED BY <1>1, <1>2, <1>3, <1>4 DEF IInv

LEMMA InstruccionBien ==
    ASSUME NEW pedida \in Instrucciones
    PROVE  /\ pedida \in Accesos /\ pedida.pagina \in Paginas /\ pedida.valor \in Valores
           /\ pedida.tipo \in {"READ", "WRITE"} /\ pedida.fase = "libre"
<1>1. ASSUME NEW tipo \in {"READ", "WRITE"}, NEW q \in Paginas, NEW c \in BOOLEAN, NEW v \in Valores
      PROVE  LET r == Instruccion(tipo, q, c, v) IN
             /\ r \in Accesos /\ r.pagina = q /\ r.valor = v /\ r.tipo = tipo /\ r.fase = "libre"
  BY SupuestoMemoria DEF Instruccion, Reposo, Accesos, Fases, NULL
<1> QED BY <1>1, SupuestoMemoria DEF Instrucciones

LEMMA LaEntrada ==
    ASSUME IInv, NEW pagina, EnCache(cache, Pid, pagina)
    PROVE  LET i == Primera(cache, Pid, pagina) IN
           /\ i \in 0..config.entradas_cache - 1
           /\ cache[i].ocupado /\ cache[i].pid = Pid /\ cache[i].pagina = pagina
<1> DEFINE n == config.entradas_cache
<1>1. n \in Nat /\ cache \in [0..n - 1 -> Entradas]
  BY Configurado DEF IInv, CacheBien, CacheBuena
<1>2. DOMAIN cache = 0..n - 1 BY <1>1
<1> HIDE DEF n
<1>0. \A p, q : EnCache(cache, p, q) =>
          /\ Primera(cache, p, q) \in DOMAIN cache /\ cache[Primera(cache, p, q)].ocupado
          /\ cache[Primera(cache, p, q)].pid = p /\ cache[Primera(cache, p, q)].pagina = q
  BY <1>1, PrimeraEs
<1>3. /\ Primera(cache, Pid, pagina) \in DOMAIN cache /\ cache[Primera(cache, Pid, pagina)].ocupado
      /\ cache[Primera(cache, Pid, pagina)].pid = Pid
      /\ cache[Primera(cache, Pid, pagina)].pagina = pagina
  BY <1>0
<1> QED BY <1>2, <1>3 DEF n

LEMMA PasoEjecutar == ASSUME IInv, Ejecutar PROVE IInv'
<1>1. PICK pedida \in Instrucciones :
          AccesoEnCache(pedida) \/ AccesoFueraDeLimites(pedida) \/ AccesoSinCache(pedida)
  BY DEF Ejecutar
<1>2. /\ pedida \in Accesos /\ pedida.pagina \in Paginas /\ pedida.valor \in Valores
      /\ pedida.fase = "libre"
  BY InstruccionBien
<1>3. acceso.fase = "libre" /\ Pid \in Pids \ terminados
  BY DEF Ejecutar, IInv, AccesoBien
<1>4. /\ config' = config /\ reloj' = reloj /\ pcb_en_ejecucion' = pcb_en_ejecucion
      /\ memoria_fisica' = memoria_fisica /\ terminados' = terminados
  BY DEF Ejecutar
<1>5. CASE AccesoEnCache(pedida)
  <2>1. CacheBuena(cache', config.entradas_cache, terminados) /\ escrito' \in [Direcciones -> Valores]
    BY <1>2, <1>3, <1>5, UsaEntrada DEF AccesoEnCache
  <2>2. CacheBien' BY <1>4, <2>1 DEF CacheBien
  <2>3. AccesoBien' BY <1>3, <1>4, <1>5 DEF AccesoEnCache, IInv, AccesoBien, Pid, Pagina, EnMarcha
  <2>4. TlbBien' BY <1>4, <1>5 DEF AccesoEnCache, IInv, TlbBien
  <2>5. RestoBien' BY <1>4, <1>5, <2>1 DEF AccesoEnCache, IInv, RestoBien
  <2> QED BY <2>2, <2>3, <2>4, <2>5 DEF IInv
<1>6. CASE AccesoFueraDeLimites(pedida)
  <2> DEFINE n == config.entradas_cache
             i == Primera(cache, Pid, pedida.pagina)
  <2>1. /\ EnCache(cache, Pid, pedida.pagina) /\ cache' = Usar(cache, i)
        /\ acceso' = [pedida EXCEPT !.fase = "acceso", !.marco = cache[i].marco]
        /\ tlb' = tlb /\ contador_orden' = contador_orden /\ puntero_clock' = puntero_clock
        /\ recientes' = recientes
        /\ escrito' = escrito /\ perdidas' = perdidas
    BY <1>6 DEF AccesoFueraDeLimites
  <2>2. n \in Nat /\ cache \in [0..n - 1 -> Entradas] /\ CacheBuena(cache, n, terminados)
    BY Configurado DEF IInv, CacheBien, CacheBuena
  <2>3. i \in 0..n - 1 /\ cache[i].ocupado /\ cache[i].pid = Pid /\ cache[i].pagina = pedida.pagina
    BY <2>1, <2>2, LaEntrada
  <2> HIDE DEF n, i
  <2>4. cache[i] # Libre /\ cache[i] \in Entradas BY <2>2, <2>3 DEF Libre
  <2>5. cache[i].marco \in Marcos \ {NULL} /\ cache[i].marco = MarcoDe[<<Pid, pedida.pagina>>]
    BY <2>2, <2>3, <2>4 DEF CacheBuena, Entradas
  <2>6. CacheBuena(cache', n, terminados)
    <3>1. /\ [cache[i] EXCEPT !.usado = TRUE] \in Entradas
          /\ MismaCopia([cache[i] EXCEPT !.usado = TRUE], cache[i])
      BY <2>4 DEF Entradas, MismaCopia, MismaTraduccion, MismaPagina
    <3>2. cache' = [cache EXCEPT ![i] = [cache[i] EXCEPT !.usado = TRUE]] BY <2>1 DEF Usar
    <3>3. \A e : MismaCopia(e, e) BY DEF MismaCopia, MismaTraduccion, MismaPagina
    <3>4. cache' \in [0..n - 1 -> Entradas] /\ \A j \in 0..n - 1 : MismaCopia(cache'[j], cache[j])
      BY <2>2, <2>3, <3>1, <3>2, <3>3
    <3> QED BY <2>2, <3>4, RetocaCache
  <2>7. AccesoBien'
    <3>1. /\ acceso' \in Accesos /\ acceso'.fase = "acceso" /\ acceso'.pagina = pedida.pagina
          /\ acceso'.marco = cache[i].marco
      BY <1>2, <2>1, <2>5 DEF Accesos, Fases
    <3> QED BY <1>2, <1>3, <1>4, <2>5, <3>1 DEF AccesoBien, Pid, Pagina, EnCurso, EnMarcha
  <2>8. CacheBien' BY <1>4, <2>6 DEF CacheBien, n
  <2>9. TlbBien' BY <1>4, <2>1 DEF IInv, TlbBien
  <2>10. RestoBien' BY <1>4, <2>1 DEF IInv, RestoBien
  <2> QED BY <2>7, <2>8, <2>9, <2>10 DEF IInv
<1>7. CASE AccesoSinCache(pedida)
  <2>1. /\ ~EnCache(cache, Pid, pedida.pagina) /\ acceso' = [pedida EXCEPT !.fase = "tlb"]
        /\ tlb' = tlb /\ contador_orden' = contador_orden /\ puntero_clock' = puntero_clock
        /\ recientes' = recientes
        /\ cache' = cache /\ escrito' = escrito /\ perdidas' = perdidas
    BY <1>7 DEF AccesoSinCache, tablas
  <2>2. AccesoBien'
    <3>1. acceso' \in Accesos /\ acceso'.fase = "tlb" /\ acceso'.pagina = pedida.pagina
      BY <1>2, <2>1 DEF Accesos, Fases
    <3> QED BY <1>2, <1>3, <1>4, <2>1, <3>1 DEF AccesoBien, Pid, Pagina, EnMarcha
  <2>3. CacheBien' BY <1>4, <2>1 DEF IInv, CacheBien
  <2>4. TlbBien' BY <1>4, <2>1 DEF IInv, TlbBien
  <2>5. RestoBien' BY <1>4, <2>1 DEF IInv, RestoBien
  <2> QED BY <2>2, <2>3, <2>4, <2>5 DEF IInv
<1> QED BY <1>1, <1>5, <1>6, <1>7

(* A translation the page has, found in the TLB or in the page table.        *)
LEMMA TraducidaBien ==
    ASSUME IInv, acceso.fase \in {"tlb", "tabla"}, NEW marco \in Marcos \ {NULL},
           marco = MarcoDe[EnCurso], acceso' = Traducida(marco),
           cache' = cache, pcb_en_ejecucion' = pcb_en_ejecucion, config' = config,
           terminados' = terminados
    PROVE  AccesoBien'
<1>1. /\ acceso' \in Accesos /\ acceso'.fase \in {"pagina", "acceso"} /\ acceso'.pagina = acceso.pagina
      /\ acceso'.marco = marco /\ (acceso'.fase = "pagina" => DOMAIN cache # {})
  BY DEF IInv, AccesoBien, Accesos, Fases, Traducida, ConCache, cache_habilitada
<1>2. DOMAIN cache # {} => config.entradas_cache > 0
  <2>1. DOMAIN cache = 0..config.entradas_cache - 1 /\ config.entradas_cache \in Nat
    BY Configurado DEF IInv, CacheBien, CacheBuena
  <2> QED BY <2>1
<1>3. Pid \in Pids \ terminados /\ Pagina \in Paginas /\ ~EnCache(cache, Pid, Pagina)
  BY DEF IInv, AccesoBien, EnMarcha
<1> QED BY <1>1, <1>2, <1>3 DEF AccesoBien, Pid, Pagina, EnCurso, EnMarcha

LEMMA PasoConsultarTlb == ASSUME IInv, ConsultarTlb PROVE IInv'
<1> DEFINE E == EntradasTlb(Pids, Paginas, Marcos \ {NULL}, Instantes)
           marco == IF config.entradas_tlb = 0 THEN NULL ELSE consultar_tlb(tlb, Pid, Pagina)
<1>1. /\ acceso.fase = "tlb" /\ config' = config /\ contador_orden' = contador_orden
      /\ recientes' = recientes
      /\ cache' = cache /\ puntero_clock' = puntero_clock /\ reloj' = reloj
      /\ pcb_en_ejecucion' = pcb_en_ejecucion /\ memoria_fisica' = memoria_fisica
      /\ terminados' = terminados /\ escrito' = escrito /\ perdidas' = perdidas
  BY DEF ConsultarTlb, historia
<1>2. IF marco = NULL THEN acceso' = [acceso EXCEPT !.fase = "tabla"] /\ tlb' = tlb
      ELSE tlb' = TrasConsulta(tlb, Pid, Pagina, config.reemplazo_tlb, reloj) /\ acceso' = Traducida(marco)
  BY DEF ConsultarTlb
<1>3. CacheBien' /\ RestoBien' BY <1>1 DEF IInv, CacheBien, RestoBien
<1>4. CASE marco = NULL
  <2>1. acceso' = [acceso EXCEPT !.fase = "tabla"] /\ tlb' = tlb BY <1>2, <1>4
  <2>2. acceso' \in Accesos /\ acceso'.fase = "tabla" /\ acceso'.pagina = acceso.pagina
    BY <2>1 DEF IInv, AccesoBien, Accesos, Fases
  <2>3. AccesoBien' BY <1>1, <2>2 DEF IInv, AccesoBien, Pid, Pagina, EnMarcha
  <2>4. TlbBien' BY <1>1, <2>1 DEF IInv, TlbBien
  <2> QED BY <1>3, <2>3, <2>4 DEF IInv
<1>5. CASE marco # NULL
  <2>1. /\ tlb' = TrasConsulta(tlb, Pid, Pagina, config.reemplazo_tlb, reloj)
        /\ acceso' = Traducida(marco)
    BY <1>2, <1>5
  <2>2. /\ tlb \in Seq(E) /\ Len(tlb) \in Nat /\ DOMAIN tlb = 1..Len(tlb)
        /\ \A k \in 1..Len(tlb) : tlb[k] \in E
    BY LenProperties, ElementOfSeq DEF IInv, TlbBien
  <2>3. marco \in Marcos \ {NULL} /\ marco = MarcoDe[EnCurso]
    <3> DEFINE S == Posiciones(tlb, Pid, Pagina)
    <3>1. S # {} /\ S \in SUBSET Nat /\ S \subseteq 1..Len(tlb)
      BY <1>5, <2>2 DEF consultar_tlb, Posiciones
    <3>2. marco = tlb[CHOOSE i \in S : \A j \in S : i <= j].marco BY <1>5, <3>1 DEF consultar_tlb
    <3> HIDE DEF S
    <3>3. \E i \in S : \A j \in S : i <= j BY <3>1, MinimoNat
    <3>4. (CHOOSE i \in S : \A j \in S : i <= j) \in S BY <3>3
    <3>5. PICK i \in S : marco = tlb[i].marco BY <3>2, <3>4
    <3>6. i \in 1..Len(tlb) /\ tlb[i].pid = Pid /\ tlb[i].pagina = Pagina
      BY <3>1, <3>5 DEF S, Posiciones, EsDe
    <3>7. tlb[i].marco \in Marcos \ {NULL} BY <2>2, <3>6 DEF EntradasTlb
    <3> QED BY <3>5, <3>6, <3>7 DEF IInv, TlbBien, EnCurso
  <2> HIDE DEF marco, E
  <2>4. AccesoBien' BY <1>1, <2>1, <2>3, TraducidaBien
  <2>5. /\ tlb' \in Seq(E) /\ Len(tlb') = Len(tlb)
        /\ \A k \in 1..Len(tlb) : MismaTraduccion(tlb'[k], tlb[k])
    <3>1. CASE config.reemplazo_tlb = "LRU"
      <4>1. tlb' = RefrescarPrimera(tlb, Pid, Pagina, reloj) BY <2>1, <3>1 DEF TrasConsulta
      <4>2. reloj \in Instantes /\ Instantes \in SUBSET Nat
        BY SupuestoConfiguracion DEF IInv, RestoBien, Instantes
      <4> QED BY <2>2, <4>1, <4>2, RefrescaSinTraducir DEF E
    <3>2. CASE config.reemplazo_tlb # "LRU"
      <4>1. tlb' = tlb BY <2>1, <3>2 DEF TrasConsulta
      <4> QED BY <2>2, <4>1 DEF MismaTraduccion, MismaPagina
    <3> QED BY <3>1, <3>2
  <2>6. DOMAIN tlb' = 1..Len(tlb) BY <2>5, LenProperties
  <2>7. Unicas(tlb')
    BY <2>2, <2>5, <2>6 DEF IInv, TlbBien, Unicas, MismaTraduccion, MismaPagina
  <2>8. \A k \in 1..Len(tlb') : /\ tlb'[k].marco = MarcoDe[<<tlb'[k].pid, tlb'[k].pagina>>]
                               /\ tlb'[k].pid \notin terminados
    BY <2>5 DEF IInv, TlbBien, MismaTraduccion, MismaPagina
  <2>9. TlbBien' BY <1>1, <2>5, <2>7, <2>8 DEF IInv, TlbBien, E
  <2> QED BY <1>3, <2>4, <2>9 DEF IInv
<1> QED BY <1>4, <1>5

LEMMA PasoRecibirMarco == ASSUME EntradasDistintas, IInv, RecibirMarco PROVE IInv'
<1> DEFINE E == EntradasTlb(Pids, Paginas, Marcos \ {NULL}, Instantes)
<1>1. /\ acceso.fase = "tabla" /\ config' = config /\ cache' = cache /\ puntero_clock' = puntero_clock
      /\ reloj' = reloj /\ pcb_en_ejecucion' = pcb_en_ejecucion /\ memoria_fisica' = memoria_fisica
      /\ terminados' = terminados /\ escrito' = escrito /\ perdidas' = perdidas
  BY DEF RecibirMarco, historia
<1>2. PICK marco \in TablaDePaginas(Pid, EntradasDe(Pagina)) :
          IF marco \in {SinMarco, NULL}
          THEN acceso' = Reposo /\ UNCHANGED <<tlb, contador_orden, recientes>>
          ELSE /\ acceso' = Traducida(marco)
               /\ IF config.entradas_tlb = 0 THEN UNCHANGED <<tlb, contador_orden, recientes>>
                  ELSE /\ tlb' = actualizar_tlb(tlb, config.entradas_tlb, config.reemplazo_tlb,
                                                Pid, Pagina, marco, reloj, contador_orden)
                       /\ contador_orden' = IF Posiciones(tlb, Pid, Pagina) # {}
                                            THEN contador_orden ELSE SiguienteOrden(contador_orden)
                       /\ recientes' = IF Posiciones(tlb, Pid, Pagina) # {} THEN recientes
                                       ELSE IF contador_orden' = 0 THEN {}
                                       ELSE recientes \cup {EnCurso}
  BY DEF RecibirMarco
<1>3. CacheBien' BY <1>1 DEF IInv, CacheBien
<1>4. contador_orden' \in 0..INT_MAX
  BY <1>2, SupuestoInt DEF IInv, RestoBien, SiguienteOrden
<1>5. Pid \in Pids \ terminados /\ Pagina \in Paginas /\ ~EnCache(cache, Pid, Pagina)
  BY <1>1 DEF IInv, AccesoBien, EnMarcha
<1>6. recientes' \subseteq Direcciones
  <2>1. EnCurso \in Direcciones /\ recientes \subseteq Direcciones
    BY <1>5 DEF EnCurso, Direcciones, IInv, RestoBien
  <2> QED BY <1>2, <2>1
<1>7. RestoBien' BY <1>1, <1>4, <1>6 DEF IInv, RestoBien
<1>8. CASE marco \in {SinMarco, NULL}
  <2>1. acceso' = Reposo /\ tlb' = tlb BY <1>2, <1>8
  <2>2. acceso' \in Accesos /\ acceso'.fase = "libre" BY <2>1, ReposoBien DEF Reposo
  <2>3. AccesoBien' BY <1>1, <1>5, <2>2 DEF AccesoBien, Pid, EnMarcha
  <2>4. TlbBien' BY <1>1, <2>1 DEF IInv, TlbBien
  <2> QED BY <1>3, <1>7, <2>3, <2>4 DEF IInv
<1>9. CASE marco \notin {SinMarco, NULL}
  <2>1. acceso' = Traducida(marco) BY <1>2, <1>9
  <2>2. marco \in Marcos \ {NULL} /\ marco = MarcoDe[EnCurso]
    <3>1. PICK q \in Paginas : EntradasDe(q) = EntradasDe(Pagina) /\ marco = MarcoDe[<<Pid, q>>]
      BY <1>9 DEF TablaDePaginas
    <3>2. q = Pagina BY <1>5, <3>1 DEF EntradasDistintas
    <3>3. EnCurso \in Direcciones BY <1>5 DEF EnCurso, Direcciones
    <3> QED BY <1>9, <3>1, <3>2, <3>3, SupuestoMemoria DEF EnCurso
  <2>3. AccesoBien' BY <1>1, <2>1, <2>2, TraducidaBien
  <2>4. CASE config.entradas_tlb = 0
    <3>1. tlb' = tlb BY <1>2, <1>9, <2>4
    <3>2. TlbBien' BY <1>1, <3>1 DEF IInv, TlbBien
    <3> QED BY <1>3, <1>7, <2>3, <3>2 DEF IInv
  <2>5. CASE config.entradas_tlb # 0
    <3> DEFINE n == config.entradas_tlb
    <3>1. tlb' = actualizar_tlb(tlb, n, config.reemplazo_tlb, Pid, Pagina, marco, reloj, contador_orden)
      BY <1>2, <1>9, <2>5
    <3>2. /\ n \in Nat /\ n > 0 /\ tlb \in Seq(E) /\ Len(tlb) <= n /\ Unicas(tlb)
          /\ Instantes \in SUBSET Nat /\ reloj \in Instantes /\ contador_orden \in 0..INT_MAX
      BY <2>5, Configurado, SupuestoConfiguracion DEF IInv, TlbBien, RestoBien, Instantes
    <3> HIDE DEF n
    <3>3. /\ tlb' \in Seq(E) /\ Len(tlb') <= n /\ Unicas(tlb')
          /\ \A k \in 1..Len(tlb') : \/ EsDe(tlb'[k], Pid, Pagina) /\ tlb'[k].marco = marco
                                    \/ \E i \in 1..Len(tlb) : MismaTraduccion(tlb'[k], tlb[i])
      <4> DEFINE M == Marcos \ {NULL}
                 alg == config.reemplazo_tlb
                 pid == Pid
                 pagina == Pagina
                 r == actualizar_tlb(tlb, n, alg, pid, pagina, marco, reloj, contador_orden)
      <4>1. /\ tlb \in Seq(EntradasTlb(Pids, Paginas, M, Instantes)) /\ marco \in M
            /\ pid \in Pids /\ pagina \in Paginas
        BY <1>5, <2>2, <3>2
      <4> HIDE DEF M, alg, pid, pagina
      <4>2. /\ r \in Seq(EntradasTlb(Pids, Paginas, M, Instantes)) /\ Len(r) <= n
            /\ Unicas(r)
            /\ \A k \in 1..Len(r) :
                  \/ EsDe(r[k], pid, pagina) /\ r[k].marco = marco
                  \/ \E i \in 1..Len(tlb) : MismaTraduccion(r[k], tlb[i])
        BY <3>2, <4>1, ActualizaTlb
      <4>3. r = tlb' BY <3>1 DEF alg, pid, pagina
      <4> HIDE DEF r
      <4> QED BY <4>2, <4>3 DEF M, pid, pagina
    <3>4. ASSUME NEW k \in 1..Len(tlb')
          PROVE  /\ tlb'[k].marco = MarcoDe[<<tlb'[k].pid, tlb'[k].pagina>>]
                 /\ tlb'[k].pid \notin terminados
      <4>1. CASE EsDe(tlb'[k], Pid, Pagina) /\ tlb'[k].marco = marco
        BY <1>5, <2>2, <4>1 DEF EsDe, EnCurso
      <4>2. CASE \E i \in 1..Len(tlb) : MismaTraduccion(tlb'[k], tlb[i])
        BY <4>2 DEF IInv, TlbBien, MismaTraduccion, MismaPagina
      <4> QED BY <3>3, <4>1, <4>2
    <3>5. TlbBien' BY <1>1, <3>3, <3>4 DEF TlbBien, n
    <3> QED BY <1>3, <1>7, <2>3, <3>5 DEF IInv
  <2> QED BY <2>4, <2>5
<1> QED BY <1>8, <1>9

(* The entry that RecibirPagina chooses, in the table whose use bits were    *)
(* cleared.                                                                  *)
LEMMA EleccionDePagina ==
    ASSUME IInv, acceso.fase = "pagina"
    PROVE  LET n == config.entradas_cache
               e == elegir_entrada(cache, puntero_clock, config.reemplazo_cache) IN
           /\ n \in Nat /\ n > 0 /\ CacheBuena(cache, n, terminados)
           /\ EleccionBuena(e, cache, n)
           /\ e.cache \in [0..n - 1 -> Entradas]
           /\ CacheBuena(e.cache, n, terminados)
           /\ \A p, q : EnCache(e.cache, p, q) <=> EnCache(cache, p, q)
           /\ \A i \in 0..n - 1 : /\ MismaCopia(e.cache[i], cache[i])
                                  /\ e.cache[i].modificado = cache[i].modificado
                                  /\ e.cache[i].contenido = cache[i].contenido
           /\ \A i \in 0..n - 1 : e.cache[i].modificado => e.cache[i].ocupado
<1> DEFINE n == config.entradas_cache
           e == elegir_entrada(cache, puntero_clock, config.reemplazo_cache)
<1>1. /\ n \in Nat /\ n > 0 /\ cache \in [0..n - 1 -> Entradas] /\ CacheBuena(cache, n, terminados)
      /\ puntero_clock \in 0..n
  BY Configurado DEF IInv, AccesoBien, CacheBien, CacheBuena, RestoBien
<1> HIDE DEF n
<1>2. EleccionBuena(e, cache, n) BY <1>1, EligeEntrada
<1>3. \A x \in Entradas : x.ocupado => [x EXCEPT !.usado = FALSE] \in Entradas BY ApagarUso
<1>4. \A x \in Entradas : x.modificado => x.ocupado
  <2>1. ~Libre.modificado BY DEF Libre
  <2> QED BY <2>1 DEF Entradas
<1> HIDE DEF e
<1>5. e.cache \in [0..n - 1 -> Entradas] BY <1>2 DEF EleccionBuena
<1>6. ASSUME NEW i \in 0..n - 1
      PROVE  /\ MismaCopia(e.cache[i], cache[i])
             /\ e.cache[i].modificado = cache[i].modificado
             /\ e.cache[i].contenido = cache[i].contenido
             /\ e.cache[i].modificado => e.cache[i].ocupado
  <2>0. e.cache[i] \in Entradas BY <1>5
  <2>1. e.cache[i] = cache[i] \/ e.cache[i] = [cache[i] EXCEPT !.usado = FALSE]
    BY <1>1, <1>2 DEF EleccionBuena, SoloUsados
  <2>2. cache[i] \in Entradas BY <1>1
  <2>3. \A x \in Entradas : LET y == [x EXCEPT !.usado = FALSE] IN
            /\ MismaCopia(y, x) /\ y.modificado = x.modificado /\ y.contenido = x.contenido
    BY DEF Entradas, Libre, MismaCopia, MismaTraduccion, MismaPagina
  <2>4. \A x : MismaCopia(x, x) BY DEF MismaCopia, MismaTraduccion, MismaPagina
  <2>5. /\ MismaCopia(e.cache[i], cache[i])
        /\ e.cache[i].modificado = cache[i].modificado
        /\ e.cache[i].contenido = cache[i].contenido
    BY <2>1, <2>2, <2>3, <2>4
  <2> QED BY <1>4, <2>0, <2>5
<1>7. /\ CacheBuena(e.cache, n, terminados)
      /\ \A p, q : EnCache(e.cache, p, q) <=> EnCache(cache, p, q)
  BY <1>1, <1>5, <1>6, RetocaCache
<1> QED BY <1>1, <1>2, <1>5, <1>6, <1>7 DEF n, e

LEMMA PasoRecibirPagina == ASSUME IInv, RecibirPagina PROVE IInv'
<1> DEFINE n == config.entradas_cache
           e == elegir_entrada(cache, puntero_clock, config.reemplazo_cache)
           contenido == LeerPagina(Pid, Pagina)
<1>1. /\ acceso.fase = "pagina" /\ config' = config /\ tlb' = tlb /\ contador_orden' = contador_orden
      /\ recientes' = recientes
      /\ reloj' = reloj /\ pcb_en_ejecucion' = pcb_en_ejecucion /\ memoria_fisica' = memoria_fisica
      /\ terminados' = terminados /\ escrito' = escrito /\ perdidas' = perdidas
      /\ puntero_clock' = e.puntero
  BY DEF RecibirPagina, historia
<1>2. IF e.cache[e.victima].modificado
      THEN /\ cache' = e.cache
           /\ acceso' = [acceso EXCEPT !.fase = "desalojo", !.contenido = contenido,
                                       !.victima = e.victima]
      ELSE /\ cache' = Cargar(e.cache, e.victima, contenido)
           /\ acceso' = [acceso EXCEPT !.fase = "acceso"]
  BY DEF RecibirPagina
<1>3. /\ n \in Nat /\ n > 0 /\ CacheBuena(cache, n, terminados)
      /\ EleccionBuena(e, cache, n)
      /\ e.cache \in [0..n - 1 -> Entradas]
      /\ CacheBuena(e.cache, n, terminados)
      /\ \A p, q : EnCache(e.cache, p, q) <=> EnCache(cache, p, q)
      /\ \A i \in 0..n - 1 : e.cache[i].modificado => e.cache[i].ocupado
  BY <1>1, EleccionDePagina
<1>4. /\ acceso \in Accesos /\ Pid \in Pids \ terminados /\ Pagina \in Paginas
      /\ ~EnCache(cache, Pid, Pagina) /\ acceso.marco \in Marcos \ {NULL} /\ acceso.marco = MarcoDe[EnCurso]
  BY <1>1 DEF IInv, AccesoBien, EnMarcha
<1>5. contenido \in Valores
  BY <1>4, SupuestoMemoria DEF IInv, RestoBien, LeerPagina, EnCurso
<1>6. e.victima \in 0..n - 1 /\ e.puntero \in 0..n BY <1>3 DEF EleccionBuena
<1>7. TlbBien' BY <1>1 DEF IInv, TlbBien
<1>8. RestoBien' BY <1>1, <1>6 DEF IInv, RestoBien
<1> HIDE DEF n, e, contenido
<1>9. CASE e.cache[e.victima].modificado
  <2>1. /\ cache' = e.cache
        /\ acceso' = [acceso EXCEPT !.fase = "desalojo", !.contenido = contenido, !.victima = e.victima]
    BY <1>2, <1>9
  <2>2. /\ acceso' \in Accesos /\ acceso'.fase = "desalojo" /\ acceso'.victima = e.victima
        /\ acceso'.pagina = acceso.pagina /\ acceso'.marco = acceso.marco
    <3>1. ASSUME NEW x \in Accesos, NEW u \in Valores, NEW v \in Nat
          PROVE  LET y == [x EXCEPT !.fase = "desalojo", !.contenido = u, !.victima = v] IN
                 /\ y \in Accesos /\ y.fase = "desalojo" /\ y.victima = v
                 /\ y.pagina = x.pagina /\ y.marco = x.marco
      BY DEF Accesos, Fases
    <3>2. e.victima \in Nat BY <1>3, <1>6
    <3> QED BY <1>4, <1>5, <2>1, <3>1, <3>2
  <2>3. e.victima \in DOMAIN cache' BY <1>3, <1>6, <2>1
  <2>4. AccesoBien'
    BY <1>1, <1>3, <1>4, <1>6, <1>9, <2>1, <2>2, <2>3
    DEF AccesoBien, Pid, Pagina, EnCurso, EnMarcha, n
  <2>5. CacheBien' BY <1>1, <1>3, <2>1 DEF CacheBien, n
  <2> QED BY <1>7, <1>8, <2>4, <2>5 DEF IInv
<1>10. CASE ~e.cache[e.victima].modificado
  <2>1. /\ cache' = [e.cache EXCEPT ![e.victima] = Nueva(Pid, Pagina, acceso.marco, contenido)]
        /\ acceso' = [acceso EXCEPT !.fase = "acceso"]
    BY <1>2, <1>10 DEF Cargar
  <2>2. /\ acceso' \in Accesos /\ acceso'.fase = "acceso"
        /\ acceso'.pagina = acceso.pagina /\ acceso'.marco = acceso.marco
    BY <1>4, <2>1 DEF Accesos, Fases
  <2>3. AccesoBien' BY <1>1, <1>4, <2>2 DEF AccesoBien, Pid, Pagina, EnCurso, EnMarcha
  <2>4. CacheBuena(cache', n, terminados)
    BY <1>3, <1>4, <1>5, <1>6, <2>1, CargaCache DEF EnCurso
  <2>5. CacheBien' BY <1>1, <2>4 DEF CacheBien, n
  <2> QED BY <1>7, <1>8, <2>3, <2>5 DEF IInv
<1> QED BY <1>9, <1>10

LEMMA PasoPaginaNoLlega == ASSUME IInv, PaginaNoLlega PROVE IInv'
<1>1. acceso.fase = "pagina" /\ acceso' = [acceso EXCEPT !.fase = "acceso"] /\ acceso \in Accesos
  BY DEF PaginaNoLlega, IInv, AccesoBien
<1>2. /\ acceso' \in Accesos /\ acceso'.fase = "acceso"
      /\ acceso'.pagina = acceso.pagina /\ acceso'.marco = acceso.marco
  BY <1>1 DEF Accesos, Fases
<1>3. AccesoBien'
  BY <1>1, <1>2 DEF PaginaNoLlega, IInv, AccesoBien, Pid, Pagina, EnCurso, EnMarcha, historia
<1>4. TlbBien' BY DEF PaginaNoLlega, IInv, TlbBien, tablas, historia
<1>5. CacheBien' BY DEF PaginaNoLlega, IInv, CacheBien, tablas, historia
<1>6. RestoBien' BY DEF PaginaNoLlega, IInv, RestoBien, tablas, historia
<1> QED BY <1>3, <1>4, <1>5, <1>6 DEF IInv

LEMMA EscribirMarcosTipo ==
    ASSUME RestoBien, NEW marcos, NEW v \in Valores, EscribirMarcos(marcos, v)
    PROVE  memoria_fisica' \in [Marcos -> Valores]
BY DEF RestoBien, EscribirMarcos

LEMMA PasoDesalojo == ASSUME IInv, Desalojo PROVE IInv'
<1> DEFINE n == config.entradas_cache
           i == acceso.victima
<1>1. /\ acceso.fase = "desalojo" /\ config' = config /\ tlb' = tlb /\ contador_orden' = contador_orden
      /\ recientes' = recientes
      /\ puntero_clock' = puntero_clock /\ reloj' = reloj /\ pcb_en_ejecucion' = pcb_en_ejecucion
      /\ terminados' = terminados
      /\ cache' = [cache EXCEPT ![i] = Nueva(Pid, Pagina, acceso.marco, acceso.contenido)]
      /\ acceso' = [acceso EXCEPT !.fase = "acceso"]
  BY DEF Desalojo, Cargar
<1>2. /\ n \in Nat /\ n > 0 /\ CacheBuena(cache, n, terminados) /\ i \in DOMAIN cache /\ cache[i].ocupado
      /\ acceso \in Accesos /\ Pid \in Pids \ terminados /\ Pagina \in Paginas
      /\ ~EnCache(cache, Pid, Pagina) /\ acceso.marco \in Marcos \ {NULL} /\ acceso.marco = MarcoDe[EnCurso]
  BY <1>1, Configurado DEF IInv, AccesoBien, EnMarcha, CacheBien
<1>3. cache \in [0..n - 1 -> Entradas] /\ i \in 0..n - 1 BY <1>2 DEF CacheBuena
<1> HIDE DEF n
<1>4. /\ acceso' \in Accesos /\ acceso'.fase = "acceso"
      /\ acceso'.pagina = acceso.pagina /\ acceso'.marco = acceso.marco
  BY <1>1, <1>2 DEF Accesos, Fases
<1>5. AccesoBien' BY <1>1, <1>2, <1>4 DEF AccesoBien, Pid, Pagina, EnCurso, EnMarcha
<1>6. TlbBien' BY <1>1 DEF IInv, TlbBien
<1>7. CacheBien'
  <2>1. acceso.contenido \in Valores BY <1>2 DEF Accesos
  <2>2. CacheBuena(cache', n, terminados)
    BY <1>1, <1>2, <1>3, <2>1, CargaCache DEF EnCurso
  <2> QED BY <1>1, <2>2 DEF CacheBien, n
<1>8. RestoBien'
  <2>1. cache[i] \in Entradas /\ cache[i] # Libre BY <1>2, <1>3 DEF Libre
  <2>2. /\ cache[i].pid \in Pids /\ cache[i].pagina \in Paginas /\ cache[i].contenido \in Valores
    BY <2>1 DEF Entradas
  <2>3. CASE EscribirMarcos({cache[i].marco}, cache[i].contenido) /\ UNCHANGED <<escrito, perdidas>>
    <3>1. memoria_fisica' \in [Marcos -> Valores] BY <2>2, <2>3, EscribirMarcosTipo DEF IInv
    <3> QED BY <1>1, <2>3, <3>1 DEF IInv, RestoBien
  <2>4. CASE /\ perdidas' = perdidas \cup {<<cache[i].pid, cache[i].pagina>>}
             /\ escrito' = Recordado(escrito, perdidas') /\ UNCHANGED memoria_fisica
    <3>1. perdidas' \subseteq Direcciones BY <2>2, <2>4 DEF IInv, RestoBien, Direcciones
    <3>2. escrito' \in [Direcciones -> Valores] BY <2>4, RecordadoTipo DEF IInv, RestoBien
    <3> QED BY <1>1, <2>4, <3>1, <3>2 DEF IInv, RestoBien
  <2> QED BY <2>3, <2>4 DEF Desalojo
<1> QED BY <1>5, <1>6, <1>7, <1>8 DEF IInv

LEMMA PasoAccederEnCache == ASSUME IInv, AccederEnCache PROVE IInv'
<1>1. /\ acceso.fase = "acceso" /\ EnCache(cache, Pid, acceso.pagina) /\ UsarEntrada(acceso)
      /\ acceso' = Reposo /\ config' = config /\ tlb' = tlb /\ contador_orden' = contador_orden
      /\ recientes' = recientes
      /\ puntero_clock' = puntero_clock /\ reloj' = reloj /\ pcb_en_ejecucion' = pcb_en_ejecucion
      /\ memoria_fisica' = memoria_fisica /\ terminados' = terminados /\ perdidas' = perdidas
  BY DEF AccederEnCache, Pagina
<1>2. Pid \in Pids \ terminados /\ acceso.pagina \in Paginas /\ acceso.valor \in Valores
  BY <1>1 DEF IInv, AccesoBien, EnMarcha, Pagina, Accesos
<1>3. CacheBuena(cache', config.entradas_cache, terminados) /\ escrito' \in [Direcciones -> Valores]
  BY <1>1, <1>2, UsaEntrada
<1>4. AccesoBien'
  <2>1. Reposo \in Accesos /\ Reposo.fase = "libre" BY ReposoBien DEF Reposo
  <2> QED BY <1>1, <1>2, <2>1 DEF AccesoBien, Pid, EnMarcha
<1>5. CacheBien' BY <1>1, <1>3 DEF CacheBien
<1>6. TlbBien' BY <1>1 DEF IInv, TlbBien
<1>7. RestoBien' BY <1>1, <1>3 DEF IInv, RestoBien
<1> QED BY <1>4, <1>5, <1>6, <1>7 DEF IInv

LEMMA PasoAccederEnMemoria == ASSUME IInv, AccederEnMemoria PROVE IInv'
<1> DEFINE siguiente == IF acceso.cabe THEN {} ELSE {acceso.marco + 1} \cap Marcos
<1>1. /\ acceso.fase = "acceso" /\ acceso' = Reposo
      /\ config' = config /\ tlb' = tlb /\ contador_orden' = contador_orden
      /\ recientes' = recientes
      /\ cache' = cache /\ puntero_clock' = puntero_clock /\ reloj' = reloj
      /\ pcb_en_ejecucion' = pcb_en_ejecucion /\ terminados' = terminados
  BY DEF AccederEnMemoria, tablas
<1>2. Pid \in Pids \ terminados /\ Pagina \in Paginas /\ acceso.valor \in Valores
  BY <1>1 DEF IInv, AccesoBien, EnMarcha, Accesos
<1>3. AccesoBien'
  <2>1. Reposo \in Accesos /\ Reposo.fase = "libre" BY ReposoBien DEF Reposo
  <2> QED BY <1>1, <1>2, <2>1 DEF AccesoBien, Pid, EnMarcha
<1>4. CacheBien' BY <1>1 DEF IInv, CacheBien
<1>5. TlbBien' BY <1>1 DEF IInv, TlbBien
<1>6. RestoBien'
  <2>1. CASE UNCHANGED <<memoria_fisica, escrito, perdidas>> BY <1>1, <2>1 DEF IInv, RestoBien
  <2>2. CASE /\ \E marcos \in {{acceso.marco}, {acceso.marco} \cup siguiente} :
                    EscribirMarcos(marcos, acceso.valor)
             /\ perdidas' = perdidas \cup Duenos(siguiente)
                            \cup (IF EnCache(cache, Pid, Pagina) THEN {EnCurso} ELSE {})
             /\ escrito' = Recordado([escrito EXCEPT ![<<Pid, Pagina>>] = acceso.valor], perdidas')
    <3>1. memoria_fisica' \in [Marcos -> Valores] BY <1>2, <2>2, EscribirMarcosTipo DEF IInv
    <3>2. perdidas' \subseteq Direcciones
      BY <1>2, <2>2 DEF IInv, RestoBien, Duenos, Direcciones, EnCurso
    <3>3. [escrito EXCEPT ![<<Pid, Pagina>>] = acceso.valor] \in [Direcciones -> Valores]
      BY <1>2 DEF IInv, RestoBien
    <3>4. escrito' \in [Direcciones -> Valores] BY <2>2, <3>3, RecordadoTipo
    <3> QED BY <1>1, <3>1, <3>2, <3>4 DEF IInv, RestoBien
  <2> QED BY <2>1, <2>2 DEF AccederEnMemoria
<1> QED BY <1>3, <1>4, <1>5, <1>6 DEF IInv

LEMMA SinPaso == ASSUME IInv, UNCHANGED vars PROVE IInv'
<1>1. TlbBien' BY DEF IInv, TlbBien, vars, tablas, historia
<1>2. CacheBien' BY DEF IInv, CacheBien, vars, tablas, historia
<1>3. RestoBien' BY DEF IInv, RestoBien, vars, tablas, historia
<1>4. AccesoBien'
  BY DEF IInv, AccesoBien, vars, tablas, historia, Pid, Pagina, EnCurso, EnMarcha
<1> QED BY <1>1, <1>2, <1>3, <1>4 DEF IInv

LEMMA CadaPaso == ASSUME EntradasDistintas PROVE IInv /\ [Next]_vars => IInv'
BY PasoRecibirPcb, PasoDevolverPcb, PasoFinDeProceso, PasoTic, PasoEjecutar, PasoConsultarTlb,
   PasoRecibirMarco, PasoRecibirPagina, PasoPaginaNoLlega, PasoDesalojo, PasoAccederEnCache,
   PasoAccederEnMemoria, SinPaso
   DEF Next

----------------------------------------------------------------------------
(* IInv holds in every state of the CPU's accesses, when the levels of the  *)
(* page table tell the pages apart.                                         *)
THEOREM Inductivo == ASSUME EntradasDistintas PROVE Spec => []IInv
<1>1. Init => IInv BY AlEmpezar
<1>2. IInv /\ [Next]_vars => IInv' BY CadaPaso
<1> QED BY <1>1, <1>2, PTL DEF Spec

(* The variables keep to their sets and no table of the CPU outgrows the    *)
(* size in its configuration, whatever the sizes and the page table.        *)
THEOREM TiposMmu == ASSUME EntradasDistintas PROVE Spec => []TypeOK
<1>1. IInv => TypeOK BY InvariantesDeIInv
<1> QED BY <1>1, Inductivo, PTL

(* No page is twice in the cache or in the TLB, for any number of entries   *)
(* and any replacement: cargar_pagina_en_cache never looks, but no page it   *)
(* loads is there.                                                           *)
THEOREM SinDuplicadosSiempre == ASSUME EntradasDistintas PROVE Spec => []SinDuplicados
<1>1. IInv => SinDuplicados BY InvariantesDeIInv
<1> QED BY <1>1, Inductivo, PTL

(* Every translation the CPU keeps or uses is the page table's.             *)
THEOREM TraduccionFielSiempre == ASSUME EntradasDistintas PROVE Spec => []TraduccionFiel
<1>1. IInv => TraduccionFiel BY InvariantesDeIInv
<1> QED BY <1>1, Inductivo, PTL

(* Nothing of a process that ended is left in the tables.                   *)
THEOREM SinRastrosSiempre == ASSUME EntradasDistintas PROVE Spec => []SinRastros
<1>1. IInv => SinRastros BY InvariantesDeIInv
<1> QED BY <1>1, Inductivo, PTL
=============================================================================
