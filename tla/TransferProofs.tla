--------------------------- MODULE TransferProofs ---------------------------
(***************************************************************************)
(* Proofs about AsyncTransfer, for every number of layers, batch size,     *)
(* threshold, group size and bound on the copies queued, when the events   *)
(* the code records and waits for do not themselves raise.                 *)
(***************************************************************************)
EXTENDS TransferInvariant, CoordinatorProofs

USE StreamAssumption

(* ----------------------------------------------------------------------- *)
(* The streams as lists                                                    *)

(* The entries of the two streams, one by one. *)
LEMMA StreamEntries ==
  ASSUME StreamTypeOK
  PROVE  /\ Len(compute) \in Nat /\ DOMAIN compute = 1 .. Len(compute)
         /\ Len(copies) \in Nat /\ DOMAIN copies = 1 .. Len(copies)
         /\ \A i \in DOMAIN compute :
              /\ i \in Nat /\ i >= 1
              /\ compute[i].kind \in {"kernel", "zero", "wait"}
              /\ compute[i].layer \in Layers \cup {OtherLayers}
              /\ compute[i].after \in Nat
         /\ \A j \in DOMAIN copies :
              /\ j \in Nat /\ j >= 1
              /\ copies[j].layer \in Layers
              /\ copies[j].variant \in {"fp16", "w4"}
              /\ copies[j].after \in Nat
         /\ \A l \in Layers : pending[l] \in Nat
         /\ last_forward \in Nat
<1>1. compute \in Seq(Work) /\ copies \in Seq(Copy)
  BY DEF StreamTypeOK
<1>2. \A i \in DOMAIN compute : compute[i] \in Work /\ i \in 1 .. Len(compute)
  BY <1>1
<1>3. \A j \in DOMAIN copies : copies[j] \in Copy /\ j \in 1 .. Len(copies)
  BY <1>1
<1>4. Len(compute) \in Nat /\ DOMAIN compute = 1 .. Len(compute)
  BY <1>1
<1>5. Len(copies) \in Nat /\ DOMAIN copies = 1 .. Len(copies)
  BY <1>1
<1>6. ASSUME NEW i \in DOMAIN compute
      PROVE  /\ i \in Nat /\ i >= 1
             /\ compute[i].kind \in {"kernel", "zero", "wait"}
             /\ compute[i].layer \in Layers \cup {OtherLayers}
             /\ compute[i].after \in Nat
  BY <1>2, <1>4 DEF Work
<1>7. ASSUME NEW j \in DOMAIN copies
      PROVE  /\ j \in Nat /\ j >= 1
             /\ copies[j].layer \in Layers
             /\ copies[j].variant \in {"fp16", "w4"}
             /\ copies[j].after \in Nat
  BY <1>3, <1>5 DEF Copy
<1> QED BY <1>4, <1>5, <1>6, <1>7 DEF StreamTypeOK

(* One entry more at the end of a queue. *)
LEMMA QueueAppended ==
  ASSUME NEW T, NEW q \in Seq(T), NEW x \in T
  PROVE  /\ Append(q, x) \in Seq(T)
         /\ Len(Append(q, x)) = Len(q) + 1 /\ Len(q) \in Nat
         /\ DOMAIN q = 1 .. Len(q)
         /\ DOMAIN Append(q, x) = 1 .. Len(q) + 1
         /\ \A i \in DOMAIN q : i \in DOMAIN Append(q, x) /\ Append(q, x)[i] = q[i]
         /\ Append(q, x)[Len(q) + 1] = x
OBVIOUS

(* The head of a queue is taken off. *)
LEMMA QueueTail ==
  ASSUME NEW T, NEW q \in Seq(T), q # <<>>
  PROVE  /\ Tail(q) \in Seq(T) /\ Head(q) = q[1] /\ 1 \in DOMAIN q
         /\ Len(Tail(q)) = Len(q) - 1 /\ Len(q) \in Nat \ {0}
         /\ DOMAIN q = 1 .. Len(q)
         /\ DOMAIN Tail(q) = 1 .. Len(q) - 1
         /\ \A i \in DOMAIN Tail(q) : i + 1 \in DOMAIN q /\ Tail(q)[i] = q[i + 1]
OBVIOUS

(* The entries of a stream after the other stream has finished an operation wait for one
   operation fewer and are otherwise what they were. *)
LEMMA CopiesReleased ==
  ASSUME NEW q \in Seq(Copy)
  PROVE  /\ Released(q) \in Seq(Copy)
         /\ DOMAIN Released(q) = DOMAIN q /\ Len(Released(q)) = Len(q)
         /\ \A j \in DOMAIN q :
              /\ Released(q)[j].layer = q[j].layer /\ Released(q)[j].variant = q[j].variant
              /\ Released(q)[j].after = OneLess(q[j].after)
<1>1. DOMAIN q = 1 .. Len(q) /\ Len(q) \in Nat
  OBVIOUS
<1>2. ASSUME NEW j \in DOMAIN q
      PROVE  /\ [q[j] EXCEPT !.after = OneLess(@)] \in Copy
             /\ Released(q)[j] = [q[j] EXCEPT !.after = OneLess(@)]
             /\ Released(q)[j].layer = q[j].layer /\ Released(q)[j].variant = q[j].variant
             /\ Released(q)[j].after = OneLess(q[j].after)
  <2>1. q[j] \in Copy
    OBVIOUS
  <2>2. OneLess(q[j].after) \in Nat
    BY <2>1 DEF Copy, OneLess
  <2> QED BY <2>1, <2>2 DEF Copy, Released
<1>3. Released(q) \in [1 .. Len(q) -> Copy]
  BY <1>1, <1>2 DEF Released
<1>4. Released(q) \in Seq(Copy)
  BY <1>1, <1>3
<1>5. DOMAIN Released(q) = DOMAIN q
  BY DEF Released
<1>6. Len(Released(q)) = Len(q)
  BY <1>1, <1>3
<1> QED BY <1>2, <1>4, <1>5, <1>6

LEMMA WorkReleased ==
  ASSUME NEW q \in Seq(Work)
  PROVE  /\ Released(q) \in Seq(Work)
         /\ DOMAIN Released(q) = DOMAIN q /\ Len(Released(q)) = Len(q)
         /\ \A i \in DOMAIN q :
              /\ Released(q)[i].kind = q[i].kind /\ Released(q)[i].layer = q[i].layer
              /\ Released(q)[i].variant = q[i].variant
              /\ Released(q)[i].kv = q[i].kv /\ Released(q)[i].first = q[i].first
              /\ Released(q)[i].after = OneLess(q[i].after)
<1>1. DOMAIN q = 1 .. Len(q) /\ Len(q) \in Nat
  OBVIOUS
<1>2. ASSUME NEW i \in DOMAIN q
      PROVE  /\ [q[i] EXCEPT !.after = OneLess(@)] \in Work
             /\ Released(q)[i].kind = q[i].kind /\ Released(q)[i].layer = q[i].layer
             /\ Released(q)[i].variant = q[i].variant
             /\ Released(q)[i].kv = q[i].kv /\ Released(q)[i].first = q[i].first
             /\ Released(q)[i].after = OneLess(q[i].after)
  <2>1. q[i] \in Work
    OBVIOUS
  <2>2. OneLess(q[i].after) \in Nat
    BY <2>1 DEF Work, OneLess
  <2> QED BY <2>1, <2>2 DEF Work, Released
<1>3. Released(q) \in [1 .. Len(q) -> Work]
  BY <1>1, <1>2 DEF Released
<1>4. Released(q) \in Seq(Work)
  BY <1>1, <1>3
<1>5. DOMAIN Released(q) = DOMAIN q
  BY DEF Released
<1>6. Len(Released(q)) = Len(q)
  BY <1>1, <1>3
<1> QED BY <1>2, <1>4, <1>5, <1>6

(* ----------------------------------------------------------------------- *)
(* The steps of the streams                                                *)

(* The compute stream finishes the operation at its head. *)
LEMMA ComputeShift ==
  ASSUME StreamTypeOK, RunCompute
  PROVE  /\ compute' \in Seq(Work) /\ copies' \in Seq(Copy)
         /\ Len(compute') = Len(compute) - 1 /\ Len(copies') = Len(copies)
         /\ 1 \in DOMAIN compute /\ Head(compute) = compute[1]
         /\ DOMAIN copies' = DOMAIN copies
         /\ \A i \in DOMAIN compute' :
              i \in Nat /\ i >= 1 /\ i + 1 \in DOMAIN compute /\ compute'[i] = compute[i + 1]
         /\ \A j \in DOMAIN copies :
              copies'[j].layer = copies[j].layer /\ copies'[j].variant = copies[j].variant
         /\ \A j \in DOMAIN copies : ~CopyFirst(j, 1)
         /\ \A j \in DOMAIN copies, n \in Nat : CopyFirst(j, n + 1) => CopyFirst(j, n)'
         /\ \A j \in DOMAIN copies, n \in Nat \ {0} : ComputeFirst(n + 1, j) => ComputeFirst(n, j)'
<1>1. compute \in Seq(Work) /\ copies \in Seq(Copy) /\ compute # <<>>
  BY DEF StreamTypeOK, RunCompute, ComputeRuns
<1>2. compute' = Tail(compute) /\ copies' = Released(copies) /\ Head(compute).after = 0
  BY DEF RunCompute, ComputeRuns
<1>3. /\ Tail(compute) \in Seq(Work) /\ Head(compute) = compute[1] /\ 1 \in DOMAIN compute
      /\ Len(Tail(compute)) = Len(compute) - 1 /\ Len(compute) \in Nat \ {0}
      /\ DOMAIN compute = 1 .. Len(compute)
      /\ DOMAIN Tail(compute) = 1 .. Len(compute) - 1
      /\ \A i \in DOMAIN Tail(compute) :
           i + 1 \in DOMAIN compute /\ Tail(compute)[i] = compute[i + 1]
  BY <1>1, QueueTail
<1>4. /\ Released(copies) \in Seq(Copy)
      /\ DOMAIN Released(copies) = DOMAIN copies /\ Len(Released(copies)) = Len(copies)
      /\ \A j \in DOMAIN copies :
           /\ Released(copies)[j].layer = copies[j].layer
           /\ Released(copies)[j].variant = copies[j].variant
           /\ Released(copies)[j].after = OneLess(copies[j].after)
  BY <1>1, CopiesReleased
<1>5. \A j \in DOMAIN copies : ~CopyFirst(j, 1)
  BY <1>2, <1>3, StreamEntries DEF CopyFirst
<1>6. ASSUME NEW j \in DOMAIN copies, NEW n \in Nat, CopyFirst(j, n + 1)
      PROVE  CopyFirst(j, n)'
  <2>1. PICK m \in DOMAIN compute : m <= n + 1 /\ compute[m].after >= j
    BY <1>6 DEF CopyFirst
  <2>2. m # 1 /\ m \in Nat /\ m >= 1
    BY <1>2, <1>3, <2>1, StreamEntries
  <2>3. m - 1 \in DOMAIN Tail(compute) /\ m - 1 <= n /\ (m - 1) + 1 = m
    BY <1>3, <2>1, <2>2
  <2>4. Tail(compute)[m - 1].after >= j
    BY <1>3, <2>1, <2>3
  <2> QED BY <1>2, <2>3, <2>4 DEF CopyFirst
<1>7. ASSUME NEW j \in DOMAIN copies, NEW n \in Nat \ {0}, ComputeFirst(n + 1, j)
      PROVE  ComputeFirst(n, j)'
  <2>1. PICK m \in DOMAIN copies : m <= j /\ copies[m].after >= n + 1
    BY <1>7 DEF ComputeFirst
  <2>2. copies[m].after \in Nat
    BY StreamEntries
  <2>3. OneLess(copies[m].after) >= n
    BY <2>1, <2>2 DEF OneLess
  <2> QED BY <1>2, <1>4, <2>1, <2>3 DEF ComputeFirst
<1>8. /\ compute' \in Seq(Work) /\ copies' \in Seq(Copy)
      /\ Len(compute') = Len(compute) - 1 /\ Len(copies') = Len(copies)
      /\ DOMAIN copies' = DOMAIN copies
      /\ \A j \in DOMAIN copies :
           copies'[j].layer = copies[j].layer /\ copies'[j].variant = copies[j].variant
  BY <1>2, <1>3, <1>4
<1>9. \A i \in DOMAIN compute' :
        i \in Nat /\ i >= 1 /\ i + 1 \in DOMAIN compute /\ compute'[i] = compute[i + 1]
  BY <1>2, <1>3
<1> QED BY <1>3, <1>5, <1>6, <1>7, <1>8, <1>9

(* The copy stream finishes the copy at its head. *)
LEMMA CopyShift ==
  ASSUME StreamTypeOK, RunCopy
  PROVE  /\ compute' \in Seq(Work) /\ copies' \in Seq(Copy)
         /\ Len(compute') = Len(compute) /\ Len(copies') = Len(copies) - 1
         /\ 1 \in DOMAIN copies /\ Head(copies) = copies[1]
         /\ DOMAIN compute' = DOMAIN compute
         /\ \A j \in DOMAIN copies' :
              j \in Nat /\ j >= 1 /\ j + 1 \in DOMAIN copies /\ copies'[j] = copies[j + 1]
         /\ \A j \in DOMAIN copies : j = 1 \/ j - 1 \in DOMAIN copies'
         /\ \A i \in DOMAIN compute :
              /\ compute'[i].kind = compute[i].kind /\ compute'[i].layer = compute[i].layer
              /\ compute'[i].variant = compute[i].variant
              /\ compute'[i].kv = compute[i].kv /\ compute'[i].first = compute[i].first
         /\ \A i \in DOMAIN compute : ~ComputeFirst(i, 1)
         /\ \A i \in DOMAIN compute, n \in Nat : ComputeFirst(i, n + 1) => ComputeFirst(i, n)'
         /\ \A n \in Nat \ {0}, i \in Nat : CopyFirst(n + 1, i) => CopyFirst(n, i)'
<1>1. compute \in Seq(Work) /\ copies \in Seq(Copy) /\ copies # <<>>
  BY DEF StreamTypeOK, RunCopy, CopyRuns
<1>2. copies' = Tail(copies) /\ compute' = Released(compute) /\ Head(copies).after = 0
  BY DEF RunCopy, CopyRuns
<1>3. /\ Tail(copies) \in Seq(Copy) /\ Head(copies) = copies[1] /\ 1 \in DOMAIN copies
      /\ Len(Tail(copies)) = Len(copies) - 1 /\ Len(copies) \in Nat \ {0}
      /\ DOMAIN copies = 1 .. Len(copies)
      /\ DOMAIN Tail(copies) = 1 .. Len(copies) - 1
      /\ \A j \in DOMAIN Tail(copies) : j + 1 \in DOMAIN copies /\ Tail(copies)[j] = copies[j + 1]
  BY <1>1, QueueTail
<1>4. /\ Released(compute) \in Seq(Work)
      /\ DOMAIN Released(compute) = DOMAIN compute /\ Len(Released(compute)) = Len(compute)
      /\ \A i \in DOMAIN compute :
           /\ Released(compute)[i].kind = compute[i].kind
           /\ Released(compute)[i].layer = compute[i].layer
           /\ Released(compute)[i].variant = compute[i].variant
           /\ Released(compute)[i].kv = compute[i].kv
           /\ Released(compute)[i].first = compute[i].first
           /\ Released(compute)[i].after = OneLess(compute[i].after)
  BY <1>1, WorkReleased
<1>5. \A i \in DOMAIN compute : ~ComputeFirst(i, 1)
  BY <1>2, <1>3, StreamEntries DEF ComputeFirst
<1>6. ASSUME NEW i \in DOMAIN compute, NEW n \in Nat, ComputeFirst(i, n + 1)
      PROVE  ComputeFirst(i, n)'
  <2>1. PICK m \in DOMAIN copies : m <= n + 1 /\ copies[m].after >= i
    BY <1>6 DEF ComputeFirst
  <2>2. m # 1 /\ m \in Nat /\ m >= 1
    BY <1>2, <1>3, <2>1, StreamEntries
  <2>3. m - 1 \in DOMAIN Tail(copies) /\ m - 1 <= n /\ (m - 1) + 1 = m
    BY <1>3, <2>1, <2>2
  <2>4. Tail(copies)[m - 1].after >= i
    BY <1>3, <2>1, <2>3
  <2> QED BY <1>2, <2>3, <2>4 DEF ComputeFirst
<1>7. ASSUME NEW n \in Nat \ {0}, NEW i \in Nat, CopyFirst(n + 1, i)
      PROVE  CopyFirst(n, i)'
  <2>1. PICK m \in DOMAIN compute : m <= i /\ compute[m].after >= n + 1
    BY <1>7 DEF CopyFirst
  <2>2. compute[m].after \in Nat
    BY StreamEntries
  <2>3. OneLess(compute[m].after) >= n
    BY <2>1, <2>2 DEF OneLess
  <2> QED BY <1>2, <1>4, <2>1, <2>3 DEF CopyFirst
<1>8. /\ compute' \in Seq(Work) /\ copies' \in Seq(Copy)
      /\ Len(compute') = Len(compute) /\ Len(copies') = Len(copies) - 1
      /\ DOMAIN compute' = DOMAIN compute
  BY <1>2, <1>3, <1>4
<1>9. \A i \in DOMAIN compute :
        /\ compute'[i].kind = compute[i].kind /\ compute'[i].layer = compute[i].layer
        /\ compute'[i].variant = compute[i].variant
        /\ compute'[i].kv = compute[i].kv /\ compute'[i].first = compute[i].first
  BY <1>2, <1>4
<1>10. /\ \A j \in DOMAIN copies' :
            j \in Nat /\ j >= 1 /\ j + 1 \in DOMAIN copies /\ copies'[j] = copies[j + 1]
       /\ \A j \in DOMAIN copies : j = 1 \/ j - 1 \in DOMAIN copies'
  BY <1>2, <1>3
<1> QED BY <1>3, <1>5, <1>6, <1>7, <1>8, <1>9, <1>10

(* What the coordinator holds while only a stream moves on. *)
LEMMA HostRests ==
  ASSUME UNCHANGED execVars
  PROVE  /\ UNCHANGED <<transformer_layers, kv_groups, is_block_free>>
         /\ BusyGroups(is_block_free)' = BusyGroups(is_block_free)
         /\ Elements(kv_groups)' = Elements(kv_groups)
BY DEF execVars, BusyGroups, Elements

(* What a finished operation of the compute stream leaves in the regions. *)
LEMMA ComputeWrites ==
  ASSUME StreamTypeOK, PassIsLast, RunCompute, NEW l \in Layers
  PROVE  /\ region' \in [Layers -> [head : {"fp16", "w4"}, tail : {"fp16", "zero", "kv"}]]
         /\ region'[l].head = region[l].head
         /\ ~ZeroesTail(1, l) /\ ~StoresFirst(1, l) => region'[l].tail = region[l].tail
         /\ ~ZeroesTail(1, l) /\ StoresFirst(1, l) => region'[l].tail = "kv"
<1>1. Head(compute) = compute[1] /\ 1 \in DOMAIN compute
  BY ComputeShift
<1>2. region' = [m \in Layers |-> [region[m] EXCEPT !.tail = TailAfter(compute[1], m)]]
  BY <1>1 DEF RunCompute
<1>3. compute[1].first # {} => compute[1].kind = "kernel"
  BY <1>1 DEF PassIsLast, IsKernel
<1>4. \A m \in Layers : region[m] \in [head : {"fp16", "w4"}, tail : {"fp16", "zero", "kv"}]
  BY DEF StreamTypeOK
<1>5. \A m \in Layers : TailAfter(compute[1], m) \in {"fp16", "zero", "kv"}
  BY <1>4 DEF TailAfter
<1>6. ~ZeroesTail(1, l) /\ ~StoresFirst(1, l) => TailAfter(compute[1], l) = region[l].tail
  BY DEF TailAfter, ZeroesTail, StoresFirst
<1>7. ~ZeroesTail(1, l) /\ StoresFirst(1, l) => TailAfter(compute[1], l) = "kv"
  BY <1>3 DEF TailAfter, ZeroesTail, StoresFirst
<1>8. region'[l] = [region[l] EXCEPT !.tail = TailAfter(compute[1], l)]
  BY <1>2
<1>9. region'[l].head = region[l].head /\ region'[l].tail = TailAfter(compute[1], l)
  BY <1>4, <1>8
<1>10. region' \in [Layers -> [head : {"fp16", "w4"}, tail : {"fp16", "zero", "kv"}]]
  BY <1>2, <1>4, <1>5
<1> QED BY <1>6, <1>7, <1>9, <1>10

(* The compute stream, finishing an operation, keeps the invariant. *)
LEMMA RunComputeKeeps ==
  ASSUME StreamTypeOK, StreamOrder, kv_groups \in Seq(Layers), RunCompute
  PROVE  StreamTypeOK' /\ StreamOrder'
<1> DEFINE n == Len(compute)
<1>a. /\ UNCHANGED <<transformer_layers, kv_groups, is_block_free, pending>>
      /\ BusyGroups(is_block_free)' = BusyGroups(is_block_free)
      /\ Elements(kv_groups)' = Elements(kv_groups)
      /\ last_forward' = OneLess(last_forward) /\ syncing' = (syncing /\ n > 1)
  BY HostRests DEF RunCompute
<1>b. /\ n \in Nat /\ DOMAIN compute = 1 .. n /\ last_forward \in Nat
      /\ \A j \in DOMAIN copies : j \in Nat /\ j >= 1 /\ copies[j].layer \in Layers
  BY StreamEntries
<1>c. /\ compute' \in Seq(Work) /\ copies' \in Seq(Copy)
      /\ Len(compute') = n - 1 /\ Len(copies') = Len(copies)
      /\ 1 \in DOMAIN compute
      /\ DOMAIN copies' = DOMAIN copies
      /\ \A i \in DOMAIN compute' :
           i \in Nat /\ i >= 1 /\ i + 1 \in DOMAIN compute /\ compute'[i] = compute[i + 1]
      /\ \A j \in DOMAIN copies :
           copies'[j].layer = copies[j].layer /\ copies'[j].variant = copies[j].variant
  BY ComputeShift
<1>d. /\ \A j \in DOMAIN copies : ~CopyFirst(j, 1)
      /\ \A j \in DOMAIN copies, i \in Nat : CopyFirst(j, i + 1) => CopyFirst(j, i)'
      /\ \A j \in DOMAIN copies, i \in Nat \ {0} : ComputeFirst(i + 1, j) => ComputeFirst(i, j)'
  BY ComputeShift
<1>e. ASSUME NEW i \in DOMAIN compute'
      PROVE  /\ IsKernel(i)' <=> IsKernel(i + 1)
             /\ \A l : ZeroesTail(i, l)' <=> ZeroesTail(i + 1, l)
             /\ \A l : StoresFirst(i, l)' <=> StoresFirst(i + 1, l)
  BY <1>c DEF IsKernel, ZeroesTail, StoresFirst
<1>f. /\ \A l : \A j \in DOMAIN copies : CopyOf(j, l)' <=> CopyOf(j, l)
      /\ \A l : \A j \in DOMAIN copies : LastCopyOf(j, l)' <=> LastCopyOf(j, l)
      /\ \A l : NotCopied(l)' <=> NotCopied(l)
  BY <1>c DEF CopyOf, LastCopyOf, NotCopied
<1>g. PICK r \in Nat : r + 1 = n /\ r = Len(compute')
  <2>1. n >= 1 /\ Len(compute') = n - 1
    BY <1>b, <1>c
  <2>2. Len(compute') \in Nat /\ Len(compute') + 1 = n
    BY <1>b, <2>1
  <2> QED BY <2>2
<1>0. StreamTypeOK'
  <2>1. region' \in [Layers -> [head : {"fp16", "w4"}, tail : {"fp16", "zero", "kv"}]]
    <3>1. 1 \in Layers
      BY ExecutorAssumption DEF Layers
    <3> QED BY <3>1, ComputeWrites DEF StreamOrder
  <2>2. last_forward' \in Nat /\ syncing' \in BOOLEAN
    BY <1>a, <1>b DEF OneLess, StreamTypeOK
  <2> QED BY <1>a, <1>c, <2>1, <2>2 DEF StreamTypeOK
<1>1. PassIsLast'
  <2> SUFFICES ASSUME NEW i \in DOMAIN compute'
               PROVE  /\ IsKernel(i)' => syncing' /\ \A m \in DOMAIN compute' : m >= i => IsKernel(m)'
                      /\ compute'[i].first # {} =>
                           IsKernel(i)' /\ compute'[i].first \subseteq compute'[i].kv
    BY DEF PassIsLast
  <2>1. i + 1 \in DOMAIN compute /\ compute'[i] = compute[i + 1] /\ n > 1 /\ i \in Nat
    BY <1>b, <1>c
  <2>2. IsKernel(i)' => syncing'
    BY <1>a, <1>e, <2>1 DEF StreamOrder, PassIsLast
  <2>3. ASSUME IsKernel(i)', NEW m \in DOMAIN compute', m >= i PROVE IsKernel(m)'
    <3>1. m + 1 \in DOMAIN compute /\ m + 1 >= i + 1
      BY <1>c, <2>1, <2>3
    <3> QED BY <1>e, <2>1, <2>3, <3>1 DEF StreamOrder, PassIsLast
  <2>4. compute'[i].first # {} => IsKernel(i)' /\ compute'[i].first \subseteq compute'[i].kv
    BY <1>e, <2>1 DEF StreamOrder, PassIsLast
  <2> QED BY <2>2, <2>3, <2>4
<1>2. PassFindsLayers'
  <2> SUFFICES ASSUME NEW i \in DOMAIN compute', IsKernel(i)'
               PROVE  /\ compute'[i].layer # OtherLayers =>
                           compute'[i].variant = transformer_layers'[compute'[i].layer]
                      /\ \A j \in DOMAIN copies' :
                           copies'[j].layer \in {compute'[i].layer} \cup compute'[i].kv
                             => CopyFirst(j, i)'
    BY DEF PassFindsLayers
  <2>1. i + 1 \in DOMAIN compute /\ compute'[i] = compute[i + 1] /\ i \in Nat /\ IsKernel(i + 1)
    BY <1>c, <1>e
  <2> QED BY <1>a, <1>c, <1>d, <2>1 DEF StreamOrder, PassFindsLayers
<1>3. ZeroesOrdered'
  <2> SUFFICES ASSUME NEW i \in DOMAIN compute', NEW j \in DOMAIN copies',
                      ZeroesTail(i, copies[j].layer)', copies'[j].variant = "fp16"
               PROVE  CopyFirst(j, i)' \/ ComputeFirst(i, j)'
    BY DEF ZeroesOrdered
  <2>1. i + 1 \in DOMAIN compute /\ i \in Nat \ {0} /\ j \in DOMAIN copies
    BY <1>c
  <2>2. ZeroesTail(i + 1, copies[j].layer) /\ copies[j].variant = "fp16"
    BY <1>c, <2>1 DEF ZeroesTail
  <2>3. CopyFirst(j, i + 1) \/ ComputeFirst(i + 1, j)
    BY <2>1, <2>2 DEF StreamOrder, ZeroesOrdered
  <2> QED BY <1>d, <2>1, <2>3
<1>4. CopiesCovered'
  <2>1. \A l \in Layers : pending'[l] <= Len(copies')
    BY <1>a, <1>c DEF StreamOrder, CopiesCovered
  <2>2. ASSUME NEW j \in DOMAIN copies'
        PROVE  j <= pending'[copies'[j].layer] \/ CopyFirst(j, Len(compute))'
    <3>1. j \in DOMAIN copies
      BY <1>c
    <3>2. CASE j <= pending[copies[j].layer]
      BY <1>a, <1>c, <3>1, <3>2
    <3>3. CASE CopyFirst(j, n)
      <4>1. CopyFirst(j, r)'
        BY <1>d, <1>g, <3>1, <3>3
      <4> QED BY <1>g, <4>1 DEF CopyFirst
    <3> QED BY <3>1, <3>2, <3>3 DEF StreamOrder, CopiesCovered
  <2> QED BY <2>1, <2>2 DEF CopiesCovered
<1>5. LentCopiesWaited'
  <2> SUFFICES ASSUME NEW j \in DOMAIN copies', copies'[j].layer \in Elements(kv_groups)'
               PROVE  CopyFirst(j, Len(compute))'
    BY DEF LentCopiesWaited
  <2>1. j \in DOMAIN copies
    BY <1>c
  <2>2. CopyFirst(j, n)
    BY <1>a, <1>c, <2>1 DEF StreamOrder, LentCopiesWaited
  <2>3. CopyFirst(j, r)'
    BY <1>d, <1>g, <2>1, <2>2
  <2> QED BY <1>g, <2>3 DEF CopyFirst
<1>6. ZeroesOfLent'
  <2> SUFFICES ASSUME NEW i \in DOMAIN compute', compute'[i].kind = "zero", i > last_forward'
               PROVE  compute'[i].layer \in Elements(kv_groups)'
    BY DEF ZeroesOfLent
  <2>1. i + 1 > last_forward /\ i + 1 \in DOMAIN compute /\ compute'[i] = compute[i + 1]
    BY <1>a, <1>b, <1>c DEF OneLess
  <2> QED BY <1>a, <2>1 DEF StreamOrder, ZeroesOfLent
<1>7. WillBeInstalled'
  <2> SUFFICES ASSUME NEW l \in Layers
               PROVE  /\ \A j \in DOMAIN copies' :
                           LastCopyOf(j, l)' => copies'[j].variant = transformer_layers'[l]
                      /\ NotCopied(l)' =>
                           /\ region'[l].head = transformer_layers'[l]
                           /\ transformer_layers'[l] = "fp16" => region'[l].tail = "fp16"
                      /\ transformer_layers'[l] = "fp16" =>
                           \A i \in DOMAIN compute' : ZeroesTail(i, l)' \/ StoresFirst(i, l)' =>
                             \E j \in DOMAIN copies' : CopyOf(j, l)' /\ ComputeFirst(i, j)'
    BY DEF WillBeInstalled
  <2>1. \A j \in DOMAIN copies' : LastCopyOf(j, l)' => copies'[j].variant = transformer_layers'[l]
    BY <1>a, <1>c, <1>f DEF StreamOrder, WillBeInstalled
  <2>2. ASSUME NotCopied(l)'
        PROVE  /\ region'[l].head = transformer_layers'[l]
               /\ transformer_layers'[l] = "fp16" => region'[l].tail = "fp16"
    <3>1. NotCopied(l)
      BY <1>f, <2>2
    <3>2. /\ region[l].head = transformer_layers[l]
          /\ transformer_layers[l] = "fp16" => region[l].tail = "fp16"
      BY <3>1 DEF StreamOrder, WillBeInstalled
    <3>3. transformer_layers[l] = "fp16" => ~ZeroesTail(1, l) /\ ~StoresFirst(1, l)
      BY <1>c, <3>1 DEF StreamOrder, WillBeInstalled, NotCopied
    <3> QED BY <1>a, <3>2, <3>3, ComputeWrites DEF StreamOrder
  <2>3. ASSUME transformer_layers'[l] = "fp16", NEW i \in DOMAIN compute',
               ZeroesTail(i, l)' \/ StoresFirst(i, l)'
        PROVE  \E j \in DOMAIN copies' : CopyOf(j, l)' /\ ComputeFirst(i, j)'
    <3>1. i + 1 \in DOMAIN compute /\ i \in Nat \ {0}
      BY <1>c
    <3>2. ZeroesTail(i + 1, l) \/ StoresFirst(i + 1, l)
      BY <1>e, <2>3
    <3>3. PICK j \in DOMAIN copies : CopyOf(j, l) /\ ComputeFirst(i + 1, j)
      BY <1>a, <2>3, <3>1, <3>2 DEF StreamOrder, WillBeInstalled
    <3> QED BY <1>c, <1>d, <1>f, <3>1, <3>3
  <2> QED BY <2>1, <2>2, <2>3
<1>8. WillBeStored'
  <2> SUFFICES ASSUME NEW l \in BusyGroups(is_block_free)
               PROVE  \/ \E i \in DOMAIN compute' : StoresFirst(i, l)'
                      \/ /\ region'[l].tail = "kv" /\ NotCopied(l)'
                         /\ \A i \in DOMAIN compute' : ~ZeroesTail(i, l)'
    BY <1>a DEF WillBeStored
  <2>1. CASE \E i \in DOMAIN compute : StoresFirst(i, l)
    <3>1. PICK i \in DOMAIN compute : StoresFirst(i, l)
      BY <2>1
    <3>2. CASE i = 1
      <4>0. IsKernel(1) /\ l \in compute[1].kv
        BY <1>c, <3>1, <3>2 DEF StreamOrder, PassIsLast, StoresFirst
      <4>1. NotCopied(l)'
        <5>1. \A j \in DOMAIN copies : copies[j].layer # l
          BY <1>c, <1>d, <4>0 DEF StreamOrder, PassFindsLayers
        <5> QED BY <1>f, <5>1 DEF NotCopied, CopyOf
      <4>2. \A m \in DOMAIN compute' : ~ZeroesTail(m, l)'
        <5> SUFFICES ASSUME NEW m \in DOMAIN compute' PROVE ~ZeroesTail(m + 1, l)
          BY <1>e
        <5>1. IsKernel(m + 1)
          <6>1. m + 1 \in DOMAIN compute /\ m + 1 >= 1
            BY <1>c
          <6> QED BY <1>c, <4>0, <6>1 DEF StreamOrder, PassIsLast
        <5> QED BY <5>1 DEF IsKernel, ZeroesTail
      <4>3. l \in Layers
        BY DEF BusyGroups
      <4>4. ~ZeroesTail(1, l) /\ StoresFirst(1, l)
        BY <3>1, <3>2, <4>0 DEF IsKernel, ZeroesTail
      <4>5. region'[l].tail = "kv"
        BY <4>3, <4>4, ComputeWrites DEF StreamOrder
      <4> QED BY <4>1, <4>2, <4>5
    <3>3. CASE i # 1
      <4>1. i - 1 \in DOMAIN compute' /\ (i - 1) + 1 = i
        <5>1. DOMAIN compute' = 1 .. n - 1
          BY <1>c
        <5> QED BY <1>b, <3>3, <5>1
      <4>2. StoresFirst(i - 1, l)' <=> StoresFirst((i - 1) + 1, l)
        BY <1>e, <4>1
      <4> QED BY <3>1, <4>1, <4>2
    <3> QED BY <3>2, <3>3
  <2>2. CASE /\ region[l].tail = "kv" /\ NotCopied(l)
             /\ \A i \in DOMAIN compute : ~ZeroesTail(i, l)
             /\ ~\E i \in DOMAIN compute : StoresFirst(i, l)
    <3>1. l \in Layers
      BY DEF BusyGroups
    <3>2. NotCopied(l)' /\ \A i \in DOMAIN compute' : ~ZeroesTail(i, l)'
      BY <1>c, <1>e, <1>f, <2>2
    <3>3. region'[l].tail = "kv"
      BY <1>c, <2>2, <3>1, ComputeWrites DEF StreamOrder
    <3> QED BY <3>2, <3>3
  <2> QED BY <2>1, <2>2 DEF StreamOrder, WillBeStored
<1> QED BY <1>0, <1>1, <1>2, <1>3, <1>4, <1>5, <1>6, <1>7, <1>8 DEF StreamOrder

(* What a finished copy leaves in the regions. *)
LEMMA CopyWrites ==
  ASSUME StreamTypeOK, RunCopy, NEW l \in Layers
  PROVE  /\ region' \in [Layers -> [head : {"fp16", "w4"}, tail : {"fp16", "zero", "kv"}]]
         /\ ~CopyOf(1, l) => region'[l] = region[l]
         /\ CopyOf(1, l) => /\ region'[l].head = copies[1].variant
                            /\ copies[1].variant = "fp16" => region'[l].tail = "fp16"
<1> DEFINE done == copies[1]
           left == [head |-> done.variant,
                    tail |-> IF done.variant = "fp16" THEN "fp16" ELSE region[done.layer].tail]
<1>1. Head(copies) = done /\ 1 \in DOMAIN copies
  BY CopyShift
<1>2. done.layer \in Layers /\ done.variant \in {"fp16", "w4"}
  BY <1>1, StreamEntries
<1>3. \A m \in Layers : region[m] \in [head : {"fp16", "w4"}, tail : {"fp16", "zero", "kv"}]
  BY DEF StreamTypeOK
<1>4. region' = [region EXCEPT ![done.layer] = left]
  BY <1>1 DEF RunCopy
<1>5. left \in [head : {"fp16", "w4"}, tail : {"fp16", "zero", "kv"}]
  BY <1>2, <1>3
<1>6. region \in [Layers -> [head : {"fp16", "w4"}, tail : {"fp16", "zero", "kv"}]]
  BY DEF StreamTypeOK
<1>7. left.head = done.variant /\ (done.variant = "fp16" => left.tail = "fp16")
  OBVIOUS
<1> HIDE DEF left
<1>8. region' \in [Layers -> [head : {"fp16", "w4"}, tail : {"fp16", "zero", "kv"}]]
  BY <1>4, <1>5, <1>6
<1>9. region'[l] = IF l = done.layer THEN left ELSE region[l]
  BY <1>4, <1>6
<1> QED BY <1>7, <1>8, <1>9 DEF CopyOf

(* The copy stream, finishing a copy, keeps the invariant. *)
LEMMA RunCopyKeeps ==
  ASSUME StreamTypeOK, StreamOrder, kv_groups \in Seq(Layers), RunCopy
  PROVE  StreamTypeOK' /\ StreamOrder'
<1> DEFINE n == Len(copies)
<1>a. /\ UNCHANGED <<transformer_layers, kv_groups, is_block_free, last_forward, syncing>>
      /\ BusyGroups(is_block_free)' = BusyGroups(is_block_free)
      /\ Elements(kv_groups)' = Elements(kv_groups)
      /\ pending' = [l \in Layers |-> OneLess(pending[l])]
  BY HostRests DEF RunCopy
<1>b. /\ n \in Nat /\ DOMAIN copies = 1 .. n
      /\ Len(compute) \in Nat /\ DOMAIN compute = 1 .. Len(compute)
      /\ \A l \in Layers : pending[l] \in Nat
      /\ \A i \in DOMAIN compute : i \in Nat /\ i >= 1
      /\ \A j \in DOMAIN copies : j \in Nat /\ j >= 1 /\ copies[j].layer \in Layers
  BY StreamEntries
<1>c. /\ compute' \in Seq(Work) /\ copies' \in Seq(Copy)
      /\ Len(compute') = Len(compute) /\ Len(copies') = n - 1
      /\ 1 \in DOMAIN copies
      /\ DOMAIN compute' = DOMAIN compute
      /\ \A j \in DOMAIN copies' :
           j \in Nat /\ j >= 1 /\ j + 1 \in DOMAIN copies /\ copies'[j] = copies[j + 1]
      /\ \A j \in DOMAIN copies : j = 1 \/ j - 1 \in DOMAIN copies'
      /\ \A i \in DOMAIN compute :
           /\ compute'[i].kind = compute[i].kind /\ compute'[i].layer = compute[i].layer
           /\ compute'[i].variant = compute[i].variant
           /\ compute'[i].kv = compute[i].kv /\ compute'[i].first = compute[i].first
  BY CopyShift
<1>d. /\ \A i \in DOMAIN compute : ~ComputeFirst(i, 1)
      /\ \A i \in DOMAIN compute, j \in Nat : ComputeFirst(i, j + 1) => ComputeFirst(i, j)'
      /\ \A j \in Nat \ {0}, i \in Nat : CopyFirst(j + 1, i) => CopyFirst(j, i)'
  BY CopyShift
<1>e. \A i \in DOMAIN compute :
        /\ IsKernel(i)' <=> IsKernel(i)
        /\ \A l : ZeroesTail(i, l)' <=> ZeroesTail(i, l)
        /\ \A l : StoresFirst(i, l)' <=> StoresFirst(i, l)
  BY <1>c DEF IsKernel, ZeroesTail, StoresFirst
<1>f. /\ \A l : \A j \in DOMAIN copies' : CopyOf(j, l)' <=> CopyOf(j + 1, l)
      /\ \A l : \A j \in DOMAIN copies' : LastCopyOf(j, l)' => LastCopyOf(j + 1, l)
      /\ \A l : NotCopied(l)' => NotCopied(l) \/ LastCopyOf(1, l)
      /\ \A l : NotCopied(l) => NotCopied(l)'
  <2>1. \A l : \A j \in DOMAIN copies' : CopyOf(j, l)' <=> CopyOf(j + 1, l)
    BY <1>c DEF CopyOf
  <2>2. ASSUME NEW m \in DOMAIN copies, m # 1
        PROVE  m - 1 \in DOMAIN copies' /\ (m - 1) + 1 = m
    BY <1>b, <1>c, <2>2
  <2>3. \A l : \A m \in DOMAIN copies : m # 1 => (CopyOf(m - 1, l)' <=> CopyOf(m, l))
    <3> SUFFICES ASSUME NEW m \in DOMAIN copies, NEW l, m # 1
                 PROVE  copies'[m - 1].layer = l <=> copies[m].layer = l
      BY DEF CopyOf
    <3> QED BY <1>c, <2>2
  <2>4. ASSUME NEW j \in DOMAIN copies', NEW l, LastCopyOf(j, l)'
        PROVE  LastCopyOf(j + 1, l)
    <3>1. j \in Nat /\ j + 1 \in DOMAIN copies /\ CopyOf(j + 1, l)
      BY <1>c, <2>1, <2>4 DEF LastCopyOf
    <3>2. ASSUME NEW m \in DOMAIN copies, m > j + 1 PROVE ~CopyOf(m, l)
      <4>1. m # 1 /\ m - 1 > j /\ m - 1 \in DOMAIN copies'
        BY <1>b, <2>2, <3>1, <3>2
      <4>2. ~(copies'[m - 1].layer = l)
        BY <2>4, <4>1 DEF LastCopyOf, CopyOf
      <4> QED BY <1>c, <2>2, <4>1, <4>2 DEF CopyOf
    <3> QED BY <3>1, <3>2 DEF LastCopyOf
  <2>5. ASSUME NEW l, NotCopied(l)' PROVE NotCopied(l) \/ LastCopyOf(1, l)
    <3>1. \A m \in DOMAIN copies : m # 1 => ~CopyOf(m, l)
      <4> SUFFICES ASSUME NEW m \in DOMAIN copies, m # 1 PROVE copies[m].layer # l
        BY DEF CopyOf
      <4>1. m - 1 \in DOMAIN copies' /\ copies'[m - 1] = copies[m]
        BY <1>c, <2>2
      <4>2. copies'[m - 1].layer # l
        BY <2>5, <4>1 DEF NotCopied, CopyOf
      <4> QED BY <4>1, <4>2
    <3> QED BY <1>b, <3>1 DEF NotCopied, LastCopyOf
  <2>6. \A l : NotCopied(l) => NotCopied(l)'
    BY <1>c, <2>1 DEF NotCopied
  <2> QED BY <2>1, <2>4, <2>5, <2>6
<1>0. StreamTypeOK'
  <2>1. region' \in [Layers -> [head : {"fp16", "w4"}, tail : {"fp16", "zero", "kv"}]]
    <3>1. 1 \in Layers
      BY ExecutorAssumption DEF Layers
    <3> QED BY <3>1, CopyWrites
  <2>2. pending' \in [Layers -> Nat]
    BY <1>a, <1>b DEF OneLess
  <2> QED BY <1>a, <1>c, <2>1, <2>2 DEF StreamTypeOK
<1>1. PassIsLast'
  BY <1>a, <1>c, <1>e DEF StreamOrder, PassIsLast
<1>2. PassFindsLayers'
  <2> SUFFICES ASSUME NEW i \in DOMAIN compute', IsKernel(i)'
               PROVE  /\ compute'[i].layer # OtherLayers =>
                           compute'[i].variant = transformer_layers'[compute'[i].layer]
                      /\ \A j \in DOMAIN copies' :
                           copies'[j].layer \in {compute'[i].layer} \cup compute'[i].kv
                             => CopyFirst(j, i)'
    BY DEF PassFindsLayers
  <2>1. i \in DOMAIN compute /\ IsKernel(i) /\ i \in Nat
    BY <1>b, <1>c, <1>e
  <2>2. ASSUME NEW j \in DOMAIN copies',
               copies'[j].layer \in {compute'[i].layer} \cup compute'[i].kv
        PROVE  CopyFirst(j, i)'
    <3>1. j + 1 \in DOMAIN copies /\ j \in Nat \ {0}
          /\ copies[j + 1].layer \in {compute[i].layer} \cup compute[i].kv
      BY <1>c, <2>1, <2>2
    <3>2. CopyFirst(j + 1, i)
      BY <2>1, <3>1 DEF StreamOrder, PassFindsLayers
    <3> QED BY <1>d, <2>1, <3>1, <3>2
  <2>3. compute'[i].layer # OtherLayers =>
          compute'[i].variant = transformer_layers'[compute'[i].layer]
    BY <1>a, <1>c, <2>1 DEF StreamOrder, PassFindsLayers
  <2> QED BY <2>2, <2>3
<1>3. ZeroesOrdered'
  <2> SUFFICES ASSUME NEW i \in DOMAIN compute', NEW j \in DOMAIN copies',
                      ZeroesTail(i, copies[j].layer)', copies'[j].variant = "fp16"
               PROVE  CopyFirst(j, i)' \/ ComputeFirst(i, j)'
    BY DEF ZeroesOrdered
  <2>1. /\ i \in DOMAIN compute /\ i \in Nat /\ j + 1 \in DOMAIN copies /\ j \in Nat \ {0}
        /\ copies'[j] = copies[j + 1]
    BY <1>b, <1>c
  <2>2. ZeroesTail(i, copies[j + 1].layer) /\ copies[j + 1].variant = "fp16"
    BY <1>c, <2>1 DEF ZeroesTail
  <2>3. CopyFirst(j + 1, i) \/ ComputeFirst(i, j + 1)
    BY <2>1, <2>2 DEF StreamOrder, ZeroesOrdered
  <2> QED BY <1>d, <2>1, <2>3
<1>4. CopiesCovered'
  <2>1. ASSUME NEW l \in Layers PROVE pending'[l] <= Len(copies')
    <3>1. pending[l] <= n /\ pending[l] \in Nat /\ n >= 1
      BY <1>b, <1>c DEF StreamOrder, CopiesCovered
    <3>2. pending'[l] = OneLess(pending[l])
      BY <1>a
    <3> QED BY <1>b, <1>c, <3>1, <3>2 DEF OneLess
  <2>2. ASSUME NEW j \in DOMAIN copies'
        PROVE  j <= pending'[copies'[j].layer] \/ CopyFirst(j, Len(compute))'
    <3>1. /\ j + 1 \in DOMAIN copies /\ j \in Nat \ {0} /\ copies'[j] = copies[j + 1]
          /\ copies[j + 1].layer \in Layers
      BY <1>b, <1>c
    <3>2. CASE j + 1 <= pending[copies[j + 1].layer]
      <4>1. j <= OneLess(pending[copies[j + 1].layer])
        BY <1>b, <3>1, <3>2 DEF OneLess
      <4> QED BY <1>a, <3>1, <4>1
    <3>3. CASE CopyFirst(j + 1, Len(compute))
      <4>1. PICK i \in Nat : i = Len(compute)
        BY <1>b
      <4>2. CopyFirst(j, i)'
        BY <1>d, <3>1, <3>3, <4>1
      <4> QED BY <1>c, <4>1, <4>2 DEF CopyFirst
    <3> QED BY <3>1, <3>2, <3>3 DEF StreamOrder, CopiesCovered
  <2> QED BY <2>1, <2>2 DEF CopiesCovered
<1>5. LentCopiesWaited'
  <2> SUFFICES ASSUME NEW j \in DOMAIN copies', copies'[j].layer \in Elements(kv_groups)'
               PROVE  CopyFirst(j, Len(compute))'
    BY DEF LentCopiesWaited
  <2>1. j + 1 \in DOMAIN copies /\ j \in Nat \ {0} /\ copies'[j] = copies[j + 1]
    BY <1>c
  <2>2. PICK i \in Nat : i = Len(compute)
    BY <1>b
  <2>3. CopyFirst(j + 1, i)
    BY <1>a, <2>1, <2>2 DEF StreamOrder, LentCopiesWaited
  <2>4. CopyFirst(j, i)'
    BY <1>d, <2>1, <2>3
  <2> QED BY <1>c, <2>2, <2>4 DEF CopyFirst
<1>6. ZeroesOfLent'
  BY <1>a, <1>c DEF StreamOrder, ZeroesOfLent
<1>7. WillBeInstalled'
  <2> SUFFICES ASSUME NEW l \in Layers
               PROVE  /\ \A j \in DOMAIN copies' :
                           LastCopyOf(j, l)' => copies'[j].variant = transformer_layers'[l]
                      /\ NotCopied(l)' =>
                           /\ region'[l].head = transformer_layers'[l]
                           /\ transformer_layers'[l] = "fp16" => region'[l].tail = "fp16"
                      /\ transformer_layers'[l] = "fp16" =>
                           \A i \in DOMAIN compute' : ZeroesTail(i, l)' \/ StoresFirst(i, l)' =>
                             \E j \in DOMAIN copies' : CopyOf(j, l)' /\ ComputeFirst(i, j)'
    BY DEF WillBeInstalled
  <2>1. \A j \in DOMAIN copies' : LastCopyOf(j, l)' => copies'[j].variant = transformer_layers'[l]
    BY <1>a, <1>c, <1>f DEF StreamOrder, WillBeInstalled
  <2>2. ASSUME NotCopied(l)'
        PROVE  /\ region'[l].head = transformer_layers'[l]
               /\ transformer_layers'[l] = "fp16" => region'[l].tail = "fp16"
    <3>1. CASE NotCopied(l)
      <4>1. region'[l] = region[l]
        BY <1>c, <3>1, CopyWrites DEF NotCopied
      <4> QED BY <1>a, <3>1, <4>1 DEF StreamOrder, WillBeInstalled
    <3>2. CASE LastCopyOf(1, l)
      <4>1. copies[1].variant = transformer_layers[l]
        BY <1>c, <3>2 DEF StreamOrder, WillBeInstalled
      <4> QED BY <1>a, <3>2, <4>1, CopyWrites DEF LastCopyOf
    <3> QED BY <1>f, <2>2, <3>1, <3>2
  <2>3. ASSUME transformer_layers'[l] = "fp16", NEW i \in DOMAIN compute',
               ZeroesTail(i, l)' \/ StoresFirst(i, l)'
        PROVE  \E j \in DOMAIN copies' : CopyOf(j, l)' /\ ComputeFirst(i, j)'
    <3>1. PICK j \in DOMAIN copies : CopyOf(j, l) /\ ComputeFirst(i, j)
      BY <1>a, <1>c, <1>e, <2>3 DEF StreamOrder, WillBeInstalled
    <3>2. j # 1
      BY <1>c, <1>d, <3>1
    <3>3. PICK m \in DOMAIN copies' : m + 1 = j /\ m \in Nat
      BY <1>b, <1>c, <3>2
    <3> QED BY <1>c, <1>d, <1>f, <3>1, <3>3
  <2> QED BY <2>1, <2>2, <2>3
<1>8. WillBeStored'
  <2> SUFFICES ASSUME NEW l \in BusyGroups(is_block_free)
               PROVE  \/ \E i \in DOMAIN compute' : StoresFirst(i, l)'
                      \/ /\ region'[l].tail = "kv" /\ NotCopied(l)'
                         /\ \A i \in DOMAIN compute' : ~ZeroesTail(i, l)'
    BY <1>a DEF WillBeStored
  <2>1. CASE \E i \in DOMAIN compute : StoresFirst(i, l)
    BY <1>c, <1>e, <2>1
  <2>2. CASE /\ region[l].tail = "kv" /\ NotCopied(l)
             /\ \A i \in DOMAIN compute : ~ZeroesTail(i, l)
    <3>1. l \in Layers
      BY DEF BusyGroups
    <3>2. region'[l] = region[l]
      BY <1>c, <2>2, <3>1, CopyWrites DEF NotCopied
    <3> QED BY <1>c, <1>e, <1>f, <2>2, <3>2
  <2> QED BY <2>1, <2>2 DEF StreamOrder, WillBeStored
<1> QED BY <1>0, <1>1, <1>2, <1>3, <1>4, <1>5, <1>6, <1>7, <1>8 DEF StreamOrder

(* ----------------------------------------------------------------------- *)
(* What the host queues                                                    *)

(* A layer that is not lent holds no KV blocks. *)
LEMMA BusyIsLent == BusyGroups(is_block_free) \subseteq Elements(kv_groups)
BY DEF BusyGroups, Elements

(* A copy into a region that is not lent, queued with the module it is for, keeps the
   invariant. *)
LEMMA EnqueueKeeps ==
  ASSUME StreamTypeOK, StreamOrder, NEW l \in Layers, NEW v \in {"fp16", "w4"}, Enqueue(l, v),
         transformer_layers \in [Layers -> {"fp16", "w4"}],
         transformer_layers' = [transformer_layers EXCEPT ![l] = v],
         UNCHANGED <<kv_groups, is_block_free>>, l \notin Elements(kv_groups)
  PROVE  StreamTypeOK' /\ StreamOrder'
<1> DEFINE c == [layer |-> l, variant |-> v, after |-> last_forward]
<1>a. /\ BusyGroups(is_block_free)' = BusyGroups(is_block_free)
      /\ Elements(kv_groups)' = Elements(kv_groups)
      /\ UNCHANGED <<compute, last_forward, region, syncing>> /\ ~syncing
      /\ pending' = [pending EXCEPT ![l] = Len(copies) + 1]
      /\ copies' = Append(copies, c)
  BY DEF Enqueue, InOperation, QueuedCopy, BusyGroups, Elements
<1>b. /\ Len(copies) \in Nat /\ DOMAIN copies = 1 .. Len(copies)
      /\ \A i \in DOMAIN compute : i \in Nat /\ i >= 1
      /\ \A j \in DOMAIN copies : j \in Nat /\ j >= 1 /\ copies[j].layer \in Layers
      /\ last_forward \in Nat
      /\ \A m \in Layers : pending[m] \in Nat
  BY StreamEntries
<1>c. PICK n \in Nat \ {0} : n = Len(copies) + 1
  BY <1>b
<1>d. c \in Copy /\ c.layer = l /\ c.variant = v /\ c.after = last_forward
  BY <1>b DEF Copy
<1> HIDE DEF c
<1>e. /\ copies' \in Seq(Copy) /\ Len(copies') = n
      /\ DOMAIN copies' = 1 .. n /\ n \in DOMAIN copies' /\ n \notin DOMAIN copies
      /\ \A j \in DOMAIN copies : j \in DOMAIN copies' /\ copies'[j] = copies[j] /\ j < n
      /\ \A j \in DOMAIN copies' : j \in DOMAIN copies \/ j = n
      /\ copies'[n] = c
  <2>1. copies \in Seq(Copy)
    BY DEF StreamTypeOK
  <2>2. /\ Append(copies, c) \in Seq(Copy)
        /\ Len(Append(copies, c)) = Len(copies) + 1
        /\ DOMAIN Append(copies, c) = 1 .. Len(copies) + 1
        /\ \A i \in DOMAIN copies : i \in DOMAIN Append(copies, c) /\ Append(copies, c)[i] = copies[i]
        /\ Append(copies, c)[Len(copies) + 1] = c
    BY <1>d, <2>1, QueueAppended
  <2> HIDE DEF c
  <2> QED BY <1>a, <1>b, <1>c, <2>2
<1>f. /\ \A j, i : CopyFirst(j, i)' <=> CopyFirst(j, i)
      /\ \A i : IsKernel(i)' <=> IsKernel(i)
      /\ \A i, m : (ZeroesTail(i, m)' <=> ZeroesTail(i, m)) /\ (StoresFirst(i, m)' <=> StoresFirst(i, m))
  BY <1>a DEF CopyFirst, IsKernel, ZeroesTail, StoresFirst
<1>g. \A i, j : ComputeFirst(i, j) => ComputeFirst(i, j)'
  BY <1>e DEF ComputeFirst
<1>h. \A i \in DOMAIN compute : ~IsKernel(i) /\ compute[i].first = {}
  BY <1>a DEF StreamOrder, PassIsLast
<1>i. \A i \in DOMAIN compute : i <= last_forward => ComputeFirst(i, n)'
  BY <1>b, <1>d, <1>e DEF ComputeFirst
<1>j. \A i \in DOMAIN compute : ZeroesTail(i, l) => ComputeFirst(i, n)'
  <2> SUFFICES ASSUME NEW i \in DOMAIN compute, ZeroesTail(i, l) PROVE i <= last_forward
    BY <1>i
  <2>1. ~(i > last_forward)
    BY DEF ZeroesTail, StreamOrder, ZeroesOfLent
  <2> QED BY <1>b, <2>1
<1>0. StreamTypeOK'
  <2>1. pending' \in [Layers -> Nat]
    BY <1>a, <1>b DEF StreamTypeOK
  <2> QED BY <1>a, <1>e, <2>1 DEF StreamTypeOK
<1>1. PassIsLast'
  BY <1>a, <1>h, <1>f DEF PassIsLast
<1>2. PassFindsLayers'
  BY <1>a, <1>h, <1>f DEF PassFindsLayers
<1>3. ZeroesOrdered'
  <2> SUFFICES ASSUME NEW i \in DOMAIN compute, NEW j \in DOMAIN copies',
                      ZeroesTail(i, copies'[j].layer), copies'[j].variant = "fp16"
               PROVE  CopyFirst(j, i)' \/ ComputeFirst(i, j)'
    BY <1>a, <1>f DEF ZeroesOrdered, ZeroesTail
  <2>1. CASE j \in DOMAIN copies
    BY <1>e, <1>f, <1>g, <2>1 DEF StreamOrder, ZeroesOrdered
  <2>2. CASE j = n
    BY <1>d, <1>e, <1>j, <2>2
  <2> QED BY <1>e, <2>1, <2>2
<1>4. CopiesCovered'
  <2>1. \A m \in Layers : pending'[m] = IF m = l THEN n ELSE pending[m]
    BY <1>a, <1>c DEF StreamTypeOK
  <2>2. ASSUME NEW m \in Layers PROVE pending'[m] <= Len(copies')
    <3>1. pending[m] <= Len(copies) /\ pending[m] \in Nat
      BY <1>b DEF StreamOrder, CopiesCovered
    <3> QED BY <1>b, <1>c, <1>e, <2>1, <3>1
  <2>3. ASSUME NEW j \in DOMAIN copies'
        PROVE  j <= pending'[copies'[j].layer] \/ CopyFirst(j, Len(compute))'
    <3>1. CASE j = n
      BY <1>d, <1>e, <2>1, <3>1
    <3>2. CASE j \in DOMAIN copies
      <4>1. copies'[j] = copies[j] /\ copies[j].layer \in Layers /\ j <= n
        BY <1>b, <1>c, <1>e, <3>2
      <4>2. j <= pending[copies[j].layer] \/ CopyFirst(j, Len(compute))
        BY <3>2 DEF StreamOrder, CopiesCovered
      <4>3. CASE CopyFirst(j, Len(compute))
        BY <1>a, <4>3 DEF CopyFirst
      <4>4. CASE j <= pending[copies[j].layer]
        BY <2>1, <4>1, <4>4
      <4> QED BY <4>2, <4>3, <4>4
    <3> QED BY <1>e, <3>1, <3>2
  <2> QED BY <2>2, <2>3 DEF CopiesCovered
<1>5. LentCopiesWaited'
  <2> SUFFICES ASSUME NEW j \in DOMAIN copies', copies'[j].layer \in Elements(kv_groups)
               PROVE  CopyFirst(j, Len(compute))'
    BY <1>a DEF LentCopiesWaited
  <2>1. j \in DOMAIN copies /\ copies'[j] = copies[j]
    BY <1>d, <1>e
  <2>2. CopyFirst(j, Len(compute))
    BY <2>1 DEF StreamOrder, LentCopiesWaited
  <2> QED BY <1>a, <2>2 DEF CopyFirst
<1>6. ZeroesOfLent'
  BY <1>a DEF StreamOrder, ZeroesOfLent
<1>7. WillBeInstalled'
  <2> SUFFICES ASSUME NEW m \in Layers
               PROVE  /\ \A j \in DOMAIN copies' :
                           LastCopyOf(j, m)' => copies'[j].variant = transformer_layers'[m]
                      /\ NotCopied(m)' =>
                           /\ region'[m].head = transformer_layers'[m]
                           /\ transformer_layers'[m] = "fp16" => region'[m].tail = "fp16"
                      /\ transformer_layers'[m] = "fp16" =>
                           \A i \in DOMAIN compute : ZeroesTail(i, m) \/ StoresFirst(i, m) =>
                             \E j \in DOMAIN copies' : CopyOf(j, m)' /\ ComputeFirst(i, j)'
    BY <1>a, <1>f DEF WillBeInstalled
  <2>1. CASE m = l
    <3>1. CopyOf(n, l)' /\ ~NotCopied(l)' /\ n \in DOMAIN copies'
      BY <1>d, <1>e DEF CopyOf, NotCopied
    <3>2. ASSUME NEW j \in DOMAIN copies', LastCopyOf(j, l)'
          PROVE  copies'[j].variant = v
      <4>1. ~(n > j)
        BY <3>1, <3>2 DEF LastCopyOf, CopyOf
      <4>2. j = n
        BY <1>b, <1>e, <4>1
      <4> QED BY <1>d, <1>e, <4>2
    <3>3. \A i \in DOMAIN compute : ~StoresFirst(i, l)
      BY <1>h DEF StoresFirst
    <3> QED BY <1>j, <2>1, <3>1, <3>2, <3>3
  <2>2. CASE m # l
    <3>1. transformer_layers'[m] = transformer_layers[m]
      BY <2>2
    <3>2. /\ \A j \in DOMAIN copies' : CopyOf(j, m)' <=> j \in DOMAIN copies /\ CopyOf(j, m)
          /\ \A j \in DOMAIN copies' : LastCopyOf(j, m)' => j \in DOMAIN copies /\ LastCopyOf(j, m)
          /\ NotCopied(m)' => NotCopied(m)
      <4>1. \A j \in DOMAIN copies' : CopyOf(j, m)' <=> j \in DOMAIN copies /\ CopyOf(j, m)
        BY <1>d, <1>e, <2>2 DEF CopyOf
      <4>2. \A j \in DOMAIN copies' : LastCopyOf(j, m)' => j \in DOMAIN copies /\ LastCopyOf(j, m)
        BY <1>e, <4>1 DEF LastCopyOf
      <4> QED BY <1>e, <4>1, <4>2 DEF NotCopied
    <3>3. \A j \in DOMAIN copies' : LastCopyOf(j, m)' => copies'[j].variant = transformer_layers[m]
      BY <1>e, <3>2 DEF StreamOrder, WillBeInstalled
    <3>4. NotCopied(m)' => /\ region[m].head = transformer_layers[m]
                           /\ transformer_layers[m] = "fp16" => region[m].tail = "fp16"
      BY <3>2 DEF StreamOrder, WillBeInstalled
    <3>5. ASSUME transformer_layers[m] = "fp16", NEW i \in DOMAIN compute,
                 ZeroesTail(i, m) \/ StoresFirst(i, m)
          PROVE  \E j \in DOMAIN copies' : CopyOf(j, m)' /\ ComputeFirst(i, j)'
      <4>1. PICK j \in DOMAIN copies : CopyOf(j, m) /\ ComputeFirst(i, j)
        BY <3>5 DEF StreamOrder, WillBeInstalled
      <4> QED BY <1>e, <1>g, <3>2, <4>1
    <3> QED BY <1>a, <3>1, <3>3, <3>4, <3>5
  <2> QED BY <2>1, <2>2
<1>8. WillBeStored'
  <2> SUFFICES ASSUME NEW m \in BusyGroups(is_block_free)
               PROVE  \/ \E i \in DOMAIN compute : StoresFirst(i, m)
                      \/ /\ region[m].tail = "kv" /\ NotCopied(m)'
                         /\ \A i \in DOMAIN compute : ~ZeroesTail(i, m)
    BY <1>a, <1>f DEF WillBeStored
  <2>1. m # l
    BY BusyIsLent
  <2>2. NotCopied(m) => NotCopied(m)'
    BY <1>d, <1>e, <2>1 DEF NotCopied, CopyOf
  <2> QED BY <2>2 DEF StreamOrder, WillBeStored
<1> QED BY <1>0, <1>1, <1>2, <1>3, <1>4, <1>5, <1>6, <1>7, <1>8 DEF StreamOrder

(* A wait or a zeroing queued on the compute stream keeps the invariant: it waits for the
   copies whose events it takes away, and what is zeroed is a lent region that no request
   uses yet, or is covered by the event that later copies wait for. *)
LEMMA AppendKeeps ==
  ASSUME StreamTypeOK, StreamOrder, ~syncing, UNCHANGED <<transformer_layers, copies, region, syncing>>,
         NEW w \in Work, w.kind \in {"wait", "zero"}, w.first = {}, compute' = Append(compute, w),
         NEW awaited \in SUBSET Layers, \A l \in awaited : pending[l] <= w.after,
         pending' = [l \in Layers |-> IF l \in awaited THEN 0 ELSE pending[l]],
         w.kind = "zero" => /\ w.layer \in awaited /\ transformer_layers[w.layer] # "fp16"
                            /\ w.layer \notin BusyGroups(is_block_free),
         BusyGroups(is_block_free)' \subseteq BusyGroups(is_block_free),
         Elements(kv_groups)' \subseteq Elements(kv_groups) \cup awaited,
         last_forward' \in Nat,
         \/ last_forward' = Len(compute')
         \/ /\ last_forward' = last_forward /\ Elements(kv_groups) \subseteq Elements(kv_groups)'
            /\ w.kind = "zero" => w.layer \in Elements(kv_groups)'
  PROVE  StreamTypeOK' /\ StreamOrder'
<1>b. /\ Len(compute) \in Nat /\ DOMAIN compute = 1 .. Len(compute)
      /\ \A i \in DOMAIN compute : i \in Nat /\ i >= 1
      /\ \A j \in DOMAIN copies : j \in Nat /\ j >= 1 /\ copies[j].layer \in Layers
      /\ \A m \in Layers : pending[m] \in Nat
      /\ Len(copies) \in Nat
  BY StreamEntries
<1>c. PICK n \in Nat \ {0} : n = Len(compute) + 1
  BY <1>b
<1>e. /\ compute' \in Seq(Work) /\ Len(compute') = n
      /\ DOMAIN compute' = 1 .. n /\ n \in DOMAIN compute' /\ n \notin DOMAIN compute
      /\ \A i \in DOMAIN compute : i \in DOMAIN compute' /\ compute'[i] = compute[i] /\ i < n
      /\ \A i \in DOMAIN compute' : i \in DOMAIN compute \/ i = n
      /\ compute'[n] = w
  <2>1. compute \in Seq(Work)
    BY DEF StreamTypeOK
  <2>2. /\ Append(compute, w) \in Seq(Work)
        /\ Len(Append(compute, w)) = Len(compute) + 1
        /\ DOMAIN Append(compute, w) = 1 .. Len(compute) + 1
        /\ \A i \in DOMAIN compute : i \in DOMAIN Append(compute, w) /\ Append(compute, w)[i] = compute[i]
        /\ Append(compute, w)[Len(compute) + 1] = w
    BY <2>1, QueueAppended
  <2> QED BY <1>b, <1>c, <2>2
<1>f. /\ \A j, i : ComputeFirst(i, j)' <=> ComputeFirst(i, j)
      /\ \A j, l : CopyOf(j, l)' <=> CopyOf(j, l)
      /\ \A j, l : LastCopyOf(j, l)' <=> LastCopyOf(j, l)
      /\ \A l : NotCopied(l)' <=> NotCopied(l)
  BY DEF ComputeFirst, CopyOf, LastCopyOf, NotCopied
<1>g. /\ \A i, j : CopyFirst(j, i) => CopyFirst(j, i)'
      /\ \A j : CopyFirst(j, Len(compute)) => CopyFirst(j, n)'
  <2>1. \A i, j : CopyFirst(j, i) => CopyFirst(j, i)'
    BY <1>e DEF CopyFirst
  <2>2. \A j : CopyFirst(j, Len(compute)) => CopyFirst(j, n)'
    BY <1>b, <1>c, <1>e DEF CopyFirst
  <2> QED BY <2>1, <2>2
<1>h. \A i \in DOMAIN compute' : ~IsKernel(i)' /\ compute'[i].first = {}
  BY <1>e DEF StreamOrder, PassIsLast, IsKernel
<1>j. w.after \in Nat
  BY DEF Work
<1>k. \A j \in DOMAIN copies : copies[j].layer \in awaited => CopyFirst(j, n)'
  <2> SUFFICES ASSUME NEW j \in DOMAIN copies, copies[j].layer \in awaited
               PROVE  CopyFirst(j, n)'
    OBVIOUS
  <2>1. CASE j <= pending[copies[j].layer]
    <3>1. w.after >= j
      BY <1>b, <1>j, <2>1
    <3> QED BY <1>e, <3>1 DEF CopyFirst
  <2>2. CASE CopyFirst(j, Len(compute))
    BY <1>g, <2>2
  <2> QED BY <2>1, <2>2 DEF StreamOrder, CopiesCovered
<1>0. StreamTypeOK'
  <2>1. pending' \in [Layers -> Nat]
    BY <1>b
  <2> QED BY <1>e, <2>1 DEF StreamTypeOK
<1>1. PassIsLast'
  BY <1>h DEF PassIsLast
<1>2. PassFindsLayers'
  BY <1>h DEF PassFindsLayers
<1>3. ZeroesOrdered'
  <2> SUFFICES ASSUME NEW i \in DOMAIN compute', NEW j \in DOMAIN copies,
                      ZeroesTail(i, copies[j].layer)', copies[j].variant = "fp16"
               PROVE  CopyFirst(j, i)' \/ ComputeFirst(i, j)'
    BY DEF ZeroesOrdered, ZeroesTail
  <2>1. CASE i \in DOMAIN compute
    <3>1. ZeroesTail(i, copies[j].layer)
      BY <1>e, <2>1 DEF ZeroesTail
    <3>2. CopyFirst(j, i) \/ ComputeFirst(i, j)
      BY <2>1, <3>1 DEF StreamOrder, ZeroesOrdered
    <3> QED BY <1>f, <1>g, <3>2
  <2>2. CASE i = n
    <3>1. copies[j].layer \in awaited
      BY <1>e, <2>2 DEF ZeroesTail
    <3> QED BY <1>k, <2>2, <3>1
  <2> QED BY <1>e, <2>1, <2>2
<1>4. CopiesCovered'
  <2>1. \A l \in Layers : pending'[l] <= Len(copies)
    BY <1>b DEF StreamOrder, CopiesCovered
  <2>2. ASSUME NEW j \in DOMAIN copies
        PROVE  j <= pending'[copies[j].layer] \/ CopyFirst(j, n)'
    <3>1. CASE copies[j].layer \in awaited
      BY <1>k, <3>1
    <3>2. CASE copies[j].layer \notin awaited
      <4>1. pending'[copies[j].layer] = pending[copies[j].layer]
        BY <1>b, <3>2
      <4> QED BY <1>g, <4>1 DEF StreamOrder, CopiesCovered
    <3> QED BY <3>1, <3>2
  <2> QED BY <1>e, <2>1, <2>2 DEF CopiesCovered, CopyFirst
<1>5. LentCopiesWaited'
  <2> SUFFICES ASSUME NEW j \in DOMAIN copies, copies[j].layer \in Elements(kv_groups)'
               PROVE  CopyFirst(j, n)'
    BY <1>e DEF LentCopiesWaited, CopyFirst
  <2>1. CASE copies[j].layer \in Elements(kv_groups)
    BY <1>g, <2>1 DEF StreamOrder, LentCopiesWaited
  <2>2. CASE copies[j].layer \in awaited
    BY <1>k, <2>2
  <2> QED BY <2>1, <2>2
<1>6. ZeroesOfLent'
  <2> SUFFICES ASSUME NEW i \in DOMAIN compute', compute'[i].kind = "zero", i > last_forward'
               PROVE  compute'[i].layer \in Elements(kv_groups)'
    BY DEF ZeroesOfLent
  <2>1. last_forward' # Len(compute')
    BY <1>e
  <2>2. CASE i \in DOMAIN compute
    <3>1. compute[i].layer \in Elements(kv_groups)
      BY <1>e, <2>1, <2>2 DEF StreamOrder, ZeroesOfLent
    <3> QED BY <1>e, <2>1, <2>2, <3>1
  <2>3. CASE i = n
    BY <1>e, <2>1, <2>3
  <2> QED BY <1>e, <2>2, <2>3
<1>7. WillBeInstalled'
  <2> SUFFICES ASSUME NEW l \in Layers
               PROVE  /\ \A j \in DOMAIN copies :
                           LastCopyOf(j, l)' => copies[j].variant = transformer_layers[l]
                      /\ NotCopied(l)' =>
                           /\ region[l].head = transformer_layers[l]
                           /\ transformer_layers[l] = "fp16" => region[l].tail = "fp16"
                      /\ transformer_layers[l] = "fp16" =>
                           \A i \in DOMAIN compute' : ZeroesTail(i, l)' \/ StoresFirst(i, l)' =>
                             \E j \in DOMAIN copies : CopyOf(j, l)' /\ ComputeFirst(i, j)'
    BY DEF WillBeInstalled
  <2>1. ASSUME transformer_layers[l] = "fp16", NEW i \in DOMAIN compute',
               ZeroesTail(i, l)' \/ StoresFirst(i, l)'
        PROVE  \E j \in DOMAIN copies : CopyOf(j, l)' /\ ComputeFirst(i, j)'
    <3>1. i # n
      BY <1>e, <2>1 DEF ZeroesTail, StoresFirst
    <3>2. i \in DOMAIN compute /\ (ZeroesTail(i, l) \/ StoresFirst(i, l))
      BY <1>e, <2>1, <3>1 DEF ZeroesTail, StoresFirst
    <3>3. \E j \in DOMAIN copies : CopyOf(j, l) /\ ComputeFirst(i, j)
      BY <2>1, <3>2 DEF StreamOrder, WillBeInstalled
    <3> QED BY <1>f, <3>3
  <2> QED BY <1>f, <2>1 DEF StreamOrder, WillBeInstalled
<1>8. WillBeStored'
  <2> SUFFICES ASSUME NEW l \in BusyGroups(is_block_free)
               PROVE  \/ \E i \in DOMAIN compute' : StoresFirst(i, l)'
                      \/ /\ region[l].tail = "kv" /\ NotCopied(l)'
                         /\ \A i \in DOMAIN compute' : ~ZeroesTail(i, l)'
    BY DEF WillBeStored
  <2>1. CASE \E i \in DOMAIN compute : StoresFirst(i, l)
    BY <1>e, <2>1 DEF StoresFirst
  <2>2. CASE /\ region[l].tail = "kv" /\ NotCopied(l)
             /\ \A i \in DOMAIN compute : ~ZeroesTail(i, l)
    <3>1. \A i \in DOMAIN compute' : ~ZeroesTail(i, l)'
      BY <1>e, <2>2 DEF ZeroesTail
    <3> QED BY <1>f, <2>2, <3>1
  <2> QED BY <2>1, <2>2 DEF StreamOrder, WillBeStored
<1> QED BY <1>0, <1>1, <1>2, <1>3, <1>4, <1>5, <1>6, <1>7, <1>8 DEF StreamOrder

(* A step that queues nothing keeps the invariant: no module and no busy group appears, and
   groups are given up only once the zeroing of their memory is over or recorded. *)
LEMMA QuietKeeps ==
  ASSUME StreamTypeOK, StreamOrder,
         UNCHANGED <<transformer_layers, compute, copies, pending, region, syncing>>,
         BusyGroups(is_block_free)' \subseteq BusyGroups(is_block_free),
         Elements(kv_groups)' \subseteq Elements(kv_groups),
         \/ last_forward' = Len(compute)
         \/ last_forward' = last_forward /\ Elements(kv_groups) \subseteq Elements(kv_groups)'
         \/ last_forward' = last_forward /\ compute = <<>>
  PROVE  StreamTypeOK' /\ StreamOrder'
<1>b. /\ Len(compute) \in Nat /\ DOMAIN compute = 1 .. Len(compute) /\ last_forward \in Nat
      /\ \A i \in DOMAIN compute : i \in Nat /\ i >= 1
  BY StreamEntries
<1>f. /\ \A j, i : ComputeFirst(i, j)' <=> ComputeFirst(i, j)
      /\ \A j, i : CopyFirst(j, i)' <=> CopyFirst(j, i)
      /\ \A j : CopyFirst(j, Len(compute))' <=> CopyFirst(j, Len(compute))
      /\ \A j, l : CopyOf(j, l)' <=> CopyOf(j, l)
      /\ \A j, l : LastCopyOf(j, l)' <=> LastCopyOf(j, l)
      /\ \A l : NotCopied(l)' <=> NotCopied(l)
      /\ \A i : IsKernel(i)' <=> IsKernel(i)
      /\ \A i, l : ZeroesTail(i, l)' <=> ZeroesTail(i, l)
      /\ \A i, l : StoresFirst(i, l)' <=> StoresFirst(i, l)
  BY DEF ComputeFirst, CopyFirst, CopyOf, LastCopyOf, NotCopied, IsKernel, ZeroesTail, StoresFirst
<1>0. StreamTypeOK'
  BY <1>b DEF StreamTypeOK
<1>1. PassIsLast' /\ PassFindsLayers' /\ ZeroesOrdered'
  BY <1>f DEF StreamOrder, PassIsLast, PassFindsLayers, ZeroesOrdered, ZeroesTail
<1>2. CopiesCovered' /\ LentCopiesWaited'
  BY <1>f DEF StreamOrder, CopiesCovered, LentCopiesWaited
<1>3. ZeroesOfLent'
  <2> SUFFICES ASSUME NEW i \in DOMAIN compute, compute[i].kind = "zero", i > last_forward'
               PROVE  compute[i].layer \in Elements(kv_groups)'
    BY DEF ZeroesOfLent
  <2>1. last_forward' # Len(compute) /\ compute # <<>>
    BY <1>b
  <2> QED BY <2>1 DEF StreamOrder, ZeroesOfLent
<1>4. WillBeInstalled'
  BY <1>f DEF StreamOrder, WillBeInstalled
<1>5. WillBeStored'
  BY <1>f DEF StreamOrder, WillBeStored
<1> QED BY <1>0, <1>1, <1>2, <1>3, <1>4, <1>5 DEF StreamOrder

(* A pass, with the kernels of the model's other layers first. *)
LEMMA PassEntries ==
  ASSUME StreamTypeOK, transformer_layers \in [Layers -> {"fp16", "w4"}],
         NEW busy \in SUBSET Layers, NEW fresh \in SUBSET Layers
  PROVE  LET queued == compute \o Pass(busy, fresh)
         IN  /\ queued \in Seq(Work) /\ Len(queued) = Len(compute) + NumLayers + 1
             /\ DOMAIN queued = 1 .. Len(compute) + NumLayers + 1
             /\ \A i \in DOMAIN compute : i \in DOMAIN queued /\ queued[i] = compute[i]
             /\ \A i \in DOMAIN queued :
                  \/ i \in DOMAIN compute
                  \/ /\ i > Len(compute) /\ i - Len(compute) - 1 \in 0 .. NumLayers
                     /\ queued[i] = Kernel(i - Len(compute) - 1, busy, fresh)
             /\ Len(compute) + 1 \in DOMAIN queued
             /\ queued[Len(compute) + 1] = Kernel(OtherLayers, busy, fresh)
<1> DEFINE pass == Pass(busy, fresh)
           n == Len(compute)
           queued == compute \o pass
<1>0. NumLayers \in Nat \ {0}
  BY ExecutorAssumption
<1>1. compute \in Seq(Work) /\ n \in Nat /\ DOMAIN compute = 1 .. n
  BY StreamEntries DEF StreamTypeOK
<1>2. ASSUME NEW l \in 0 .. NumLayers PROVE Kernel(l, busy, fresh) \in Work
  <2>1. l # OtherLayers => l \in Layers
    BY <1>0 DEF Layers, OtherLayers
  <2>2. /\ (IF l = OtherLayers THEN "fp16" ELSE transformer_layers[l]) \in {"fp16", "w4"}
        /\ (IF l = OtherLayers THEN fresh ELSE {}) \in SUBSET Layers
        /\ (IF l = OtherLayers THEN 0 ELSE pending[l]) \in Nat
    BY <2>1 DEF StreamTypeOK
  <2>3. l \in Layers \cup {OtherLayers}
    BY <2>1
  <2> QED BY <2>2, <2>3 DEF Kernel, Work
<1>3. pass = [i \in 1 .. NumLayers + 1 |-> Kernel(i - 1, busy, fresh)]
  BY DEF Pass
<1>4. \A i \in 1 .. NumLayers + 1 : i - 1 \in 0 .. NumLayers
  BY <1>0
<1>5. pass \in [1 .. NumLayers + 1 -> Work]
  BY <1>2, <1>3, <1>4
<1>6. pass \in Seq(Work) /\ Len(pass) = NumLayers + 1 /\ DOMAIN pass = 1 .. NumLayers + 1
  BY <1>0, <1>5
<1>7. \A i \in 1 .. NumLayers + 1 : pass[i] = Kernel(i - 1, busy, fresh)
  BY <1>3
<1> HIDE DEF pass
<1>8. /\ queued \in Seq(Work) /\ Len(queued) = n + NumLayers + 1
      /\ DOMAIN queued = 1 .. n + NumLayers + 1
  BY <1>0, <1>1, <1>6
<1>9. \A i \in DOMAIN compute : i \in DOMAIN queued /\ queued[i] = compute[i]
  BY <1>0, <1>1, <1>6
<1>10. ASSUME NEW i \in DOMAIN queued, i \notin DOMAIN compute
       PROVE  /\ i > n /\ i - n - 1 \in 0 .. NumLayers
              /\ queued[i] = Kernel(i - n - 1, busy, fresh)
  <2>1. i \in Nat /\ i > n /\ i - n \in 1 .. NumLayers + 1 /\ i - n - 1 \in 0 .. NumLayers
    BY <1>0, <1>1, <1>8, <1>10
  <2>2. queued[i] = pass[i - n]
    BY <1>0, <1>1, <1>6, <1>8, <2>1
  <2> QED BY <1>7, <2>1, <2>2
<1>11. n + 1 \in DOMAIN queued /\ n + 1 \notin DOMAIN compute /\ (n + 1) - n - 1 = OtherLayers
  BY <1>0, <1>1, <1>8 DEF OtherLayers
<1>12. queued[n + 1] = Kernel(OtherLayers, busy, fresh)
  BY <1>10, <1>11
<1> QED BY <1>8, <1>9, <1>10, <1>11, <1>12 DEF pass

(* A forward pass keeps the invariant: its kernels wait for the layers' copies, and the
   groups it stores to are lent, so that their copies are already waited for. *)
LEMMA PassKeeps ==
  ASSUME StreamTypeOK, StreamOrder, PassQueued, kv_groups \in Seq(Layers),
         transformer_layers \in [Layers -> {"fp16", "w4"}],
         \A l \in Elements(kv_groups) : transformer_layers[l] = "w4"
  PROVE  StreamTypeOK' /\ StreamOrder'
<1> DEFINE busy == BusyGroups(is_block_free')
           fresh == busy \ BusyGroups(is_block_free)
           n == Len(compute)
<1>a. /\ UNCHANGED <<copies, region, transformer_layers, kv_groups>>
      /\ ~syncing /\ syncing' = TRUE
      /\ compute' = compute \o Pass(busy, fresh)
      /\ pending' = [l \in Layers |-> 0] /\ last_forward' = Len(compute')
      /\ BusyGroups(is_block_free)' = busy /\ Elements(kv_groups)' = Elements(kv_groups)
  BY DEF PassQueued, Forward, layerVars, BusyGroups, Elements
<1>b. /\ n \in Nat /\ DOMAIN compute = 1 .. n
      /\ \A j \in DOMAIN copies : j \in Nat /\ j >= 1 /\ copies[j].layer \in Layers
      /\ Len(copies) \in Nat
      /\ \A l \in Layers : pending[l] \in Nat
  BY StreamEntries
<1>c. busy \subseteq Elements(kv_groups) /\ busy \in SUBSET Layers /\ fresh \in SUBSET Layers
      /\ fresh \subseteq busy
  <2>1. \A i \in DOMAIN kv_groups : kv_groups[i] \in Layers
    OBVIOUS
  <2> QED BY <2>1 DEF BusyGroups, Elements
<1> HIDE DEF busy, fresh
<1>d. PICK r \in Nat : r = n
  BY <1>b
<1>e. /\ compute' \in Seq(Work) /\ Len(compute') \in Nat /\ Len(compute') >= r
      /\ \A i \in DOMAIN compute : i \in DOMAIN compute' /\ compute'[i] = compute[i]
      /\ \A i \in DOMAIN compute' :
           /\ i \in Nat /\ i >= 1 /\ i <= Len(compute')
           /\ i <= r => i \in DOMAIN compute
           /\ \/ i \in DOMAIN compute
              \/ /\ i > r /\ i - r - 1 \in 0 .. NumLayers
                 /\ compute'[i] = Kernel(i - r - 1, busy, fresh)
      /\ r + 1 \in DOMAIN compute' /\ compute'[r + 1] = Kernel(OtherLayers, busy, fresh)
  <2>1. LET queued == compute \o Pass(busy, fresh)
        IN  /\ queued \in Seq(Work) /\ Len(queued) = Len(compute) + NumLayers + 1
            /\ DOMAIN queued = 1 .. Len(compute) + NumLayers + 1
            /\ \A i \in DOMAIN compute : i \in DOMAIN queued /\ queued[i] = compute[i]
            /\ \A i \in DOMAIN queued :
                 \/ i \in DOMAIN compute
                 \/ /\ i > Len(compute) /\ i - Len(compute) - 1 \in 0 .. NumLayers
                    /\ queued[i] = Kernel(i - Len(compute) - 1, busy, fresh)
            /\ Len(compute) + 1 \in DOMAIN queued
            /\ queued[Len(compute) + 1] = Kernel(OtherLayers, busy, fresh)
    BY <1>c, PassEntries
  <2>2. NumLayers \in Nat
    BY ExecutorAssumption
  <2>3. /\ compute' \in Seq(Work) /\ Len(compute') = r + NumLayers + 1
        /\ DOMAIN compute' = 1 .. r + NumLayers + 1
        /\ \A i \in DOMAIN compute : i \in DOMAIN compute' /\ compute'[i] = compute[i]
        /\ \A i \in DOMAIN compute' :
             \/ i \in DOMAIN compute
             \/ /\ i > r /\ i - r - 1 \in 0 .. NumLayers
                /\ compute'[i] = Kernel(i - r - 1, busy, fresh)
        /\ r + 1 \in DOMAIN compute' /\ compute'[r + 1] = Kernel(OtherLayers, busy, fresh)
    BY <1>a, <1>d, <2>1
  <2>4. \A i \in DOMAIN compute' : i \in Nat /\ i >= 1 /\ i <= Len(compute') /\ (i <= r => i \in DOMAIN compute)
    BY <1>b, <1>d, <2>2, <2>3
  <2>5. Len(compute') \in Nat /\ Len(compute') >= r
    BY <2>2, <2>3
  <2> QED BY <2>3, <2>4, <2>5
<1>f. \A i \in DOMAIN compute : ~IsKernel(i) /\ compute[i].first = {}
  BY <1>a DEF StreamOrder, PassIsLast
<1>g. ASSUME NEW i \in DOMAIN compute', i \notin DOMAIN compute
      PROVE  /\ IsKernel(i)' /\ i > r /\ compute'[i].kv = busy
             /\ compute'[i].first \subseteq busy
             /\ compute'[i].layer \in Layers \cup {OtherLayers}
             /\ compute'[i].layer # OtherLayers =>
                  /\ compute'[i].variant = transformer_layers[compute'[i].layer]
                  /\ compute'[i].after = pending[compute'[i].layer]
  <2>1. i > r /\ i - r - 1 \in 0 .. NumLayers /\ compute'[i] = Kernel(i - r - 1, busy, fresh)
    BY <1>e, <1>g
  <2>2. i - r - 1 \in Layers \cup {OtherLayers}
    <3>1. \A m \in 0 .. NumLayers : m = 0 \/ m \in 1 .. NumLayers
      BY ExecutorAssumption
    <3> QED BY <2>1, <3>1 DEF Layers, OtherLayers
  <2> QED BY <1>c, <2>1, <2>2 DEF Kernel, IsKernel
<1>h. /\ \A j, i : ComputeFirst(i, j)' <=> ComputeFirst(i, j)
      /\ \A j, l : CopyOf(j, l)' <=> CopyOf(j, l)
      /\ \A j, l : LastCopyOf(j, l)' <=> LastCopyOf(j, l)
      /\ \A l : NotCopied(l)' <=> NotCopied(l)
  BY <1>a DEF ComputeFirst, CopyOf, LastCopyOf, NotCopied
<1>i. \A j, i : CopyFirst(j, i) => CopyFirst(j, i)'
  BY <1>e DEF CopyFirst
<1>j. ASSUME NEW j \in DOMAIN copies, CopyFirst(j, Len(compute)),
             NEW i \in DOMAIN compute', i > r
      PROVE  CopyFirst(j, i)'
  <2>1. PICK m \in DOMAIN compute : m <= r /\ compute[m].after >= j
    BY <1>d, <1>j DEF CopyFirst
  <2>2. m \in DOMAIN compute' /\ compute'[m] = compute[m] /\ m <= i
    BY <1>b, <1>e, <1>j, <2>1
  <2> QED BY <2>1, <2>2 DEF CopyFirst
<1>k. ASSUME NEW i \in DOMAIN compute', i \notin DOMAIN compute,
             NEW j \in DOMAIN copies, copies[j].layer \in {compute'[i].layer} \cup busy
      PROVE  CopyFirst(j, i)'
  <2>0. i > r
    BY <1>g, <1>k
  <2>1. CASE copies[j].layer \in busy
    <3>1. CopyFirst(j, Len(compute))
      BY <1>c, <2>1 DEF StreamOrder, LentCopiesWaited
    <3> QED BY <1>j, <2>0, <3>1
  <2>2. CASE copies[j].layer = compute'[i].layer
    <3>1. j <= pending[copies[j].layer] \/ CopyFirst(j, Len(compute))
      BY DEF StreamOrder, CopiesCovered
    <3>2. CASE CopyFirst(j, Len(compute))
      BY <1>j, <2>0, <3>2
    <3>3. CASE j <= pending[copies[j].layer]
      <4>1. copies[j].layer # OtherLayers /\ copies[j].layer \in Layers
        BY <1>b, ExecutorAssumption DEF Layers, OtherLayers
      <4>2. compute'[i].after >= j
        <5>1. compute'[i].after = pending[copies[j].layer]
          BY <1>g, <1>k, <2>2, <4>1
        <5> QED BY <1>b, <3>3, <4>1, <5>1
      <4>3. i <= i
        BY <1>e
      <4> QED BY <4>2, <4>3 DEF CopyFirst
    <3> QED BY <3>1, <3>2, <3>3
  <2> QED BY <1>k, <2>1, <2>2
<1>0. StreamTypeOK'
  <2>1. last_forward' \in Nat /\ syncing' \in BOOLEAN /\ pending' \in [Layers -> Nat]
    BY <1>a, <1>e
  <2> QED BY <1>a, <1>e, <2>1 DEF StreamTypeOK
<1>1. PassIsLast'
  <2> SUFFICES ASSUME NEW i \in DOMAIN compute'
               PROVE  /\ IsKernel(i)' => \A m \in DOMAIN compute' : m >= i => IsKernel(m)'
                      /\ compute'[i].first # {} =>
                           IsKernel(i)' /\ compute'[i].first \subseteq compute'[i].kv
    BY <1>a DEF PassIsLast
  <2>1. CASE i \in DOMAIN compute
    BY <1>e, <1>f, <2>1 DEF IsKernel
  <2>2. CASE i \notin DOMAIN compute
    <3>1. ASSUME NEW m \in DOMAIN compute', m >= i PROVE IsKernel(m)'
      <4>1. i > r
        BY <1>g, <2>2
      <4>2. m \notin DOMAIN compute
        BY <1>b, <1>d, <1>e, <3>1, <4>1
      <4> QED BY <1>g, <4>2
    <3> QED BY <1>g, <2>2, <3>1
  <2> QED BY <2>1, <2>2
<1>2. PassFindsLayers'
  <2> SUFFICES ASSUME NEW i \in DOMAIN compute', IsKernel(i)'
               PROVE  /\ compute'[i].layer # OtherLayers =>
                           compute'[i].variant = transformer_layers[compute'[i].layer]
                      /\ \A j \in DOMAIN copies :
                           copies[j].layer \in {compute'[i].layer} \cup compute'[i].kv
                             => CopyFirst(j, i)'
    BY <1>a DEF PassFindsLayers
  <2>1. i \notin DOMAIN compute
    BY <1>e, <1>f DEF IsKernel
  <2> QED BY <1>g, <1>k, <2>1
<1>3. ZeroesOrdered'
  <2> SUFFICES ASSUME NEW i \in DOMAIN compute', NEW j \in DOMAIN copies,
                      ZeroesTail(i, copies[j].layer)', copies[j].variant = "fp16"
               PROVE  CopyFirst(j, i)' \/ ComputeFirst(i, j)'
    BY <1>a DEF ZeroesOrdered, ZeroesTail
  <2>1. i \in DOMAIN compute
    BY <1>g DEF ZeroesTail, IsKernel
  <2>2. ZeroesTail(i, copies[j].layer)
    BY <1>a, <1>e, <2>1 DEF ZeroesTail
  <2>3. CopyFirst(j, i) \/ ComputeFirst(i, j)
    BY <2>1, <2>2 DEF StreamOrder, ZeroesOrdered
  <2> QED BY <1>h, <1>i, <2>3
<1>4. CopiesCovered'
  <2>1. \A l \in Layers : pending'[l] <= Len(copies')
    BY <1>a, <1>b
  <2>2. ASSUME NEW j \in DOMAIN copies PROVE CopyFirst(j, Len(compute))'
    <3>1. PICK i \in DOMAIN compute' : i \notin DOMAIN compute /\ compute'[i].layer = copies[j].layer
      <4>1. NumLayers \in Nat /\ copies[j].layer \in 1 .. NumLayers
        BY <1>b, ExecutorAssumption DEF Layers
      <4>2. DOMAIN compute' = 1 .. n + NumLayers + 1
        BY <1>a, <1>c, PassEntries
      <4>3. r + copies[j].layer + 1 \in DOMAIN compute'
        BY <1>d, <4>1, <4>2
      <4>4. r + copies[j].layer + 1 \notin DOMAIN compute
        BY <1>b, <1>d, <4>1
      <4>5. compute'[r + copies[j].layer + 1] =
              Kernel((r + copies[j].layer + 1) - r - 1, busy, fresh)
        BY <1>e, <4>3, <4>4
      <4>6. (r + copies[j].layer + 1) - r - 1 = copies[j].layer
        BY <4>1
      <4>7. compute'[r + copies[j].layer + 1] = Kernel(copies[j].layer, busy, fresh)
        BY <4>5, <4>6
      <4>8. compute'[r + copies[j].layer + 1].layer = copies[j].layer
        BY <4>7 DEF Kernel
      <4> QED BY <4>3, <4>4, <4>8
    <3>2. CopyFirst(j, i)'
      BY <1>k, <3>1
    <3> QED BY <1>e, <3>2 DEF CopyFirst
  <2> QED BY <1>a, <2>1, <2>2 DEF CopiesCovered
<1>5. LentCopiesWaited'
  <2> SUFFICES ASSUME NEW j \in DOMAIN copies, copies[j].layer \in Elements(kv_groups)
               PROVE  CopyFirst(j, Len(compute))'
    BY <1>a DEF LentCopiesWaited
  <2>1. CopyFirst(j, Len(compute))
    BY DEF StreamOrder, LentCopiesWaited
  <2>2. CopyFirst(j, r + 1)'
    <3>1. r + 1 > r
      OBVIOUS
    <3> QED BY <1>e, <1>j, <2>1, <3>1
  <2> QED BY <1>e, <2>2 DEF CopyFirst
<1>6. ZeroesOfLent'
  <2> SUFFICES ASSUME NEW i \in DOMAIN compute' PROVE ~(i > last_forward')
    BY DEF ZeroesOfLent
  <2> QED BY <1>a, <1>e
<1>7. WillBeInstalled'
  <2> SUFFICES ASSUME NEW l \in Layers
               PROVE  /\ \A j \in DOMAIN copies :
                           LastCopyOf(j, l)' => copies[j].variant = transformer_layers[l]
                      /\ NotCopied(l)' =>
                           /\ region[l].head = transformer_layers[l]
                           /\ transformer_layers[l] = "fp16" => region[l].tail = "fp16"
                      /\ transformer_layers[l] = "fp16" =>
                           \A i \in DOMAIN compute' : ZeroesTail(i, l)' \/ StoresFirst(i, l)' =>
                             \E j \in DOMAIN copies : CopyOf(j, l)' /\ ComputeFirst(i, j)'
    BY <1>a DEF WillBeInstalled
  <2>1. ASSUME transformer_layers[l] = "fp16", NEW i \in DOMAIN compute',
               ZeroesTail(i, l)' \/ StoresFirst(i, l)'
        PROVE  \E j \in DOMAIN copies : CopyOf(j, l)' /\ ComputeFirst(i, j)'
    <3>1. i \in DOMAIN compute
      BY <1>c, <1>g, <2>1 DEF ZeroesTail, StoresFirst, IsKernel
    <3>2. ZeroesTail(i, l) \/ StoresFirst(i, l)
      BY <1>e, <2>1, <3>1 DEF ZeroesTail, StoresFirst
    <3>3. \E j \in DOMAIN copies : CopyOf(j, l) /\ ComputeFirst(i, j)
      BY <2>1, <3>1, <3>2 DEF StreamOrder, WillBeInstalled
    <3> QED BY <1>h, <3>3
  <2> QED BY <1>h, <2>1 DEF StreamOrder, WillBeInstalled
<1>8. WillBeStored'
  <2> SUFFICES ASSUME NEW l \in busy
               PROVE  \/ \E i \in DOMAIN compute' : StoresFirst(i, l)'
                      \/ /\ region[l].tail = "kv" /\ NotCopied(l)'
                         /\ \A i \in DOMAIN compute' : ~ZeroesTail(i, l)'
    BY <1>a DEF WillBeStored
  <2>1. CASE l \in fresh
    <3>1. compute'[r + 1].first = fresh
      BY <1>e DEF Kernel
    <3> QED BY <1>e, <2>1, <3>1 DEF StoresFirst
  <2>2. CASE l \in BusyGroups(is_block_free)
    <3>1. \A i \in DOMAIN compute : ~StoresFirst(i, l)
      BY <1>f DEF StoresFirst
    <3>2. /\ region[l].tail = "kv" /\ NotCopied(l)
          /\ \A i \in DOMAIN compute : ~ZeroesTail(i, l)
      BY <2>2, <3>1 DEF StreamOrder, WillBeStored
    <3>3. ASSUME NEW i \in DOMAIN compute' PROVE ~ZeroesTail(i, l)'
      <4>1. CASE i \in DOMAIN compute
        BY <1>e, <3>2, <4>1 DEF ZeroesTail
      <4>2. CASE i \notin DOMAIN compute
        BY <1>g, <4>2 DEF ZeroesTail, IsKernel
      <4> QED BY <4>1, <4>2
    <3> QED BY <1>h, <3>2, <3>3
  <2> QED BY <2>1, <2>2 DEF fresh
<1> QED BY <1>0, <1>1, <1>2, <1>3, <1>4, <1>5, <1>6, <1>7, <1>8 DEF StreamOrder

(* ----------------------------------------------------------------------- *)
(* The coordinator under the streams                                       *)

(* Every step with streams is a step of the coordinator or leaves it alone. *)
LEMMA AsyncIsCoordinator == AsyncNext => [Next]_vars
<1> SUFFICES ASSUME AsyncNext PROVE Next \/ UNCHANGED vars
  OBVIOUS
<1>1. CASE \/ MorphCopies \/ MorphCopyRaises \/ MorphUndoCopies \/ MorphUndoCopyRaises
           \/ RestoreCopies \/ RestoreCopyRaises \/ RestoreUndoCopies \/ RestoreUndoCopyRaises
  <2>1. ExecutorStep /\ UNCHANGED <<ctlVars, coordVars>>
    BY <1>1 DEF MorphCopies, MorphCopyRaises, MorphUndoCopies, MorphUndoCopyRaises, RestoreCopies,
       RestoreCopyRaises, RestoreUndoCopies, RestoreUndoCopyRaises, Enqueue, EnqueueRaises,
       InOperation, ExecutorStep
  <2> QED BY <2>1 DEF Next, Act
<1>2. CASE ExpandQueues \/ ExpandRaisesOrdered \/ ExpandEscapes \/ ReattachOrdered \/ ReattachFails
  <2>1. ExecutorStep /\ UNCHANGED <<ctlVars, coordVars>>
    BY <1>2 DEF ExpandQueues, ExpandRaisesOrdered, ExpandEscapes, ReattachOrdered, ReattachFails,
       InOperation, ExecutorStep
  <2> QED BY <2>1 DEF Next, Act
<1>3. CASE RecoverySynchronizes
  BY <1>3 DEF RecoverySynchronizes, Next, Sample
<1>4. CASE PassQueued
  BY <1>4 DEF PassQueued, Next, Drive
<1>5. CASE HostOnly
  <2>1. CASE \E signal \in Signals : NoAction(signal) \/ ProfileExhausted(signal) \/ StartPressure(signal)
    BY <2>1 DEF Next, Sample
  <2>2. CASE MorphReturned \/ ExpandReturned \/ RollbackReturned \/ RecoverReturned
    BY <2>2 DEF Next, Act
  <2>3. CASE (MorphUndone \/ RestoreUndone) /\ UNCHANGED <<ctlVars, coordVars>>
    BY <2>3 DEF Next, Act, ExecutorStep
  <2>4. CASE (\E blocks \in SUBSET Occupied : Finish(blocks)) \/ Drain \/ StepDisabled \/ Stopped
    BY <2>4 DEF Next, Drive
  <2> QED BY <1>5, <2>1, <2>2, <2>3, <2>4 DEF HostOnly
<1>6. CASE RunCompute \/ RunCopy
  BY <1>6 DEF RunCompute, RunCopy, vars, execVars, coordVars
<1> QED BY <1>1, <1>2, <1>3, <1>4, <1>5, <1>6 DEF AsyncNext

(* The coordinator's invariant holds under the streams too. *)
LEMMA AsyncSpecIInv == AsyncSpec => []IInv
<1>1. AsyncInit => IInv
  BY InitListInv, InitPoolInv DEF AsyncInit, IInv
<1>2. IInv /\ [AsyncNext]_asyncVars => IInv'
  <2> SUFFICES ASSUME IInv, [AsyncNext]_asyncVars PROVE IInv'
    OBVIOUS
  <2>1. UNCHANGED asyncVars => UNCHANGED vars
    BY DEF asyncVars, vars
  <2>2. [Next]_vars
    BY <2>1, AsyncIsCoordinator
  <2> QED BY <2>2, NextKeepsListInv, NextKeepsPoolInv DEF IInv
<1> QED BY <1>1, <1>2, PTL DEF AsyncSpec

(* The groups that hold occupied blocks, read off the blocks alone. *)
LEMMA GroupsByBlocks ==
  ASSUME NEW n \in 0 .. NumLayers, NEW groups, groups = Prefix(n),
         NEW free \in Seq(BOOLEAN), Len(free) <= BaseBlocks + n * GroupSize
  PROVE  {groups[i] : i \in {j \in DOMAIN groups :
            \E b \in 1 .. GroupSize : BaseBlocks + (j - 1) * GroupSize + b \in UsedIn(free)}}
         = {l \in Layers : \E b \in 1 .. GroupSize :
              BaseBlocks + (l - 1) * GroupSize + b \in UsedIn(free)}
<1> DEFINE place(l, b) == BaseBlocks + (l - 1) * GroupSize + b
           busy == {j \in DOMAIN groups : \E b \in 1 .. GroupSize : place(j, b) \in UsedIn(free)}
<1>1. DOMAIN groups = 1 .. n /\ n \in Nat /\ \A i \in 1 .. n : groups[i] = i
  BY ExecutorAssumption DEF Prefix
<1>2. {groups[i] : i \in busy} = busy
  BY <1>1
<1>3. DOMAIN free = 1 .. Len(free) /\ Len(free) \in Nat
  OBVIOUS
<1>4. ASSUME NEW l \in Layers, NEW b \in 1 .. GroupSize, place(l, b) \in DOMAIN free
      PROVE  l \in 1 .. n
  <2>1. l \in Nat /\ l >= 1 /\ BaseBlocks \in Nat /\ GroupSize \in Nat /\ b \in Nat /\ b >= 1
    BY ExecutorAssumption DEF Layers
  <2>2. (l - 1) * GroupSize < n * GroupSize
    <3>1. (l - 1) * GroupSize \in Int /\ n * GroupSize \in Int
      BY <1>1, <2>1
    <3>2. BaseBlocks + (l - 1) * GroupSize + b <= BaseBlocks + n * GroupSize
      <4>1. BaseBlocks + (l - 1) * GroupSize + b \in 1 .. Len(free)
        BY <1>3, <1>4
      <4>2. \A x \in Int : \A y \in Int : \A c \in Int : x \in 1 .. y /\ y <= c => x <= c
        OBVIOUS
      <4>3. /\ BaseBlocks + (l - 1) * GroupSize + b \in Int /\ Len(free) \in Int
            /\ BaseBlocks + n * GroupSize \in Int
        BY <1>3, <2>1, <3>1
      <4> QED BY <4>1, <4>2, <4>3, Zenon
    <3> QED BY <2>1, <3>1, <3>2
  <2>3. ~(l > n)
    <3> SUFFICES ASSUME l > n PROVE FALSE
      OBVIOUS
    <3>1. n \in 0 .. l - 1 /\ l - 1 \in Nat
      BY <1>1, <2>1
    <3>2. n * GroupSize \in 0 .. (l - 1) * GroupSize /\ (l - 1) * GroupSize \in Nat
      BY <3>1, GroupsTimesSize
    <3> QED BY <2>2, <3>2
  <2> QED BY <1>1, <2>1, <2>3
<1>5. \A l \in 1 .. n : l \in Layers
  BY ExecutorAssumption DEF Layers
<1> HIDE DEF place
<1>6. busy = {l \in Layers : \E b \in 1 .. GroupSize : place(l, b) \in UsedIn(free)}
  BY <1>1, <1>4, <1>5 DEF UsedIn
<1> QED BY <1>2, <1>6 DEF place

(* A step that occupies no block makes no group busy. *)
LEMMA BusyFollows ==
  ASSUME ListInv, PoolInv, ListInv', PoolInv', Occupied' \subseteq Occupied
  PROVE  BusyGroups(is_block_free)' \subseteq BusyGroups(is_block_free)
<1> DEFINE at(used) == {l \in Layers : \E b \in 1 .. GroupSize :
                          BaseBlocks + (l - 1) * GroupSize + b \in used}
<1>1. BusyGroups(is_block_free) = at(Occupied)
  <2>1. kv_groups = Prefix(numLent) /\ numLent \in 0 .. NumLayers
    BY DEF ListInv, Lists, Prefixes, IsPrefix, numLent
  <2>2. is_block_free \in Seq(BOOLEAN) /\ Len(is_block_free) <= BaseBlocks + numLent * GroupSize
    BY PoolTypes
  <2>3. BusyGroups(is_block_free) = at(UsedIn(is_block_free))
    BY <2>1, <2>2, GroupsByBlocks DEF BusyGroups, UsedIn
  <2> QED BY <2>3, OccupiedIsUsed
<1>2. BusyGroups(is_block_free)' = at(Occupied')
  <2>1. kv_groups' = Prefix(numLent') /\ numLent' \in 0 .. NumLayers
    BY DEF ListInv, Lists, Prefixes, IsPrefix, numLent
  <2>2. is_block_free' \in Seq(BOOLEAN) /\ Len(is_block_free') <= BaseBlocks + numLent' * GroupSize
    <3>1. /\ is_block_free' \in Seq(BOOLEAN)
          /\ \/ Len(is_block_free') = BaseBlocks + numLent' * GroupSize
             \/ Len(is_block_free') = BaseBlocks + (numLent' - 1) * GroupSize
      BY DEF PoolInv, AllBooked, NewestLacksBlocks, PoolConsistent
    <3>2. /\ BaseBlocks \in Nat /\ GroupSize \in Nat
          /\ \A n \in Nat : (n - 1) * GroupSize = n * GroupSize - GroupSize /\ n * GroupSize \in Nat
      BY ExecutorAssumption
    <3>3. /\ (numLent' - 1) * GroupSize = numLent' * GroupSize - GroupSize
          /\ numLent' * GroupSize \in Nat
      <4>1. numLent' \in Nat
        BY <2>1, ExecutorAssumption
      <4> QED BY <3>2, <4>1, Zenon
    <3> QED BY <3>1, <3>2, <3>3
  <2>3. {kv_groups'[i] : i \in {j \in DOMAIN kv_groups' :
           \E b \in 1 .. GroupSize :
             BaseBlocks + (j - 1) * GroupSize + b \in UsedIn(is_block_free')}}
        = at(UsedIn(is_block_free'))
    BY <2>1, <2>2, GroupsByBlocks
  <2>4. UsedIn(is_block_free') = Occupied'
    BY Zenon DEF Occupied, UsedIn
  <2> QED BY <2>3, <2>4 DEF BusyGroups, UsedIn
<1> QED BY <1>1, <1>2

(* What the coordinator's invariant says of the lent groups. *)
LEMMA LentFacts ==
  ASSUME ListInv
  PROVE  /\ kv_groups \in Seq(Layers) /\ numLent \in 0 .. NumLayers
         /\ Elements(kv_groups) = 1 .. numLent
         /\ transformer_layers \in [Layers -> {"fp16", "w4"}]
         /\ \A l \in Elements(kv_groups) : transformer_layers[l] = "w4"
<1>1. IsPrefix(kv_groups)
  BY DEF ListInv, Lists, Prefixes
<1>2. kv_groups \in Seq(Layers)
  BY <1>1, PrefixType
<1>3. kv_groups = Prefix(numLent) /\ numLent \in 0 .. NumLayers
  BY <1>1 DEF IsPrefix, numLent
<1>4. Elements(kv_groups) = 1 .. numLent
  BY <1>3, ListElements
<1>5. \A l \in Elements(kv_groups) : transformer_layers[l] = "w4"
  BY ListInvLentFromW4 DEF LentFromW4, InW4
<1> QED BY <1>2, <1>3, <1>4, <1>5 DEF ListInv, Lists, Scalars

(* ----------------------------------------------------------------------- *)
(* The steps of the host                                                   *)

(* While layers are copied one by one, the layer whose turn it is is not lent. *)
LEMMA CopiedIsNotLent ==
  ASSUME ListInv, call = "morph_to_w4" \/ Restoring
  PROVE  /\ Iterating => batch[k + 1] \in Layers \ Elements(kv_groups)
         /\ k > 0 => batch[k] \in Layers \ Elements(kv_groups)
<1>1. CASE call = "morph_to_w4"
  <2>1. /\ batch = Up(numCoord, numSelected) /\ numLent = numCoord /\ numCoord \in Nat
        /\ numSelected \in Nat \ {0} /\ k \in 0 .. numSelected - 1
        /\ numCoord + numSelected <= NumLayers
    BY <1>1, InMorph DEF PressureInv
  <2>2. \A i \in 1 .. numSelected : batch[i] = numCoord + i
    BY <2>1 DEF Up
  <2>3. \A i \in 1 .. numSelected : batch[i] \in Layers \ Elements(kv_groups)
    BY <2>1, <2>2, LentFacts, ExecutorAssumption DEF Layers
  <2> QED BY <2>1, <2>3
<1>2. CASE Restoring
  <2>1. /\ batch = Down(Top, numSelected) /\ numLent = Top - numSelected
        /\ Top \in numSelected .. NumLayers
        /\ numSelected \in Nat \ {0} /\ k \in 0 .. numSelected - 1
    BY <1>2, InRestore
  <2>2. \A i \in 1 .. numSelected : batch[i] = Top + 1 - i
    BY <2>1 DEF Down
  <2>3. \A i \in 1 .. numSelected : batch[i] \in Layers \ Elements(kv_groups)
    BY <2>1, <2>2, LentFacts, ExecutorAssumption DEF Layers
  <2> QED BY <2>1, <2>3
<1> QED BY <1>1, <1>2

(* A layer's copy, queued by any of the four loops that copy layers, keeps the invariant. *)
LEMMA CopiesKeep ==
  ASSUME ListInv, StreamTypeOK, StreamOrder,
         MorphCopies \/ MorphUndoCopies \/ RestoreCopies \/ RestoreUndoCopies
  PROVE  StreamTypeOK' /\ StreamOrder'
<1>1. CASE MorphCopies
  <2>1. /\ batch[k + 1] \in Layers \ Elements(kv_groups) /\ Enqueue(batch[k + 1], "w4")
        /\ transformer_layers' = [transformer_layers EXCEPT ![batch[k + 1]] = "w4"]
        /\ UNCHANGED <<kv_groups, is_block_free>>
    BY <1>1, CopiedIsNotLent DEF MorphCopies, MorphLayer, poolVars
  <2> QED BY <2>1, LentFacts, EnqueueKeeps
<1>2. CASE MorphUndoCopies
  <2>1. /\ batch[k] \in Layers \ Elements(kv_groups) /\ Enqueue(batch[k], "fp16")
        /\ transformer_layers' = [transformer_layers EXCEPT ![batch[k]] = "fp16"]
        /\ UNCHANGED <<kv_groups, is_block_free>>
    BY <1>2, CopiedIsNotLent DEF MorphUndoCopies, MorphUndo, poolVars
  <2> QED BY <2>1, LentFacts, EnqueueKeeps
<1>3. CASE RestoreCopies
  <2>1. /\ batch[k + 1] \in Layers \ Elements(kv_groups) /\ Enqueue(batch[k + 1], "fp16")
        /\ transformer_layers' = [transformer_layers EXCEPT ![batch[k + 1]] = "fp16"]
        /\ UNCHANGED <<kv_groups, is_block_free>>
    BY <1>3, CopiedIsNotLent DEF RestoreCopies, RestoreLayer, poolVars
  <2> QED BY <2>1, LentFacts, EnqueueKeeps
<1>4. CASE RestoreUndoCopies
  <2>1. /\ batch[k] \in Layers \ Elements(kv_groups) /\ Enqueue(batch[k], "w4")
        /\ transformer_layers' = [transformer_layers EXCEPT ![batch[k]] = "w4"]
        /\ UNCHANGED <<kv_groups, is_block_free>>
    BY <1>4, CopiedIsNotLent DEF RestoreUndoCopies, RestoreUndo, poolVars
  <2> QED BY <2>1, LentFacts, EnqueueKeeps
<1> QED BY <1>1, <1>2, <1>3, <1>4

(* A copy that raises before it is queued keeps the invariant. *)
LEMMA RaisedCopiesKeep ==
  ASSUME StreamTypeOK, StreamOrder, ~EventsMayFail,
         \/ MorphCopyRaises \/ MorphUndoCopyRaises
         \/ RestoreCopyRaises \/ RestoreUndoCopyRaises
  PROVE  StreamTypeOK' /\ StreamOrder'
<1>1. UNCHANGED <<transformer_layers, kv_groups, is_block_free>>
  BY DEF MorphCopyRaises, MorphUndoCopyRaises, RestoreCopyRaises, RestoreUndoCopyRaises,
     MorphRaises, MorphUndoRaises, RestoreRaises, RestoreUndoRaises, poolVars, layerVars
<1>2. UNCHANGED <<compute, copies, pending, last_forward, region, syncing>>
  BY DEF MorphCopyRaises, MorphUndoCopyRaises, RestoreCopyRaises, RestoreUndoCopyRaises,
     EnqueueRaises
<1>3. /\ BusyGroups(is_block_free)' = BusyGroups(is_block_free)
      /\ Elements(kv_groups)' = Elements(kv_groups)
  BY <1>1 DEF BusyGroups, Elements
<1> QED BY <1>1, <1>2, <1>3, QuietKeeps

(* The wait and the zeroing of one layer are entries of the compute stream. *)
LEMMA QueuedWork ==
  ASSUME StreamTypeOK, NEW l \in Layers
  PROVE  /\ Zero(l) \in Work /\ Zero(l).kind = "zero" /\ Zero(l).layer = l
         /\ Zero(l).first = {} /\ Zero(l).after = pending[l]
         /\ \A n \in Nat : /\ WaitFor(n) \in Work /\ WaitFor(n).kind = "wait"
                           /\ WaitFor(n).first = {} /\ WaitFor(n).after = n
         /\ [pending EXCEPT ![l] = 0] =
              [m \in Layers |-> IF m \in {l} THEN 0 ELSE pending[m]]
<1>1. pending \in [Layers -> Nat]
  BY DEF StreamTypeOK
<1>2. Zero(l) \in Work
  BY <1>1 DEF Zero, Work
<1>3. Zero(l).kind = "zero" /\ Zero(l).layer = l /\ Zero(l).first = {} /\ Zero(l).after = pending[l]
  BY DEF Zero
<1>4. \A n \in Nat : /\ WaitFor(n) \in Work /\ WaitFor(n).kind = "wait"
                     /\ WaitFor(n).first = {} /\ WaitFor(n).after = n
  BY DEF WaitFor, Work
<1>5. [pending EXCEPT ![l] = 0] = [m \in Layers |-> IF m \in {l} THEN 0 ELSE pending[m]]
  BY <1>1
<1> QED BY <1>2, <1>3, <1>4, <1>5

(* The layer that expand_kv lends next runs W4 and is not lent yet. *)
LEMMA ExpandedLayer ==
  ASSUME ListInv, call = "expand_kv", Iterating
  PROVE  /\ batch[k + 1] \in Layers \ Elements(kv_groups)
         /\ transformer_layers[batch[k + 1]] = "w4"
         /\ batch[k + 1] \notin BusyGroups(is_block_free)
         /\ Elements(saved.groups) \subseteq Elements(kv_groups)
<1>1. /\ batch = Up(numCoord, numSelected) /\ numLent = numCoord + k /\ numCoord \in Nat
      /\ numSelected \in Nat \ {0} /\ k \in 0 .. numSelected - 1
      /\ numActive = numCoord + numSelected /\ numActive \in 0 .. NumLayers
      /\ transformer_layers = W4UpTo(numActive) /\ saved.groups = Prefix(numCoord)
  BY InExpand
<1>2. batch[k + 1] = numCoord + k + 1
  BY <1>1 DEF Up
<1>3. batch[k + 1] \in Layers /\ batch[k + 1] <= numActive /\ batch[k + 1] > numLent
  BY <1>1, <1>2, ExecutorAssumption DEF Layers
<1>4. Elements(kv_groups) = 1 .. numLent /\ numLent \in Nat
  BY <1>1, LentFacts
<1>5. batch[k + 1] \notin Elements(kv_groups)
  BY <1>3, <1>4
<1>6. transformer_layers[batch[k + 1]] = "w4"
  BY <1>1, <1>3 DEF W4UpTo
<1>7. Elements(saved.groups) = 1 .. numCoord
  BY <1>1, ListElements
<1>8. 1 .. numCoord \subseteq 1 .. numLent
  BY <1>1
<1> QED BY <1>3, <1>4, <1>5, <1>6, <1>7, <1>8, BusyIsLent

(* A lent group and the zeroing of its memory keep the invariant. *)
LEMMA ExpandKeeps ==
  ASSUME ListInv, PoolInv, ListInv', PoolInv', Occupied' = Occupied, StreamTypeOK, StreamOrder,
         ExpandQueues
  PROVE  StreamTypeOK' /\ StreamOrder'
<1> DEFINE l == batch[k + 1]
<1>1. call = "expand_kv" /\ Iterating /\ UNCHANGED transformer_layers /\ ~syncing
      /\ kv_groups' = Append(kv_groups, l)
      /\ UNCHANGED <<copies, last_forward, region, syncing>>
      /\ compute' = Append(compute, Zero(l)) /\ pending' = [pending EXCEPT ![l] = 0]
  BY DEF ExpandQueues, ExpandLayer, InOperation, QueueZero, layerVars
<1>2. PICK m \in Layers : m = l
  BY <1>1, ExpandedLayer
<1>3. /\ transformer_layers[m] = "w4" /\ m \notin BusyGroups(is_block_free)
  BY <1>1, <1>2, ExpandedLayer
<1>4. Elements(kv_groups)' = Elements(kv_groups) \cup {m}
  <2>1. kv_groups \in Seq(Layers)
    BY LentFacts
  <2>2. /\ DOMAIN kv_groups = 1 .. Len(kv_groups) /\ Len(kv_groups) \in Nat
        /\ DOMAIN kv_groups' = 1 .. Len(kv_groups) + 1
        /\ \A i \in DOMAIN kv_groups : i \in DOMAIN kv_groups' /\ kv_groups'[i] = kv_groups[i]
        /\ kv_groups'[Len(kv_groups) + 1] = m
    BY <1>1, <1>2, <2>1, QueueAppended
  <2> QED BY <2>2 DEF Elements
<1>5. BusyGroups(is_block_free)' \subseteq BusyGroups(is_block_free)
  BY BusyFollows
<1>6. /\ Zero(m) \in Work /\ Zero(m).kind = "zero" /\ Zero(m).layer = m
      /\ Zero(m).first = {} /\ Zero(m).after = pending[m]
      /\ [pending EXCEPT ![m] = 0] = [n \in Layers |-> IF n \in {m} THEN 0 ELSE pending[n]]
      /\ pending[m] \in Nat /\ last_forward \in Nat
  BY QueuedWork, StreamEntries
<1> DEFINE awaited == {m}
<1>7. /\ awaited \in SUBSET Layers /\ \A n \in awaited : pending[n] <= Zero(m).after
      /\ pending' = [n \in Layers |-> IF n \in awaited THEN 0 ELSE pending[n]]
      /\ Zero(m).layer \in awaited
      /\ Elements(kv_groups)' \subseteq Elements(kv_groups) \cup awaited
      /\ Elements(kv_groups) \subseteq Elements(kv_groups)'
      /\ Zero(m).layer \in Elements(kv_groups)'
  BY <1>1, <1>2, <1>4, <1>6
<1>8. compute' = Append(compute, Zero(m)) /\ last_forward' \in Nat /\ last_forward' = last_forward
      /\ UNCHANGED <<transformer_layers, copies, region, syncing>>
  BY <1>1, <1>2, <1>6
<1> HIDE DEF awaited
<1> QED BY <1>1, <1>3, <1>5, <1>6, <1>7, <1>8, AppendKeeps

(* An expansion that raised, and whose rollback event replaces last_forward_event, keeps the
   invariant. *)
LEMMA ExpandRaisedKeeps ==
  ASSUME ListInv, PoolInv, ListInv', PoolInv', Occupied' = Occupied, StreamTypeOK, StreamOrder,
         ~EventsMayFail, ExpandRaisesOrdered
  PROVE  StreamTypeOK' /\ StreamOrder'
<1>1. /\ call = "expand_kv" /\ Iterating /\ UNCHANGED transformer_layers /\ ~syncing
      /\ kv_groups' = saved.groups /\ last_forward' = Len(compute')
      /\ UNCHANGED <<copies, region, syncing>> /\ ExpandBegun(batch[k + 1])
  BY DEF ExpandRaisesOrdered, ExpandRaises, InOperation, ReattachSnapshot, layerVars
<1>2. PICK l \in Layers : l = batch[k + 1]
  BY <1>1, ExpandedLayer
<1>3. transformer_layers[l] = "w4" /\ l \notin BusyGroups(is_block_free)
  BY <1>1, <1>2, ExpandedLayer
<1>4. Elements(kv_groups)' \subseteq Elements(kv_groups)
  BY <1>1, ExpandedLayer DEF Elements
<1>5. BusyGroups(is_block_free)' \subseteq BusyGroups(is_block_free)
  BY BusyFollows
<1>6. /\ Zero(l) \in Work /\ Zero(l).kind = "zero" /\ Zero(l).layer = l
      /\ Zero(l).first = {} /\ Zero(l).after = pending[l]
      /\ \A n \in Nat : /\ WaitFor(n) \in Work /\ WaitFor(n).kind = "wait"
                        /\ WaitFor(n).first = {} /\ WaitFor(n).after = n
      /\ [pending EXCEPT ![l] = 0] = [n \in Layers |-> IF n \in {l} THEN 0 ELSE pending[n]]
      /\ pending[l] \in Nat /\ compute \in Seq(Work)
  BY QueuedWork, StreamEntries DEF StreamTypeOK
<1>7. CASE UNCHANGED <<compute, pending>>
  BY <1>1, <1>4, <1>5, <1>7, QuietKeeps
<1>8. ASSUME NEW w \in Work, w.after = pending[l], w.first = {},
             w.kind = "wait" \/ (w.kind = "zero" /\ w.layer = l),
             compute' = Append(compute, w), pending' = [pending EXCEPT ![l] = 0]
      PROVE  StreamTypeOK' /\ StreamOrder'
  <2> DEFINE awaited == {l}
  <2>1. /\ awaited \in SUBSET Layers /\ \A n \in awaited : pending[n] <= w.after
        /\ pending' = [n \in Layers |-> IF n \in awaited THEN 0 ELSE pending[n]]
        /\ w.kind = "zero" => w.layer \in awaited
        /\ Elements(kv_groups)' \subseteq Elements(kv_groups) \cup awaited
    BY <1>4, <1>6, <1>8
  <2>2. w.kind \in {"wait", "zero"}
    BY <1>8
  <2>3. w.kind = "zero" => /\ transformer_layers[w.layer] # "fp16"
                           /\ w.layer \notin BusyGroups(is_block_free)
    BY <1>3, <1>8
  <2>4. last_forward' \in Nat /\ last_forward' = Len(compute')
    BY <1>1, <1>6, <1>8
  <2> HIDE DEF awaited
  <2> QED BY <1>1, <1>5, <1>8, <2>1, <2>2, <2>3, <2>4, AppendKeeps
<1>9. CASE compute' = Append(compute, WaitFor(pending[l])) /\ pending' = [pending EXCEPT ![l] = 0]
  BY <1>6, <1>8, <1>9
<1>10. CASE QueueZero(l)
  BY <1>6, <1>8, <1>10 DEF QueueZero
<1> QED BY <1>1, <1>2, <1>7, <1>9, <1>10 DEF ExpandBegun

(* An exception that leaves expand_kv before its first layer changes nothing. *)
LEMMA ExpandEscapedKeeps ==
  ASSUME StreamTypeOK, StreamOrder, ~EventsMayFail, ExpandEscapes
  PROVE  StreamTypeOK' /\ StreamOrder'
<1>1. UNCHANGED <<transformer_layers, kv_groups, is_block_free,
                  compute, copies, pending, last_forward, region, syncing>>
  BY DEF ExpandEscapes, ExpandRollbackRaises, poolVars, layerVars
<1>2. /\ BusyGroups(is_block_free)' = BusyGroups(is_block_free)
      /\ Elements(kv_groups)' = Elements(kv_groups)
  BY <1>1 DEF BusyGroups, Elements
<1> QED BY <1>1, <1>2, QuietKeeps

(* An event is never further than the copies that are queued. *)
EventsWithin == \A l \in Layers : pending[l] <= Len(copies)

(* The furthest of the awaited copies is not before any of them. *)
LEMMA FurthestBounds ==
  ASSUME StreamTypeOK, EventsWithin, NEW awaited \in SUBSET Layers
  PROVE  LET n == Furthest({0} \cup {pending[l] : l \in awaited})
         IN  n \in Nat /\ \A l \in awaited : pending[l] <= n
<1> DEFINE S == {0} \cup {pending[l] : l \in awaited}
<1>1. /\ Len(copies) \in Nat
      /\ \A l \in Layers : pending[l] \in Nat /\ pending[l] <= Len(copies)
  BY StreamEntries DEF EventsWithin
<1>2. S \in SUBSET Nat /\ S # {} /\ \A i \in S : i <= Len(copies)
  BY <1>1
<1>3. \A l \in awaited : pending[l] \in S
  OBVIOUS
<1> HIDE DEF S
<1>4. \E n \in S : \A m \in S : m <= n
  BY <1>1, <1>2, Largest
<1>5. Furthest(S) \in S /\ \A m \in S : m <= Furthest(S)
  BY <1>4 DEF Furthest
<1> QED BY <1>2, <1>3, <1>5 DEF S

(* The waits before a reattachment, all of them or as many as succeed, keep the invariant. *)
LEMMA ReattachKeeps ==
  ASSUME ListInv, PoolInv, ListInv', PoolInv', Occupied' = Occupied, StreamTypeOK, StreamOrder,
         ReattachOrdered \/ ReattachFails
  PROVE  StreamTypeOK' /\ StreamOrder'
<1>1. /\ call = "recover_fp16" /\ UNCHANGED transformer_layers /\ ~syncing
      /\ UNCHANGED <<copies, last_forward, region, syncing>>
  BY DEF ReattachOrdered, ReattachFails, RecoverReattach, RecoverReattachRaises, InOperation,
     AwaitBatch
<1>2. /\ batch = Down(numCoord, numSelected) /\ batch \in Seq(Layers) /\ Len(batch) = numSelected
      /\ numSelected \in Nat \ {0} /\ numCoord \in 0 .. NumLayers
      /\ numLent = numCoord - numSelected /\ numLent \in 0 .. NumLayers
      /\ Len(saved.groups) = numCoord
  BY <1>1, InRestore DEF Restoring, RestoringInv, PressureInv, Top
<1>3. saved.groups = Prefix(numCoord)
  BY <1>2 DEF ListInv, Lists, SavedLists, IsPrefix
<1>4. BusyGroups(is_block_free)' \subseteq BusyGroups(is_block_free)
  BY BusyFollows
<1>5. ASSUME NEW n \in 0 .. Len(batch), AwaitBatch(n),
             \/ UNCHANGED kv_groups
             \/ n = Len(batch) /\ kv_groups' = saved.groups
      PROVE  StreamTypeOK' /\ StreamOrder'
  <2> DEFINE awaited == {batch[i] : i \in 1 .. n}
  <2>1. awaited \in SUBSET Layers
    BY <1>2
  <2>2. /\ Elements(kv_groups)' \subseteq Elements(kv_groups) \cup awaited
        /\ Elements(kv_groups) \subseteq Elements(kv_groups)'
    <3>1. CASE UNCHANGED kv_groups
      BY <3>1 DEF Elements
    <3>2. CASE n = Len(batch) /\ kv_groups' = saved.groups
      <4>1. Elements(kv_groups)' = 1 .. numCoord
        <5>1. Elements(saved.groups) = 1 .. numCoord
          BY <1>2, <1>3, ListElements
        <5> QED BY <3>2, <5>1 DEF Elements
      <4>2. Elements(kv_groups) = 1 .. numLent
        BY LentFacts
      <4>3. \A m \in 1 .. numCoord : m > numLent => m \in awaited
        <5> SUFFICES ASSUME NEW m \in 1 .. numCoord, m > numLent PROVE m \in awaited
          OBVIOUS
        <5>1. numCoord + 1 - m \in 1 .. n
          BY <1>2, <3>2
        <5>2. batch[numCoord + 1 - m] = m
          BY <1>2, <3>2, <5>1 DEF Down
        <5> QED BY <5>1, <5>2
      <4> HIDE DEF awaited
      <4> QED BY <1>2, <4>1, <4>2, <4>3
    <3> QED BY <1>5, <3>1, <3>2
  <2>3. PICK n0 \in Nat : /\ n0 = Furthest({0} \cup {pending[l] : l \in awaited})
                          /\ \A l \in awaited : pending[l] <= n0
    BY <2>1, FurthestBounds DEF StreamOrder, CopiesCovered, EventsWithin
  <2>4. /\ compute' = Append(compute, WaitFor(n0))
        /\ pending' = [l \in Layers |-> IF l \in awaited THEN 0 ELSE pending[l]]
    BY <1>5, <2>3 DEF AwaitBatch
  <2>5. /\ WaitFor(n0) \in Work /\ WaitFor(n0).kind = "wait"
        /\ WaitFor(n0).first = {} /\ WaitFor(n0).after = n0
    <3>1. \E l \in Layers : TRUE
      BY <1>2, ExecutorAssumption DEF Layers
    <3> QED BY <3>1, QueuedWork
  <2>6. last_forward' \in Nat /\ last_forward' = last_forward
    BY <1>1, StreamEntries DEF StreamTypeOK
  <2> HIDE DEF awaited
  <2> QED BY <1>1, <1>4, <2>1, <2>2, <2>3, <2>4, <2>5, <2>6, AppendKeeps
<1>6. CASE ReattachOrdered
  <2>1. AwaitBatch(Len(batch)) /\ kv_groups' = saved.groups /\ Len(batch) \in 0 .. Len(batch)
    BY <1>2, <1>6 DEF ReattachOrdered, RecoverReattach, ReattachSnapshot
  <2> QED BY <1>5, <2>1
<1>7. CASE ReattachFails
  BY <1>5, <1>7 DEF ReattachFails, RecoverReattachRaises, poolVars
<1> QED BY <1>6, <1>7

(* A recovery starts with an empty compute stream, so the groups it takes back may go. *)
LEMMA RecoveryKeeps ==
  ASSUME ListInv, PoolInv, ListInv', PoolInv', StreamTypeOK, StreamOrder, RecoverySynchronizes
  PROVE  StreamTypeOK' /\ StreamOrder'
<1>1. PICK signal \in Signals : StartRecovery(signal)
  BY DEF RecoverySynchronizes
<1>2. Occupied' \subseteq Occupied
  BY <1>1, SampleKeepsPool DEF Sample
<1>3. /\ compute = <<>> /\ UNCHANGED <<compute, copies, pending, last_forward, region, syncing>>
      /\ UNCHANGED transformer_layers
  BY <1>1 DEF RecoverySynchronizes, streamVars, StartRecovery, CallRecoverFp16, CallRecoverFp16Raises,
     CallRecoverFp16NotSaved, layerVars
<1>4. Elements(kv_groups)' \subseteq Elements(kv_groups)
  <2>1. \/ kv_groups' = kv_groups
        \/ \E n : n \in 0 .. numLent /\ kv_groups' = DropLast(kv_groups, n)
    <3>1. pc \in Driving
      BY <1>1 DEF StartRecovery, SampleStarts, Driving
    <3>2. -LayerDelta(signal) \in Nat
      BY <1>1, <3>1, LayerDeltaRange DEF StartRecovery
    <3> DEFINE chosen == NewestFirst(coord_active, -LayerDelta(signal))
    <3>3. Len(chosen) \in Nat
      BY <3>2 DEF NewestFirst
    <3>4. CallRecoverFp16(chosen) \/ CallRecoverFp16Raises(chosen) \/ CallRecoverFp16NotSaved(chosen)
      BY <1>1 DEF StartRecovery
    <3> HIDE DEF chosen
    <3>5. \/ kv_groups' = kv_groups
          \/ Len(chosen) <= numLent /\ kv_groups' = DropLast(kv_groups, Len(chosen))
      BY <3>4 DEF CallRecoverFp16, CallRecoverFp16Raises, CallRecoverFp16NotSaved, poolVars,
         ShrinkAccepted, PopGroups, numLent
    <3>6. numLent \in Nat
      BY LentFacts
    <3> QED BY <3>3, <3>5, <3>6
  <2>2. ASSUME NEW n \in 0 .. numLent, kv_groups' = DropLast(kv_groups, n)
        PROVE  Elements(kv_groups)' \subseteq Elements(kv_groups)
    <3>1. Len(kv_groups) = numLent /\ numLent \in Nat /\ DOMAIN kv_groups = 1 .. numLent
      BY LentFacts DEF numLent
    <3>2. /\ DOMAIN DropLast(kv_groups, n) \subseteq DOMAIN kv_groups
          /\ \A i \in DOMAIN DropLast(kv_groups, n) : DropLast(kv_groups, n)[i] = kv_groups[i]
      BY <3>1, LentFacts DEF DropLast
    <3> QED BY <2>2, <3>2 DEF Elements
  <2> QED BY <2>1, <2>2 DEF Elements
<1>5. BusyGroups(is_block_free)' \subseteq BusyGroups(is_block_free)
  BY <1>2, BusyFollows
<1> QED BY <1>3, <1>4, <1>5, QuietKeeps

(* The steps of the host that queue nothing keep the invariant. *)
LEMMA HostKeeps ==
  ASSUME ListInv, PoolInv, ListInv', PoolInv', StreamTypeOK, StreamOrder, HostOnly
  PROVE  StreamTypeOK' /\ StreamOrder'
<1>1. UNCHANGED <<compute, copies, pending, last_forward, region, syncing>>
  BY DEF HostOnly, streamVars
<1>2. UNCHANGED <<transformer_layers, kv_groups>> /\ Occupied' \subseteq Occupied
  <2>1. CASE \E signal \in Signals : NoAction(signal) \/ ProfileExhausted(signal) \/ StartPressure(signal)
    <3>1. UNCHANGED <<transformer_layers, kv_groups>>
      BY <2>1 DEF NoAction, ProfileExhausted, StartPressure, CallMorphToW4, execVars, layerVars, poolVars
    <3>2. Occupied' = Occupied
      BY <2>1, SampleKeepsPool DEF Sample
    <3> QED BY <3>1, <3>2
  <2>2. CASE MorphReturned \/ ExpandReturned \/ RollbackReturned \/ RecoverReturned
    <3>1. UNCHANGED <<transformer_layers, kv_groups>>
      BY <2>2 DEF MorphReturned, ExpandReturned, RollbackReturned, RecoverReturned, CallExpandKv,
         RollbackPressure, CallRestoreFp16, layerVars, poolVars
    <3>2. Occupied' = Occupied
      BY <2>2, ActKeepsPool DEF Act
    <3> QED BY <3>1, <3>2
  <2>3. CASE (MorphUndone \/ RestoreUndone) /\ UNCHANGED <<ctlVars, coordVars>>
    <3>1. UNCHANGED <<transformer_layers, kv_groups, is_block_free>>
      BY <2>3 DEF MorphUndone, RestoreUndone, layerVars, poolVars
    <3> QED BY <3>1 DEF Occupied
  <2>4. ASSUME NEW blocks \in SUBSET Occupied, Finish(blocks)
        PROVE  UNCHANGED <<transformer_layers, kv_groups>> /\ Occupied' \subseteq Occupied
    BY <2>4 DEF Finish, layerVars, Occupied
  <2>5. CASE Drain \/ StepDisabled \/ Stopped
    <3>1. UNCHANGED <<transformer_layers, kv_groups, is_block_free>>
      BY <2>5 DEF Drain, StepDisabled, Stopped, execVars, vars
    <3> QED BY <3>1 DEF Occupied
  <2> QED BY <2>1, <2>2, <2>3, <2>4, <2>5 DEF HostOnly
<1>3. Elements(kv_groups)' = Elements(kv_groups)
  BY <1>2 DEF Elements
<1>4. BusyGroups(is_block_free)' \subseteq BusyGroups(is_block_free)
  BY <1>2, BusyFollows
<1> QED BY <1>1, <1>2, <1>3, <1>4, QuietKeeps

(* ----------------------------------------------------------------------- *)
(* Every step                                                              *)

(* Every step of host and streams keeps the invariant. *)
LEMMA AsyncNextKeeps ==
  ASSUME IInv, StreamTypeOK, StreamOrder, ~EventsMayFail, [AsyncNext]_asyncVars
  PROVE  StreamTypeOK' /\ StreamOrder'
<1>1. ListInv /\ PoolInv
  BY DEF IInv
<1>2. [Next]_vars
  <2>1. UNCHANGED asyncVars => UNCHANGED vars
    BY DEF asyncVars, vars
  <2> QED BY <2>1, AsyncIsCoordinator
<1>3. ListInv' /\ PoolInv'
  BY <1>1, <1>2, NextKeepsListInv, NextKeepsPoolInv
<1>4. CASE \/ MorphCopies \/ MorphUndoCopies \/ RestoreCopies \/ RestoreUndoCopies
           \/ MorphCopyRaises \/ MorphUndoCopyRaises
           \/ RestoreCopyRaises \/ RestoreUndoCopyRaises
  BY <1>1, <1>4, CopiesKeep, RaisedCopiesKeep
<1>5. CASE ExpandQueues \/ ExpandRaisesOrdered \/ ReattachOrdered \/ ReattachFails
  <2>1. Act
    BY <1>5 DEF ExpandQueues, ExpandRaisesOrdered, ReattachOrdered, ReattachFails, InOperation, Act,
       ExecutorStep
  <2>2. Occupied' = Occupied
    BY <1>1, <1>3, <2>1, ActKeepsPool
  <2> QED BY <1>1, <1>3, <1>5, <2>2, ExpandKeeps, ExpandRaisedKeeps, ReattachKeeps
<1>6. CASE ExpandEscapes
  BY <1>6, ExpandEscapedKeeps
<1>7. CASE RecoverySynchronizes
  BY <1>1, <1>3, <1>7, RecoveryKeeps
<1>8. CASE PassQueued \/ RunCompute \/ RunCopy
  BY <1>1, <1>8, LentFacts, PassKeeps, RunComputeKeeps, RunCopyKeeps
<1>9. CASE HostOnly
  BY <1>1, <1>3, <1>9, HostKeeps
<1>10. CASE UNCHANGED asyncVars
  <2>1. UNCHANGED <<transformer_layers, kv_groups, is_block_free,
                    compute, copies, pending, last_forward, region, syncing>>
    BY <1>10 DEF asyncVars
  <2>2. /\ BusyGroups(is_block_free)' = BusyGroups(is_block_free)
        /\ Elements(kv_groups)' = Elements(kv_groups)
    BY <2>1 DEF BusyGroups, Elements
  <2> QED BY <2>1, <2>2, QuietKeeps
<1> QED BY <1>4, <1>5, <1>6, <1>7, <1>8, <1>9, <1>10 DEF AsyncNext

(* Two empty streams and FP16 layers satisfy the invariant. *)
LEMMA AsyncInitInv == AsyncInit => StreamTypeOK /\ StreamOrder
<1> SUFFICES ASSUME AsyncInit PROVE StreamTypeOK /\ StreamOrder
  OBVIOUS
<1>1. /\ compute = <<>> /\ copies = <<>> /\ pending = [l \in Layers |-> 0] /\ last_forward = 0
      /\ region = [l \in Layers |-> [head |-> "fp16", tail |-> "fp16"]] /\ syncing = FALSE
      /\ transformer_layers = [l \in Layers |-> "fp16"] /\ kv_groups = <<>>
  BY DEF AsyncInit, Init, ExecutorInit
<1>2. StreamTypeOK
  <2>1. compute \in Seq(Work) /\ copies \in Seq(Copy)
    BY <1>1
  <2>2. pending \in [Layers -> Nat]
    BY <1>1
  <2>3. region \in [Layers -> [head : {"fp16", "w4"}, tail : {"fp16", "zero", "kv"}]]
    BY <1>1
  <2> QED BY <1>1, <2>1, <2>2, <2>3 DEF StreamTypeOK
<1>3. DOMAIN compute = {} /\ DOMAIN copies = {} /\ Len(copies) = 0 /\ DOMAIN kv_groups = {}
  BY <1>1
<1>4. PassIsLast /\ PassFindsLayers /\ ZeroesOrdered /\ LentCopiesWaited /\ ZeroesOfLent
  BY <1>3 DEF PassIsLast, PassFindsLayers, ZeroesOrdered, LentCopiesWaited, ZeroesOfLent
<1>5. CopiesCovered
  BY <1>1, <1>3 DEF CopiesCovered
<1>6. WillBeInstalled
  BY <1>1, <1>3 DEF WillBeInstalled, NotCopied
<1>7. WillBeStored
  BY <1>3 DEF WillBeStored, BusyGroups
<1> QED BY <1>2, <1>4, <1>5, <1>6, <1>7 DEF StreamOrder

(* Work that touches the same memory is always ordered: the inductive invariant of the
   streams, together with their types. *)
THEOREM AsyncStreamInv ==
  ASSUME ~EventsMayFail
  PROVE  AsyncSpec => []StreamInv
<1>1. AsyncInit => StreamInv
  BY AsyncInitInv DEF StreamInv
<1>2. IInv /\ StreamInv /\ [AsyncNext]_asyncVars => StreamInv'
  BY AsyncNextKeeps DEF StreamInv
<1> QED BY <1>1, <1>2, AsyncSpecIInv, PTL DEF AsyncSpec

(* ----------------------------------------------------------------------- *)
(* What it implies                                                         *)

(* The heads of the streams wait for nothing, so neither is ordered after the other. *)
LEMMA HeadsAreUnordered ==
  ASSUME StreamTypeOK
  PROVE  /\ ComputeRuns => 1 \in DOMAIN compute /\ Head(compute) = compute[1] /\ \A j \in Nat : j >= 1 => ~CopyFirst(j, 1)
         /\ CopyRuns => 1 \in DOMAIN copies /\ Head(copies) = copies[1] /\ \A i \in Nat : i >= 1 => ~ComputeFirst(i, 1)
<1>1. ASSUME ComputeRuns
      PROVE  1 \in DOMAIN compute /\ Head(compute) = compute[1] /\ \A j \in Nat : j >= 1 => ~CopyFirst(j, 1)
  <2>1. 1 \in DOMAIN compute /\ Head(compute) = compute[1] /\ compute[1].after = 0
    BY <1>1 DEF ComputeRuns, StreamTypeOK
  <2>2. \A m \in DOMAIN compute : m <= 1 => m = 1
    BY StreamEntries
  <2> QED BY <2>1, <2>2 DEF CopyFirst
<1>2. ASSUME CopyRuns
      PROVE  1 \in DOMAIN copies /\ Head(copies) = copies[1] /\ \A i \in Nat : i >= 1 => ~ComputeFirst(i, 1)
  <2>1. 1 \in DOMAIN copies /\ Head(copies) = copies[1] /\ copies[1].after = 0
    BY <1>2 DEF CopyRuns, StreamTypeOK
  <2>2. \A m \in DOMAIN copies : m <= 1 => m = 1
    BY StreamEntries
  <2> QED BY <2>1, <2>2 DEF ComputeFirst
<1> QED BY <1>1, <1>2

(* The invariant rules out that the two streams work on the same part of a region. *)
LEMMA StreamInvNoRace == StreamInv => NoRace
<1> SUFFICES ASSUME StreamTypeOK, StreamOrder, ComputeRuns, CopyRuns,
                    NEW place \in CopyTouches(Head(copies)), place \in ComputeTouches(Head(compute))
             PROVE  FALSE
  BY DEF NoRace, StreamInv
<1> DEFINE w == compute[1]
           c == copies[1]
<1>1. /\ 1 \in DOMAIN compute /\ Head(compute) = w /\ ~CopyFirst(1, 1)
      /\ 1 \in DOMAIN copies /\ Head(copies) = c /\ ~ComputeFirst(1, 1)
  BY HeadsAreUnordered
<1>2. w.kind \in {"kernel", "zero", "wait"} /\ c.variant \in {"fp16", "w4"}
  BY <1>1, StreamEntries
<1>3. place[1] = c.layer /\ (place[2] = "tail" => c.variant = "fp16")
  BY <1>1 DEF CopyTouches, WholeRegion
<1>4. CASE w.kind = "zero"
  <2>1. place = <<w.layer, "tail">>
    BY <1>1, <1>4 DEF ComputeTouches
  <2> QED BY <1>1, <1>3, <1>4, <2>1 DEF StreamOrder, ZeroesOrdered, ZeroesTail
<1>5. CASE w.kind = "kernel"
  <2>1. place \in WeightsOf(w.layer, w.variant) \cup {<<l, "tail">> : l \in w.kv}
    BY <1>1, <1>5 DEF ComputeTouches
  <2>2. place[1] \in {w.layer} \cup w.kv
    BY <2>1 DEF WeightsOf, WholeRegion
  <2> QED BY <1>1, <1>3, <1>5, <2>2 DEF StreamOrder, PassFindsLayers, IsKernel
<1>6. CASE w.kind = "wait"
  BY <1>1, <1>6 DEF ComputeTouches
<1> QED BY <1>2, <1>4, <1>5, <1>6

(* Whenever both streams can run, what the copy writes and what the compute stream reads or
   writes are apart: neither weights nor KV blocks are overwritten while they are in use. *)
THEOREM AsyncNoRace ==
  ASSUME ~EventsMayFail
  PROVE  AsyncSpec => []NoRace
<1> QED BY AsyncStreamInv, StreamInvNoRace, PTL

(* A kernel whose turn it is finds its layer's copies done. *)
LEMMA StreamInvRunsInstalledWeights == StreamInv => RunsInstalledWeights
<1> DEFINE w == compute[1]
<1> SUFFICES ASSUME StreamTypeOK, StreamOrder, ComputeRuns, Head(compute).kind = "kernel",
                    Head(compute).layer # OtherLayers
             PROVE  /\ region[Head(compute).layer].head = Head(compute).variant
                    /\ Head(compute).variant = "fp16" => region[Head(compute).layer].tail = "fp16"
  BY DEF RunsInstalledWeights, StreamInv
<1>1. /\ 1 \in DOMAIN compute /\ Head(compute) = w
      /\ \A j \in Nat : j >= 1 => ~CopyFirst(j, 1)
  BY HeadsAreUnordered
<1>2. w.layer \in Layers /\ w.variant = transformer_layers[w.layer] /\ IsKernel(1)
  BY <1>1, StreamEntries DEF StreamOrder, PassFindsLayers, IsKernel
<1>3. \A j \in DOMAIN copies : j \in Nat /\ j >= 1 /\ (CopyOf(j, w.layer) => CopyFirst(j, 1))
  BY <1>1, <1>2, StreamEntries DEF StreamOrder, PassFindsLayers, CopyOf
<1>4. NotCopied(w.layer)
  BY <1>1, <1>3 DEF NotCopied
<1> QED BY <1>1, <1>2, <1>4 DEF StreamOrder, WillBeInstalled

(* A layer's kernels always run with the weights of the module that the host had installed
   when it queued them, wherever its copies stood then. *)
THEOREM AsyncRunsInstalledWeights ==
  ASSUME ~EventsMayFail
  PROVE  AsyncSpec => []RunsInstalledWeights
<1> QED BY AsyncStreamInv, StreamInvRunsInstalledWeights, PTL

(* With nothing left on the compute stream every busy group has been stored to. *)
LEMMA StreamInvLentKvKept == StreamInv => LentKvKept
<1> SUFFICES ASSUME StreamOrder, compute = <<>>, NEW l \in BusyGroups(is_block_free)
             PROVE  region[l].tail = "kv"
  BY DEF LentKvKept, StreamInv
<1>1. DOMAIN compute = {}
  OBVIOUS
<1> QED BY <1>1 DEF StreamOrder, WillBeStored

(* No late copy and no late zeroing replaces the KV blocks that a request holds in lent
   memory. *)
THEOREM AsyncLentKvKept ==
  ASSUME ~EventsMayFail
  PROVE  AsyncSpec => []LentKvKept
<1> QED BY AsyncStreamInv, StreamInvLentKvKept, PTL

(* ----------------------------------------------------------------------- *)
(* Types, also when events raise                                           *)

(* The types of the streams, kept by every step whatever raises. *)
LEMMA AsyncNextTypes ==
  ASSUME IInv, StreamTypeOK, EventsWithin, AsyncNext
  PROVE  StreamTypeOK' /\ EventsWithin'
<1>a. ListInv /\ PoolInv
  BY DEF IInv
<1>b. /\ compute \in Seq(Work) /\ copies \in Seq(Copy) /\ pending \in [Layers -> Nat]
      /\ last_forward \in Nat /\ syncing \in BOOLEAN
      /\ Len(copies) \in Nat /\ Len(compute) \in Nat
  BY DEF StreamTypeOK
<1>c. ASSUME UNCHANGED <<copies, region>>, compute' \in Seq(Work), pending' \in [Layers -> Nat],
             \A l \in Layers : pending'[l] <= pending[l],
             last_forward' \in Nat, syncing' \in BOOLEAN
      PROVE  StreamTypeOK' /\ EventsWithin'
  <2>1. \A l \in Layers : pending'[l] <= Len(copies')
    BY <1>b, <1>c DEF EventsWithin
  <2>2. StreamTypeOK'
    BY <1>b, <1>c DEF StreamTypeOK
  <2> QED BY <2>1, <2>2 DEF EventsWithin
<1>d. ASSUME NEW l \in Layers, NEW v \in {"fp16", "w4"}
      PROVE  /\ QueuedCopy(l, v) \in Seq(Copy) /\ Len(QueuedCopy(l, v)) = Len(copies) + 1
  <2>1. [layer |-> l, variant |-> v, after |-> last_forward] \in Copy
    BY <1>b DEF Copy
  <2> QED BY <1>b, <2>1 DEF QueuedCopy
<1>e. ASSUME NEW l \in Layers, NEW v \in {"fp16", "w4"}, Enqueue(l, v) \/ EnqueueRaises(l, v)
      PROVE  StreamTypeOK' /\ EventsWithin'
  <2>1. UNCHANGED <<compute, last_forward, region, syncing>>
    BY <1>e DEF Enqueue, EnqueueRaises
  <2>2. /\ copies' \in Seq(Copy) /\ Len(copies') \in Nat /\ Len(copies') >= Len(copies)
    BY <1>b, <1>d, <1>e DEF Enqueue, EnqueueRaises
  <2>3. pending' \in [Layers -> Nat] /\ \A m \in Layers : pending'[m] <= Len(copies')
    <3>1. CASE Enqueue(l, v)
      <4>1. pending' = [pending EXCEPT ![l] = Len(copies) + 1] /\ Len(copies') = Len(copies) + 1
        BY <1>d, <3>1 DEF Enqueue
      <4>2. \A m \in Layers : pending[m] \in Nat /\ pending[m] <= Len(copies)
        BY <1>b DEF EventsWithin
      <4> QED BY <1>b, <4>1, <4>2
    <3>2. CASE EnqueueRaises(l, v)
      BY <1>b, <2>2, <3>2 DEF EnqueueRaises, EventsWithin
    <3> QED BY <1>e, <3>1, <3>2
  <2> QED BY <2>1, <2>2, <2>3 DEF StreamTypeOK, EventsWithin
<1>1. CASE \/ MorphCopies \/ MorphCopyRaises \/ MorphUndoCopies \/ MorphUndoCopyRaises
           \/ RestoreCopies \/ RestoreCopyRaises \/ RestoreUndoCopies \/ RestoreUndoCopyRaises
  <2>1. /\ call = "morph_to_w4" \/ Restoring
        /\ \/ Iterating /\ \E v \in {"fp16", "w4"} :
                Enqueue(batch[k + 1], v) \/ EnqueueRaises(batch[k + 1], v)
           \/ k > 0 /\ \E v \in {"fp16", "w4"} : Enqueue(batch[k], v) \/ EnqueueRaises(batch[k], v)
    BY <1>1 DEF MorphCopies, MorphCopyRaises, MorphUndoCopies, MorphUndoCopyRaises, RestoreCopies,
       RestoreCopyRaises, RestoreUndoCopies, RestoreUndoCopyRaises, MorphLayer, MorphRaises, MorphUndo,
       MorphUndoRaises, RestoreLayer, RestoreRaises, RestoreUndo, RestoreUndoRaises
  <2> QED BY <1>a, <1>e, <2>1, CopiedIsNotLent
<1>2. CASE ExpandQueues \/ ExpandRaisesOrdered \/ ExpandEscapes
  <2>1. /\ call = "expand_kv" /\ Iterating /\ UNCHANGED <<copies, region, syncing>>
        /\ \/ UNCHANGED <<compute, pending>>
           \/ ExpandBegun(batch[k + 1]) \/ QueueZero(batch[k + 1])
        /\ last_forward' = last_forward \/ last_forward' = Len(compute')
    BY <1>2 DEF ExpandQueues, ExpandRaisesOrdered, ExpandEscapes, ExpandLayer, ExpandRaises,
       ExpandRollbackRaises, ExpandLeavesGroup, ExpandBegun
  <2>2. PICK l \in Layers : l = batch[k + 1]
    BY <1>a, <2>1, ExpandedLayer
  <2>3. Zero(l) \in Work /\ WaitFor(pending[l]) \in Work /\ pending[l] \in Nat
    BY <1>b, QueuedWork
  <2>a. /\ [pending EXCEPT ![l] = 0] \in [Layers -> Nat]
        /\ \A m \in Layers : [pending EXCEPT ![l] = 0][m] <= pending[m] /\ pending[m] <= pending[m]
    BY <1>b, <2>3
  <2>b. \/ compute' = compute
        \/ compute' = Append(compute, Zero(l))
        \/ compute' = Append(compute, WaitFor(pending[l]))
    BY <2>1, <2>2 DEF ExpandBegun, QueueZero
  <2>4. compute' \in Seq(Work)
    <3>1. \A w \in Work : Append(compute, w) \in Seq(Work)
      BY <1>b
    <3>2. CASE compute' = compute
      BY <1>b, <3>2
    <3>3. ASSUME NEW w \in Work, compute' = Append(compute, w) PROVE compute' \in Seq(Work)
      BY <3>1, <3>3
    <3> QED BY <2>3, <2>b, <3>2, <3>3
  <2>5. pending' \in [Layers -> Nat] /\ \A m \in Layers : pending'[m] <= pending[m]
    BY <1>b, <2>1, <2>2, <2>a DEF ExpandBegun, QueueZero
  <2>6. last_forward' \in Nat
    BY <1>b, <2>1, <2>4
  <2> QED BY <1>b, <1>c, <2>1, <2>4, <2>5, <2>6
<1>3. CASE ReattachOrdered \/ ReattachFails
  <2>1. Restoring /\ \E n \in 0 .. Len(batch) : AwaitBatch(n)
    <3>1. Restoring
      BY <1>3 DEF ReattachOrdered, ReattachFails, RecoverReattach, RecoverReattachRaises, Restoring
    <3>2. batch \in Seq(Layers)
      BY <1>a, <3>1, InRestore
    <3> QED BY <1>3, <3>1, <3>2 DEF ReattachOrdered, ReattachFails
  <2>2. PICK n \in 0 .. Len(batch) : AwaitBatch(n)
    BY <2>1
  <2> DEFINE awaited == {batch[i] : i \in 1 .. n}
  <2>3. awaited \in SUBSET Layers
    BY <1>a, <2>1, InRestore
  <2>4. Furthest({0} \cup {pending[l] : l \in awaited}) \in Nat
    BY <2>3, FurthestBounds DEF EventsWithin
  <2>5. /\ compute' = Append(compute, WaitFor(Furthest({0} \cup {pending[l] : l \in awaited})))
        /\ pending' = [l \in Layers |-> IF l \in awaited THEN 0 ELSE pending[l]]
        /\ UNCHANGED <<copies, last_forward, region, syncing>>
    BY <2>2 DEF AwaitBatch
  <2> HIDE DEF awaited
  <2>6. \A m \in Nat : WaitFor(m) \in Work
    BY DEF WaitFor, Work
  <2>7. compute' \in Seq(Work)
    BY <1>b, <2>4, <2>5, <2>6
  <2>8. pending' \in [Layers -> Nat] /\ \A m \in Layers : pending'[m] <= pending[m]
    BY <1>b, <2>5
  <2> QED BY <1>b, <1>c, <2>5, <2>7, <2>8
<1>4. CASE PassQueued
  <2>1. /\ UNCHANGED <<copies, region>> /\ syncing' = TRUE /\ last_forward' = Len(compute')
        /\ compute' = compute \o Pass(BusyGroups(is_block_free'),
                                      BusyGroups(is_block_free') \ BusyGroups(is_block_free))
        /\ pending' = [l \in Layers |-> 0]
    BY <1>4 DEF PassQueued
  <2>2. BusyGroups(is_block_free') \in SUBSET Layers
    <3>1. \A i \in DOMAIN kv_groups : kv_groups[i] \in Layers
      BY <1>a, LentFacts
    <3> QED BY <3>1 DEF BusyGroups
  <2>3. compute' \in Seq(Work)
    <3> DEFINE busy == BusyGroups(is_block_free')
               fresh == busy \ BusyGroups(is_block_free)
    <3>1. busy \in SUBSET Layers /\ fresh \in SUBSET Layers /\ compute' = compute \o Pass(busy, fresh)
      BY <2>1, <2>2
    <3> HIDE DEF busy, fresh
    <3> QED BY <1>a, <3>1, LentFacts, PassEntries
  <2>4. pending' \in [Layers -> Nat] /\ \A m \in Layers : pending'[m] <= pending[m]
    BY <1>b, <2>1
  <2>5. last_forward' \in Nat
    BY <2>1, <2>3
  <2> QED BY <1>c, <2>1, <2>3, <2>4, <2>5
<1>5. CASE RecoverySynchronizes \/ HostOnly
  BY <1>b, <1>5 DEF RecoverySynchronizes, HostOnly, streamVars, StreamTypeOK, EventsWithin
<1>6. CASE RunCompute
  <2>1. /\ compute' \in Seq(Work) /\ copies' \in Seq(Copy) /\ Len(copies') = Len(copies)
        /\ Head(compute) = compute[1]
    BY <1>6, ComputeShift
  <2>2. /\ pending' = pending /\ last_forward' = OneLess(last_forward)
        /\ syncing' = (syncing /\ Len(compute) > 1)
        /\ region' = [m \in Layers |-> [region[m] EXCEPT !.tail = TailAfter(compute[1], m)]]
    BY <1>6, <2>1 DEF RunCompute
  <2>3. \A m \in Layers : region[m] \in [head : {"fp16", "w4"}, tail : {"fp16", "zero", "kv"}]
    BY DEF StreamTypeOK
  <2>4. \A m \in Layers : TailAfter(compute[1], m) \in {"fp16", "zero", "kv"}
    BY <2>3 DEF TailAfter
  <2>5. region' \in [Layers -> [head : {"fp16", "w4"}, tail : {"fp16", "zero", "kv"}]]
    BY <2>2, <2>3, <2>4
  <2>6. last_forward' \in Nat
    BY <1>b, <2>2 DEF OneLess
  <2>7. syncing' \in BOOLEAN
    BY <2>2
  <2> QED BY <1>b, <2>1, <2>2, <2>5, <2>6, <2>7 DEF StreamTypeOK, EventsWithin
<1>7. CASE RunCopy
  <2>1. compute' \in Seq(Work) /\ copies' \in Seq(Copy) /\ Len(copies') = Len(copies) - 1
    BY <1>7, CopyShift
  <2>2. /\ last_forward' = last_forward /\ syncing' = syncing
        /\ pending' = [l \in Layers |-> OneLess(pending[l])]
    BY <1>7 DEF RunCopy
  <2>3. 1 \in Layers
    BY ExecutorAssumption DEF Layers
  <2>4. region' \in [Layers -> [head : {"fp16", "w4"}, tail : {"fp16", "zero", "kv"}]]
    BY <1>7, <2>3, CopyWrites
  <2>5. ASSUME NEW l \in Layers
        PROVE  pending'[l] \in Nat /\ pending'[l] <= Len(copies')
    <3>1. pending[l] \in Nat /\ pending[l] <= Len(copies) /\ pending'[l] = OneLess(pending[l])
      BY <1>b, <2>2 DEF EventsWithin
    <3>2. Len(copies') \in Nat
      BY <2>1
    <3> QED BY <1>b, <2>1, <3>1, <3>2 DEF OneLess
  <2>6. pending' \in [Layers -> Nat]
    BY <2>2, <2>5
  <2> QED BY <1>b, <2>1, <2>2, <2>4, <2>5, <2>6 DEF StreamTypeOK, EventsWithin
<1> QED BY <1>1, <1>2, <1>3, <1>4, <1>5, <1>6, <1>7 DEF AsyncNext

(* The streams keep their types whatever raises, an event of CUDA included. *)
THEOREM AsyncStreamTypeOK == AsyncSpec => []StreamTypeOK
<1>1. AsyncInit => StreamTypeOK /\ EventsWithin
  <2> SUFFICES ASSUME AsyncInit PROVE StreamTypeOK /\ EventsWithin
    OBVIOUS
  <2>1. copies = <<>> /\ pending = [l \in Layers |-> 0]
    BY DEF AsyncInit
  <2>2. EventsWithin
    BY <2>1 DEF EventsWithin
  <2> QED BY <2>2, AsyncInitInv
<1>2. IInv /\ StreamTypeOK /\ EventsWithin /\ [AsyncNext]_asyncVars
        => (StreamTypeOK /\ EventsWithin)'
  <2> SUFFICES ASSUME IInv, StreamTypeOK, EventsWithin, [AsyncNext]_asyncVars
               PROVE  (StreamTypeOK /\ EventsWithin)'
    OBVIOUS
  <2>1. CASE UNCHANGED asyncVars
    BY <2>1 DEF asyncVars, StreamTypeOK, EventsWithin
  <2> QED BY <2>1, AsyncNextTypes
<1> QED BY <1>1, <1>2, AsyncSpecIInv, PTL DEF AsyncSpec
=============================================================================
