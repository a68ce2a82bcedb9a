------------------------- MODULE TransferInvariant --------------------------
(***************************************************************************)
(* The inductive invariant of the two streams.                             *)
(*                                                                         *)
(* Work that touches the same memory is ordered in one of two ways: the    *)
(* later one waits itself for the other stream, or it is queued behind     *)
(* something that does.  While a pass is under way the host waits too, so  *)
(* what the pass found installed stays installed.                          *)
(***************************************************************************)
EXTENDS AsyncTransfer, CoordinatorInvariant

(* The copy j is over when the operation i of the compute stream starts.   *)
CopyFirst(j, i) == \E m \in DOMAIN compute : m <= i /\ compute[m].after >= j

(* The operation i is over when the copy j starts.                         *)
ComputeFirst(i, j) == \E m \in DOMAIN copies : m <= j /\ copies[m].after >= i

CopyOf(j, l) == copies[j].layer = l
LastCopyOf(j, l) == CopyOf(j, l) /\ \A m \in DOMAIN copies : m > j => ~CopyOf(m, l)
NotCopied(l) == \A j \in DOMAIN copies : ~CopyOf(j, l)

IsKernel(i) == compute[i].kind = "kernel"
ZeroesTail(i, l) == compute[i].kind = "zero" /\ compute[i].layer = l
StoresFirst(i, l) == l \in compute[i].first

(* Only the host's last pass can be on the compute stream, at its end.     *)
PassIsLast ==
  \A i \in DOMAIN compute :
    /\ IsKernel(i) => syncing /\ \A m \in DOMAIN compute : m >= i => IsKernel(m)
    /\ compute[i].first # {} => IsKernel(i) /\ compute[i].first \subseteq compute[i].kv

(* A pass runs the modules that are installed, after every copy into what  *)
(* it reads or stores to.                                                  *)
PassFindsLayers ==
  \A i \in DOMAIN compute : IsKernel(i) =>
    /\ compute[i].layer # OtherLayers => compute[i].variant = transformer_layers[compute[i].layer]
    /\ \A j \in DOMAIN copies :
         copies[j].layer \in {compute[i].layer} \cup compute[i].kv => CopyFirst(j, i)

(* A zeroing and an FP16 copy, which both write the tail.                  *)
ZeroesOrdered ==
  \A i \in DOMAIN compute, j \in DOMAIN copies :
    ZeroesTail(i, copies[j].layer) /\ copies[j].variant = "fp16" =>
      CopyFirst(j, i) \/ ComputeFirst(i, j)

(* Every copy the compute stream does not wait for has its event still     *)
(* registered.                                                             *)
CopiesCovered ==
  /\ \A l \in Layers : pending[l] <= Len(copies)
  /\ \A j \in DOMAIN copies :
       j <= pending[copies[j].layer] \/ CopyFirst(j, Len(compute))

(* Whatever is copied into a region that is lent is waited for.            *)
LentCopiesWaited ==
  \A j \in DOMAIN copies :
    copies[j].layer \in Elements(kv_groups) => CopyFirst(j, Len(compute))

(* A zeroing that last_forward_event does not cover is of a lent region.   *)
ZeroesOfLent ==
  \A i \in DOMAIN compute :
    compute[i].kind = "zero" /\ i > last_forward => compute[i].layer \in Elements(kv_groups)

(* Once the queued copies are done each region holds the weights of the    *)
(* installed module, tail included.                                        *)
WillBeInstalled ==
  \A l \in Layers :
    /\ \A j \in DOMAIN copies : LastCopyOf(j, l) => copies[j].variant = transformer_layers[l]
    /\ NotCopied(l) =>
         /\ region[l].head = transformer_layers[l]
         /\ transformer_layers[l] = "fp16" => region[l].tail = "fp16"
    /\ transformer_layers[l] = "fp16" =>
         \A i \in DOMAIN compute : ZeroesTail(i, l) \/ StoresFirst(i, l) =>
           \E j \in DOMAIN copies : CopyOf(j, l) /\ ComputeFirst(i, j)

(* The blocks of requests are stored, or will be in the pass under way.    *)
WillBeStored ==
  \A l \in BusyGroups(is_block_free) :
    \/ \E i \in DOMAIN compute : StoresFirst(i, l)
    \/ /\ region[l].tail = "kv" /\ NotCopied(l)
       /\ \A i \in DOMAIN compute : ~ZeroesTail(i, l)

(* Work on the same memory is ordered, and what is queued will be done.     *)
StreamOrder ==
  /\ PassIsLast
  /\ PassFindsLayers
  /\ ZeroesOrdered
  /\ CopiesCovered
  /\ LentCopiesWaited
  /\ ZeroesOfLent
  /\ WillBeInstalled
  /\ WillBeStored

(* The queues and events are what the streams can have, and ordered: the    *)
(* invariant of the steps of host and streams.                             *)
StreamInv == StreamTypeOK /\ StreamOrder
=============================================================================
