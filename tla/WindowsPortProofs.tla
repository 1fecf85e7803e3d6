-------------------------- MODULE WindowsPortProofs --------------------------
(***************************************************************************)
(* The overlapped operations of WindowsPort: whose they are, what keeps    *)
(* their memory, and where the bytes they have read go.  The kernel never  *)
(* writes into freed memory, every error has its cause, a closed port has  *)
(* given its handle back, and the port implements InputStream.             *)
(***************************************************************************)
EXTENDS WindowsPort, ByteSequences

Operation ==
  [st : {"free", "pending", "done", "ready"},
   kind : {"none", "read", "write", "comm"}, task : Tasks \cup {None},
   pin : {"frame", "cache", "abandoned"},
   abort : {"no", "cancel", "purge"},
   status : {"none", "ok", "aborted", "removed"},
   data : Seq(Nat), n : Nat]

Places == {"idle", "io", "lock", "queued", "flush", "sleep"}

Typed ==
  /\ runtime \in Runtimes /\ open \in BOOLEAN /\ handle \in BOOLEAN
  /\ rx \in Seq(Nat) /\ delivered \in Seq(Nat) /\ arrived \in Nat
  /\ op \in [Ops -> Operation]
  /\ pc \in [Tasks -> Places]
  /\ call \in [Tasks -> Methods \cup {"none"}]
  /\ offset \in Nat

PortOK ==
  /\ opened \in {"no", "lookup", "cancelled"} => ~open /\ ~handle
  /\ handle /\ ~open => opened \in {"register", "mask"}

\* The operation a method waits for.
KindOf(m) == CASE m = "receive" -> "read"
               [] m = "send" -> "write"
               [] m = "wait_modem_event" -> "comm"
               [] OTHER -> "none"

\* What can be said of one operation: how it ended, what keeps its memory,
\* that only a read which ended well has bytes, that only asyncio lets an
\* operation outlive its call, and that an aborted one was told to end: by a
\* purge if asyncio still waits for it, by its own cancellation if it is an event
\* wait.
OpOK(o) ==
  /\ op[o].st = "free" => op[o].task = None
  /\ op[o].st \in {"done", "ready"} => op[o].status # "none"
  /\ op[o].status = "removed" => removed
  /\ op[o].data # <<>> =>
       op[o].st \in {"done", "ready"} /\ op[o].kind = "read" /\ op[o].status = "ok"
  /\ op[o].task = None /\ op[o].st # "free" => runtime = "asyncio"
  /\ op[o].st = "pending" /\ op[o].task = None => op[o].pin # "frame"
  /\ op[o].st = "pending" /\ op[o].kind # "comm" /\ runtime = "asyncio"
       => op[o].pin # "frame"
  /\ op[o].status = "aborted" =>
       op[o].abort # "no" /\ (op[o].kind = "comm" => op[o].abort = "cancel")
  /\ op[o].task # None /\ runtime = "asyncio" => op[o].abort # "cancel"

\* A task in I/O has one operation, of its method's kind, and no other task has
\* any.
Owned ==
  /\ \A t \in Tasks : pc[t] = "io" => \E o \in Ops : op[o].task = t
  /\ \A o \in Ops : op[o].task # None =>
       pc[op[o].task] = "io" /\ op[o].kind = KindOf(call[op[o].task])
  /\ \A o, p \in Ops : op[o].task # None /\ op[p].task = op[o].task => p = o

OneReceiver ==
  \A t, u \in Tasks : call[t] = "receive" /\ call[u] = "receive" => u = t

IInv == Typed /\ PortOK /\ (\A o \in Ops : OpOK(o)) /\ Owned /\ OneReceiver

-----------------------------------------------------------------------------
(* What a step does to the operations and to the bytes: one of six things. *)

\* Only who has asked for the end of o may be different: a purge asks for it,
\* and on Trio a cancellation.
Kept(o) ==
  /\ \/ op'[o].abort = op[o].abort
     \/ op'[o].abort = "purge" /\ op[o].abort # "cancel"
     \/ op'[o].abort = "cancel" /\ runtime = "trio"
  /\ op'[o].st = op[o].st /\ op'[o].kind = op[o].kind /\ op'[o].task = op[o].task
  /\ op'[o].pin = op[o].pin /\ op'[o].status = op[o].status
  /\ op'[o].data = op[o].data

Arrives ==
  /\ arrived' = arrived + 1 /\ rx' = Append(rx, arrived + 1)
  /\ UNCHANGED <<delivered, lost, cleared>>

Clears ==
  /\ cleared' = cleared \cup Bytes(rx) /\ rx' = <<>>
  /\ UNCHANGED <<arrived, delivered, lost>>

\* No task gets or loses an operation.
SameOps == op' \in [Ops -> Operation] /\ \A o \in Ops : Kept(o)

SameCalls ==
  /\ pc' \in [Tasks -> Places] /\ call' \in [Tasks -> Methods \cup {"none"}]
  /\ \A t \in Tasks : /\ pc'[t] = "io" <=> pc[t] = "io"
                      /\ pc[t] = "io" => call'[t] = call[t]
                      /\ call'[t] = "receive" => call[t] = "receive"

Keeps ==
  SameOps /\ SameCalls /\ (UNCHANGED inVars \/ (Arrives /\ open) \/ Clears)

\* t, which waits for o if it waits for anything, may give o a new content.
Turns(t, o) ==
  /\ op[o].task \in {None, t}
  /\ pc[t] = "io" => op[o].task = t

Issues(t, m, o) ==
  /\ Turns(t, o) /\ op[o].data = <<>>
  /\ op' = [op EXCEPT ![o] = Pending(t, KindOf(m))]
  /\ pc' = [pc EXCEPT ![t] = "io"] /\ call' = [call EXCEPT ![t] = m]
  /\ KindOf(m) # "none"
  /\ m = "receive" => \A u \in Tasks \ {t} : call[u] # "receive"
  /\ UNCHANGED inVars

Frees(t, o) ==
  /\ Turns(t, o)
  /\ op' = [op EXCEPT ![o] = Free]
  /\ pc' = [pc EXCEPT ![t] = "idle"] /\ call' = [call EXCEPT ![t] = "none"]
  /\ \/ op[o].data = <<>> /\ UNCHANGED inVars
     \/ /\ op[o].task = t /\ delivered' = delivered \o op[o].data
        /\ UNCHANGED <<rx, arrived, lost, cleared>>

Leaves(t, o, p) ==
  /\ op[o].task = t /\ op[o].st # "ready" /\ runtime = "asyncio"
  /\ (p = op[o].pin /\ op[o].kind # "comm") \/ p = "abandoned"
  /\ op' = [op EXCEPT ![o] = [op[o] EXCEPT !.task = None, !.abort = "cancel",
                                           !.pin = p]]
  /\ pc' = [pc EXCEPT ![t] = "idle"] /\ call' = [call EXCEPT ![t] = "none"]
  /\ UNCHANGED inVars

\* d are the bytes the kernel has taken from its queue.
Ends(o, s, d, k) ==
  /\ op[o].st = "pending"
  /\ op' = [op EXCEPT ![o] = [op[o] EXCEPT !.st = "done", !.status = s,
                                           !.data = d, !.n = k]]
  /\ s \in {"ok", "aborted", "removed"} /\ (s = "removed" => removed)
  /\ s = "aborted" =>
       op[o].abort # "no" /\ (op[o].kind = "comm" => op[o].abort = "cancel")
  /\ UNCHANGED <<pc, call>>
  /\ \/ d = <<>> /\ UNCHANGED inVars
     \/ /\ s = "ok" /\ op[o].kind = "read" /\ open
        /\ \E j \in 0..Len(rx) :
             d = SubSeq(rx, 1, j) /\ rx' = SubSeq(rx, j + 1, Len(rx))
        /\ UNCHANGED <<arrived, delivered, lost, cleared>>

Effects ==
  \/ Keeps
  \/ \E t \in Tasks, o \in Ops : \/ \E m \in Methods : Issues(t, m, o)
                                 \/ Frees(t, o)
                                 \/ \E p \in {op[o].pin, "abandoned"} : Leaves(t, o, p)
  \/ \E o \in Ops : \/ Dequeue(o)
                    \/ \E s, d : \E k \in Nat : d \in Seq(Nat) /\ Ends(o, s, d, k)

\* Frame of every step of the port.
Frame ==
  /\ runtime' = runtime /\ (removed => removed')
  /\ open' \in BOOLEAN /\ handle' \in BOOLEAN /\ offset' \in Nat

OpsOK == \A o \in Ops : OpOK(o)

\* The record of an operation, by its fields.
LEMMA Fields ==
  ASSUME Typed, NEW o \in Ops
  PROVE  /\ op[o].st \in {"free", "pending", "done", "ready"}
         /\ op[o].kind \in {"none", "read", "write", "comm"}
         /\ op[o].task \in Tasks \cup {None}
         /\ op[o].pin \in {"frame", "cache", "abandoned"}
         /\ op[o].status \in {"none", "ok", "aborted", "removed"}
         /\ op[o].data \in Seq(Nat) /\ op[o].n \in Nat
BY DEF Typed, Operation

\* The new record of a step that changes one operation, and the others.
LEMMA OneChanges ==
  ASSUME Typed, NEW o \in Ops, NEW r \in Operation, op' = [op EXCEPT ![o] = r]
  PROVE  /\ op' \in [Ops -> Operation] /\ op'[o] = r
         /\ \A p \in Ops \ {o} : op'[p] = op[p]
BY DEF Typed

LEMMA Records ==
  ASSUME Typed, NEW t \in Tasks, NEW m, KindOf(m) # "none"
  PROVE  /\ Free \in Operation /\ Pending(t, KindOf(m)) \in Operation
         /\ Free.st = "free" /\ Free.task = None /\ Free.data = <<>>
         /\ Free.status = "none"
         /\ LET r == Pending(t, KindOf(m))
            IN  /\ r.st = "pending" /\ r.task = t /\ r.data = <<>>
                /\ r.status = "none" /\ r.kind = KindOf(m) /\ r.abort = "no"
                /\ r.kind # "comm" /\ runtime = "asyncio" => r.pin # "frame"
<1>1. KindOf(m) \in {"read", "write", "comm"}
  BY DEF KindOf
<1>2. <<>> \in Seq(Nat)
  OBVIOUS
<1> QED
  BY <1>1, <1>2 DEF Free, Pending, Operation

-----------------------------------------------------------------------------
(* The invariant survives each of the six. *)

LEMMA KeepsInv ==
  ASSUME IInv, Frame, Keeps
  PROVE  OpsOK' /\ Owned' /\ OneReceiver'
<1>1. OpsOK'
  BY DEF IInv, Frame, Keeps, SameOps, Kept, OpsOK, OpOK
<1>2. Owned'
  BY DEF IInv, Keeps, SameOps, SameCalls, Kept, Owned, Typed, Operation
<1>3. OneReceiver'
  BY DEF IInv, Keeps, SameCalls, OneReceiver
<1> QED
  BY <1>1, <1>2, <1>3

LEMMA IssuesInv ==
  ASSUME IInv, Frame, NEW t \in Tasks, NEW m \in Methods, NEW o \in Ops,
         Issues(t, m, o)
  PROVE  OpsOK' /\ Owned' /\ OneReceiver' /\ op' \in [Ops -> Operation]
<1> DEFINE r == Pending(t, KindOf(m))
<1>1. /\ r \in Operation
      /\ r.st = "pending" /\ r.task = t /\ r.data = <<>> /\ r.status = "none"
      /\ r.kind = KindOf(m) /\ r.abort = "no"
      /\ r.kind # "comm" /\ runtime = "asyncio" => r.pin # "frame"
  BY Records DEF IInv, Issues
<1>2. /\ op' = [op EXCEPT ![o] = r]
      /\ pc' = [pc EXCEPT ![t] = "io"] /\ call' = [call EXCEPT ![t] = m]
      /\ Turns(t, o)
      /\ m = "receive" => \A u \in Tasks \ {t} : call[u] # "receive"
  BY DEF Issues
<1> HIDE DEF r
<1>3. /\ op' \in [Ops -> Operation] /\ op'[o] = r
      /\ \A p \in Ops \ {o} : op'[p] = op[p]
  BY <1>1, <1>2, OneChanges DEF IInv
<1>4. /\ \A p \in Ops : op[p].task \in Tasks \cup {None}
      /\ pc \in [Tasks -> Places]
      /\ call \in [Tasks -> Methods \cup {"none"}]
  BY Fields DEF IInv, Typed, Places
<1>5. t # None
  BY NoneAssumption
<1>6. OpsOK'
  <2>1. ASSUME NEW p \in Ops PROVE OpOK(p)'
    <3>1. CASE p = o
      BY <1>1, <1>3, <1>5, <3>1 DEF OpOK, Frame
    <3>2. CASE p # o
      BY <1>3, <3>2 DEF OpOK, IInv, Frame
    <3> QED
      BY <3>1, <3>2
  <2> QED
    BY <2>1 DEF OpsOK
<1>7. Owned'
  <2>1. ASSUME NEW u \in Tasks, pc'[u] = "io"
        PROVE  \E p \in Ops : op'[p].task = u
    <3>1. CASE u = t
      BY <1>1, <1>3, <3>1
    <3>2. CASE u # t
      <4>1. PICK p \in Ops : op[p].task = u
        BY <1>2, <1>4, <2>1, <3>2 DEF IInv, Owned
      <4>2. p # o
        BY <1>2, <3>2, <4>1, NoneAssumption DEF Turns
      <4> QED
        BY <1>3, <4>1, <4>2
    <3> QED
      BY <3>1, <3>2
  <2>2. ASSUME NEW p \in Ops \ {o}, op[p].task # None
        PROVE  op[p].task \in Tasks /\ op[p].task # t
    BY <1>2, <1>4, <2>2 DEF IInv, Owned, Turns
  <2>3. ASSUME NEW p \in Ops, op'[p].task # None
        PROVE  pc'[op'[p].task] = "io" /\ op'[p].kind = KindOf(call'[op'[p].task])
    <3>1. CASE p = o
      BY <1>1, <1>2, <1>3, <1>4, <3>1
    <3>2. CASE p # o
      BY <1>2, <1>3, <1>4, <2>2, <2>3, <3>2 DEF IInv, Owned
    <3> QED
      BY <3>1, <3>2
  <2>4. ASSUME NEW p \in Ops, NEW q \in Ops, op'[p].task # None,
               op'[q].task = op'[p].task
        PROVE  q = p
    BY <1>1, <1>3, <2>2, <2>4 DEF IInv, Owned
  <2> QED
    BY <2>1, <2>3, <2>4 DEF Owned
<1>8. OneReceiver'
  BY <1>2, <1>4 DEF IInv, OneReceiver
<1> QED
  BY <1>3, <1>6, <1>7, <1>8

\* The same for the two ways a task is rid of its operation: r is what is left
\* of it.
LEMMA LeavingOwned ==
  ASSUME IInv, NEW t \in Tasks, NEW o \in Ops, NEW r \in Operation,
         Turns(t, o), r.task = None,
         op' = [op EXCEPT ![o] = r], pc' = [pc EXCEPT ![t] = "idle"],
         call' = [call EXCEPT ![t] = "none"]
  PROVE  Owned' /\ OneReceiver'
<1>3. /\ op' \in [Ops -> Operation] /\ op'[o] = r
      /\ \A p \in Ops \ {o} : op'[p] = op[p]
  BY OneChanges DEF IInv
<1>4. /\ \A p \in Ops : op[p].task \in Tasks \cup {None}
      /\ pc \in [Tasks -> Places]
      /\ call \in [Tasks -> Methods \cup {"none"}]
  BY Fields DEF IInv, Typed, Places
<1>7. Owned'
  <2>1. ASSUME NEW u \in Tasks, pc'[u] = "io"
        PROVE  \E p \in Ops : op'[p].task = u
    <3>1. u # t /\ pc[u] = "io"
      BY <1>4, <2>1
    <3>2. PICK p \in Ops : op[p].task = u
      BY <3>1 DEF IInv, Owned
    <3>3. p # o
      BY <3>1, <3>2, NoneAssumption DEF Turns
    <3> QED
      BY <1>3, <3>2, <3>3
  <2>2. ASSUME NEW p \in Ops \ {o}, op[p].task # None
        PROVE  op[p].task \in Tasks /\ op[p].task # t
    BY <1>4, <2>2 DEF IInv, Owned, Turns
  <2>3. ASSUME NEW p \in Ops, op'[p].task # None
        PROVE  pc'[op'[p].task] = "io" /\ op'[p].kind = KindOf(call'[op'[p].task])
    <3>1. p # o
      BY <1>3, <2>3
    <3> QED
      BY <1>3, <1>4, <2>2, <2>3, <3>1 DEF IInv, Owned
  <2>4. ASSUME NEW p \in Ops, NEW q \in Ops, op'[p].task # None,
               op'[q].task = op'[p].task
        PROVE  q = p
    BY <1>3, <2>4 DEF IInv, Owned
  <2> QED
    BY <2>1, <2>3, <2>4 DEF Owned
<1>8. OneReceiver'
  BY <1>4 DEF IInv, OneReceiver
<1> QED
  BY <1>7, <1>8

LEMMA FreesInv ==
  ASSUME IInv, Frame, NEW t \in Tasks, NEW o \in Ops, Frees(t, o)
  PROVE  OpsOK' /\ Owned' /\ OneReceiver' /\ op' \in [Ops -> Operation]
<1>1. /\ Free \in Operation /\ Free.st = "free" /\ Free.task = None
      /\ Free.data = <<>> /\ Free.status = "none"
  <2>1. KindOf("receive") # "none"
    BY DEF KindOf
  <2> QED
    BY <2>1, Records DEF IInv
<1>2. /\ op' \in [Ops -> Operation] /\ op'[o] = Free
      /\ \A p \in Ops \ {o} : op'[p] = op[p]
  BY <1>1, OneChanges DEF IInv, Frees
<1>3. OpsOK'
  <2>1. ASSUME NEW p \in Ops PROVE OpOK(p)'
    <3>1. CASE p = o
      BY <1>1, <1>2, <3>1 DEF OpOK
    <3>2. CASE p # o
      BY <1>2, <3>2 DEF OpOK, IInv, Frame
    <3> QED
      BY <3>1, <3>2
  <2> QED
    BY <2>1 DEF OpsOK
<1> QED
  BY <1>1, <1>2, <1>3, LeavingOwned DEF Frees

LEMMA LeavesInv ==
  ASSUME IInv, Frame, NEW t \in Tasks, NEW o \in Ops,
         NEW a \in {op[o].pin, "abandoned"}, Leaves(t, o, a)
  PROVE  OpsOK' /\ Owned' /\ OneReceiver' /\ op' \in [Ops -> Operation]
<1>1. PICK r \in Operation :
        r = [op[o] EXCEPT !.task = None, !.abort = "cancel", !.pin = a]
  <2>1. op[o] \in Operation /\ a \in {"frame", "cache", "abandoned"}
    BY Fields DEF IInv, Typed
  <2> QED
    BY <2>1 DEF Operation
<1>2. /\ op[o] \in Operation
      /\ r.st = op[o].st /\ r.kind = op[o].kind /\ r.task = None /\ r.pin = a
      /\ r.status = op[o].status /\ r.data = op[o].data
  BY <1>1 DEF IInv, Typed, Operation
<1>3. /\ op' \in [Ops -> Operation] /\ op'[o] = r
      /\ \A p \in Ops \ {o} : op'[p] = op[p]
  BY <1>1, OneChanges DEF IInv, Leaves
<1>4. OpsOK'
  <2>1. ASSUME NEW p \in Ops PROVE OpOK(p)'
    <3>1. CASE p = o
      BY <1>2, <1>3, <3>1 DEF OpOK, IInv, Frame, Leaves
    <3>2. CASE p # o
      BY <1>3, <3>2 DEF OpOK, IInv, Frame
    <3> QED
      BY <3>1, <3>2
  <2> QED
    BY <2>1 DEF OpsOK
<1>5. Turns(t, o)
  BY DEF Leaves, Turns
<1>6. /\ op' = [op EXCEPT ![o] = r]
      /\ pc' = [pc EXCEPT ![t] = "idle"] /\ call' = [call EXCEPT ![t] = "none"]
  BY <1>1 DEF Leaves
<1> QED
  BY <1>2, <1>3, <1>4, <1>5, <1>6, LeavingOwned

LEMMA EndsInv ==
  ASSUME IInv, Frame, NEW o \in Ops, NEW s, NEW d \in Seq(Nat), NEW k \in Nat,
         Ends(o, s, d, k)
  PROVE  OpsOK' /\ Owned' /\ OneReceiver' /\ op' \in [Ops -> Operation]
<1>1. PICK r \in Operation :
        r = [op[o] EXCEPT !.st = "done", !.status = s, !.data = d, !.n = k]
  <2>1. op[o] \in Operation
    BY DEF IInv, Typed
  <2>2. s \in {"ok", "aborted", "removed"}
    BY DEF Ends
  <2> QED
    BY <2>1, <2>2 DEF Operation
<1>2. /\ op[o] \in Operation
      /\ r.st = "done" /\ r.kind = op[o].kind /\ r.task = op[o].task
      /\ r.status = s /\ r.data = d
  BY <1>1 DEF IInv, Typed, Operation
<1>3. /\ op' \in [Ops -> Operation] /\ op'[o] = r
      /\ \A p \in Ops \ {o} : op'[p] = op[p]
  BY <1>1, OneChanges DEF IInv, Ends
<1>4. OpsOK'
  <2>1. ASSUME NEW p \in Ops PROVE OpOK(p)'
    <3>1. CASE p = o
      BY <1>2, <1>3, <3>1 DEF OpOK, IInv, Frame, Ends
    <3>2. CASE p # o
      BY <1>3, <3>2 DEF OpOK, IInv, Frame
    <3> QED
      BY <3>1, <3>2
  <2> QED
    BY <2>1 DEF OpsOK
<1>5. \A p \in Ops : op'[p].task = op[p].task /\ op'[p].kind = op[p].kind
  BY <1>2, <1>3
<1>6. pc' = pc /\ call' = call
  BY DEF Ends
<1>7. Owned'
  BY <1>5, <1>6 DEF IInv, Owned
<1>8. OneReceiver'
  BY <1>6 DEF IInv, OneReceiver
<1> QED
  BY <1>3, <1>4, <1>7, <1>8

LEMMA DequeueInv ==
  ASSUME IInv, Frame, NEW o \in Ops, Dequeue(o)
  PROVE  OpsOK' /\ Owned' /\ OneReceiver' /\ op' \in [Ops -> Operation]
<1>1. PICK r : r = IF op[o].task = None THEN Free ELSE [op[o] EXCEPT !.st = "ready"]
  OBVIOUS
<1>2. op[o] \in Operation
  BY DEF IInv, Typed
<1>3. /\ r \in Operation /\ r.task = op[o].task
      /\ op[o].task = None => r.st = "free" /\ r.data = <<>> /\ r.status = "none"
      /\ op[o].task # None => /\ r.st = "ready" /\ r.kind = op[o].kind
                              /\ r.status = op[o].status /\ r.data = op[o].data
                              /\ r.abort = op[o].abort
  <2>1. CASE op[o].task = None
    <3>1. KindOf("receive") # "none" /\ r = Free
      BY <1>1, <2>1 DEF KindOf
    <3> QED
      BY <2>1, <3>1 DEF Free, Operation
  <2>2. CASE op[o].task # None
    BY <1>1, <1>2, <2>2 DEF Operation
  <2> QED
    BY <2>1, <2>2
<1>4. op[o].st = "done" /\ op' = [op EXCEPT ![o] = r] /\ UNCHANGED <<pc, call>>
  BY <1>1 DEF Dequeue, Stay
<1>5. /\ op' \in [Ops -> Operation] /\ op'[o] = r
      /\ \A p \in Ops \ {o} : op'[p] = op[p]
  BY <1>3, <1>4, OneChanges DEF IInv
<1>6. OpsOK'
  <2>1. ASSUME NEW p \in Ops PROVE OpOK(p)'
    <3>1. CASE p = o
      BY <1>3, <1>4, <1>5, <3>1 DEF OpOK, IInv, Frame
    <3>2. CASE p # o
      BY <1>5, <3>2 DEF OpOK, IInv, Frame
    <3> QED
      BY <3>1, <3>2
  <2> QED
    BY <2>1 DEF OpsOK
<1>7. \A p \in Ops : /\ op'[p].task = op[p].task
                     /\ op[p].task # None => op'[p].kind = op[p].kind
  BY <1>3, <1>5
<1>8. Owned' /\ OneReceiver'
  BY <1>4, <1>7 DEF IInv, Owned, OneReceiver
<1> QED
  BY <1>5, <1>6, <1>8

-----------------------------------------------------------------------------
(* Every step is one of the six. *)

LEMMA Owner ==
  ASSUME IInv, NEW t \in Tasks, pc[t] = "io"
  PROVE  OpOf(t) \in Ops /\ op[OpOf(t)].task = t
BY DEF IInv, Owned, OpOf

LEMMA FreeSlot ==
  ASSUME IInv, HaveOp
  PROVE  /\ FreeOp \in Ops /\ op[FreeOp].st = "free"
         /\ op[FreeOp].task = None /\ op[FreeOp].data = <<>>
<1>1. FreeOp \in Ops /\ op[FreeOp].st = "free"
  BY DEF HaveOp, FreeOp
<1> QED
  BY <1>1 DEF IInv, OpOK

LEMMA Parks ==
  ASSUME Typed, NEW t \in Tasks, pc[t] # "io", NEW m \in Methods \ {"receive"},
         NEW at \in Places \ {"io"}, Park(t, m, at)
  PROVE  SameCalls
BY DEF Typed, Park, SameCalls

LEMMA Returns ==
  ASSUME Typed, NEW t \in Tasks, pc[t] # "io", NEW m, NEW r, Return(t, m, r)
  PROVE  SameCalls
BY DEF Typed, Return, SameCalls, Places

LEMMA Stays ==
  ASSUME Typed, UNCHANGED <<pc, call>>
  PROVE  SameCalls
BY DEF Typed, SameCalls

LEMMA UnchangedOps ==
  ASSUME Typed, UNCHANGED op
  PROVE  SameOps
BY DEF Typed, SameOps, Kept

LEMMA PurgedOps ==
  ASSUME Typed, NEW kinds, op' = Purge(kinds)
  PROVE  SameOps
<1>1. ASSUME NEW o \in Ops PROVE op'[o] \in Operation /\ Kept(o)
  <2>1. op[o] \in Operation
    BY DEF Typed
  <2>2. \/ op'[o] = op[o]
        \/ op'[o] = [op[o] EXCEPT !.abort = "purge"] /\ op[o].abort # "cancel"
    BY DEF Purge
  <2> QED
    BY <2>1, <2>2 DEF Operation, Kept
<1> QED
  BY <1>1 DEF SameOps, Purge

LEMMA AbortedOps ==
  ASSUME Typed, NEW o \in Ops, op' = [op EXCEPT ![o].abort = "cancel"],
         runtime = "trio"
  PROVE  SameOps
<1>1. op[o] \in Operation
  BY DEF Typed
<1>2. ASSUME NEW p \in Ops PROVE op'[p] \in Operation /\ Kept(p)
  BY <1>1 DEF Typed, Operation, Kept
<1> QED
  BY <1>2 DEF Typed, SameOps

LEMMA CallKeeps ==
  ASSUME Typed, SameCalls, UNCHANGED op, UNCHANGED inVars
  PROVE  Keeps
BY UnchangedOps DEF Keeps

\* The methods without overlapped I/O.
OtherActions(t) ==
  \/ RejectArgument(t) \/ drain(t) \/ send_break(t) \/ configure(t) \/ modem_lines(t)
  \/ set_control_lines(t) \/ _comstat(t) \/ aclose(t) \/ Cancel(t)
  \/ StartFlush(t) \/ ResumeDrain(t) \/ ResumeBreak(t) \/ CancelWait(t)
  \/ \E c \in Configs : ApplyConfig(t, c)

LEMMA OtherKeeps ==
  ASSUME IInv, NEW t \in Tasks, OtherActions(t)
  PROVE  Keeps
<1> USE DEF IInv, Places, Methods
<1>1. ASSUME NEW m, Query(t, m) PROVE Keeps
  BY <1>1, Returns, CallKeeps DEF Query, Invoke
<1>2. CASE drain(t)
  BY <1>2, Returns, Parks, CallKeeps DEF drain, Invoke
<1>3. CASE send_break(t)
  BY <1>3, Returns, Parks, CallKeeps DEF send_break, Invoke
<1>4. CASE configure(t)
  BY <1>4, Parks, CallKeeps DEF configure, Invoke
<1>5. CASE modem_lines(t) \/ set_control_lines(t) \/ _comstat(t)
  BY <1>1, <1>5 DEF modem_lines, set_control_lines, _comstat
<1>6. CASE aclose(t)
  BY <1>6, Parks, CallKeeps DEF aclose, Invoke
<1>7. CASE Cancel(t)
  BY <1>7, Stays, CallKeeps DEF Cancel
<1>8. CASE StartFlush(t)
  BY <1>8, Returns, Parks, CallKeeps DEF StartFlush
<1>9. CASE ResumeDrain(t)
  BY <1>9, Returns, CallKeeps DEF ResumeDrain
<1>10. CASE ResumeBreak(t)
  BY <1>10, Returns, CallKeeps DEF ResumeBreak
<1>11. CASE CancelWait(t)
  BY <1>11, Returns, CallKeeps DEF CancelWait
<1>12. CASE \E c \in Configs : ApplyConfig(t, c)
  BY <1>12, Returns, CallKeeps DEF ApplyConfig
<1>13. CASE RejectArgument(t)
  BY <1>13, Returns, CallKeeps DEF RejectArgument, Invoke
<1> QED
  BY <1>2, <1>3, <1>4, <1>5, <1>6, <1>7, <1>8, <1>9, <1>10, <1>11, <1>12, <1>13
     DEF OtherActions

LEMMA CloseKeeps ==
  ASSUME IInv, NEW t \in Tasks, ResumeClose(t)
  PROVE  Keeps
<1>1. SameCalls
  BY Returns DEF IInv, ResumeClose
<1>2. CASE UNCHANGED <<inVars, op>>
  BY <1>1, <1>2, CallKeeps DEF IInv
<1>3. CASE CloseBackend
  BY <1>1, <1>3, PurgedOps DEF IInv, CloseBackend, Keeps, Clears
<1> QED
  BY <1>2, <1>3 DEF ResumeClose

LEMMA ResetKeeps ==
  ASSUME IInv, NEW t \in Tasks, reset_input_buffer(t) \/ reset_output_buffer(t)
  PROVE  Keeps
<1>1. SameCalls
  BY Returns DEF IInv, reset_input_buffer, reset_output_buffer, Invoke
<1>2. CASE UNCHANGED op /\ UNCHANGED inVars
  BY <1>1, <1>2, CallKeeps DEF IInv
<1>3. CASE op' = Purge({"read"}) /\ Clears
  BY <1>1, <1>3, PurgedOps DEF IInv, Keeps
<1>4. CASE op' = Purge({"write"}) /\ UNCHANGED inVars
  BY <1>1, <1>4, PurgedOps DEF IInv, Keeps
<1> QED
  BY <1>2, <1>3, <1>4 DEF reset_input_buffer, reset_output_buffer, Clears, inVars

LEMMA PortKeeps ==
  ASSUME IInv, \/ open_serial_port \/ CancelLookup \/ (\E at : Open(at))
               \/ ByteArrives \/ Unplug
  PROVE  Keeps
<1>1. UNCHANGED <<pc, call, op>>
  BY DEF open_serial_port, CancelLookup, Open, ByteArrives, Unplug, Stay
<1>2. UNCHANGED inVars \/ (Arrives /\ open)
  BY DEF open_serial_port, CancelLookup, Open, ByteArrives, Unplug, Arrives, inVars
<1> QED
  BY <1>1, <1>2, Stays, UnchangedOps DEF IInv, Keeps

LEMMA AbortKeeps ==
  ASSUME IInv, NEW t \in Tasks, RequestAbort(t)
  PROVE  Keeps
<1>1. OpOf(t) \in Ops
  BY Owner DEF RequestAbort
<1>2. op' = [op EXCEPT ![OpOf(t)].abort = "cancel"] /\ runtime = "trio"
  BY DEF RequestAbort
<1>3. UNCHANGED <<pc, call>> /\ UNCHANGED inVars
  BY DEF RequestAbort, Stay
<1> QED
  BY <1>1, <1>2, <1>3, Stays, AbortedOps DEF IInv, Keeps

IOMethods == {"receive", "send", "wait_modem_event"}

\* A read, write or event wait is issued, or the attempt fails.
LEMMA IssueEffect ==
  ASSUME IInv, NEW t \in Tasks, NEW m \in IOMethods, NEW o \in Ops,
         Turns(t, o), op[o].data = <<>>,
         m = "receive" => \A u \in Tasks \ {t} : call[u] # "receive",
         Issue(t, m, KindOf(m), o), UNCHANGED inVars
  PROVE  Effects
<1>1. CASE Issues(t, m, o)
  BY <1>1 DEF Effects, IOMethods, Methods
<1>2. CASE Frees(t, o)
  BY <1>2 DEF Effects
<1>3. KindOf(m) # "none"
  BY DEF KindOf, IOMethods
<1> QED
  BY <1>1, <1>2, <1>3 DEF Issue, Park, Return, Issues, Frees

LEMMA BeginEffect ==
  ASSUME IInv, NEW t \in Tasks, receive(t) \/ send(t) \/ wait_modem_event(t)
  PROVE  Effects
<1>1. pc[t] = "idle" /\ HaveOp /\ UNCHANGED inVars
  BY DEF receive, send, wait_modem_event, Invoke
<1>2. FreeOp \in Ops /\ op[FreeOp].task = None /\ op[FreeOp].data = <<>>
  BY <1>1, FreeSlot
<1>3. Turns(t, FreeOp)
  BY <1>1, <1>2 DEF Turns
<1>4. ASSUME NEW m, NEW r, Return(t, m, r), UNCHANGED op
      PROVE  Effects
  BY <1>1, <1>4, Returns, CallKeeps DEF IInv, Effects
<1>5. CASE receive(t)
  <2>1. CASE ~ReceiveBusy /\ Issue(t, "receive", "read", FreeOp)
    <3>1. KindOf("receive") = "read" /\ "receive" \in IOMethods
      BY DEF KindOf, IOMethods
    <3>2. \A u \in Tasks \ {t} : call[u] # "receive"
      BY <2>1 DEF ReceiveBusy
    <3> QED
      BY <1>1, <1>2, <1>3, <2>1, <3>1, <3>2, IssueEffect
  <2> QED
    BY <1>4, <1>5, <2>1 DEF receive
<1>6. CASE send(t)
  <2>1. CASE Issue(t, "send", "write", FreeOp)
    <3>1. KindOf("send") = "write" /\ "send" \in IOMethods
      BY DEF KindOf, IOMethods
    <3> QED
      BY <1>1, <1>2, <1>3, <2>1, <3>1, IssueEffect
  <2> QED
    BY <1>4, <1>6, <2>1 DEF send
<1>7. CASE wait_modem_event(t)
  <2>1. CASE Issue(t, "wait_modem_event", "comm", FreeOp)
    <3>1. KindOf("wait_modem_event") = "comm" /\ "wait_modem_event" \in IOMethods
      BY DEF KindOf, IOMethods
    <3> QED
      BY <1>1, <1>2, <1>3, <2>1, <3>1, IssueEffect
  <2> QED
    BY <1>4, <1>7, <2>1 DEF wait_modem_event
<1> QED
  BY <1>5, <1>6, <1>7

\* A task in I/O and its operation.
LEMMA Waiting ==
  ASSUME IInv, NEW t \in Tasks, pc[t] = "io"
  PROVE  /\ OpOf(t) \in Ops /\ Turns(t, OpOf(t)) /\ op[OpOf(t)].task = t
         /\ op[OpOf(t)].kind = KindOf(call[t])
<1>1. OpOf(t) \in Ops /\ op[OpOf(t)].task = t
  BY Owner
<1> QED
  BY <1>1, NoneAssumption DEF IInv, Owned, Turns

LEMMA ReceiveEffect ==
  ASSUME IInv, NEW t \in Tasks, ResumeReceive(t)
  PROVE  Effects
<1>1. PICK o \in Ops : /\ o = OpOf(t) /\ Turns(t, o) /\ op[o].task = t
  BY Waiting DEF ResumeReceive
<1>2. UNCHANGED <<rx, arrived, lost, cleared>> /\ call[t] = "receive"
  BY DEF ResumeReceive
<1>3. CASE /\ delivered' = delivered \o op[o].data
           /\ Return(t, "receive", "ok") /\ op' = [op EXCEPT ![o] = Free]
  <2>1. Frees(t, o)
    BY <1>1, <1>2, <1>3 DEF Frees, Return
  <2> QED
    BY <2>1 DEF Effects
<1>4. CASE /\ EmptyRead(o) /\ Issue(t, "receive", "read", o)
           /\ UNCHANGED delivered
  <2>1. KindOf("receive") = "read" /\ "receive" \in IOMethods
    BY DEF KindOf, IOMethods
  <2>2. \A u \in Tasks \ {t} : call[u] # "receive"
    BY <1>2 DEF IInv, OneReceiver
  <2>3. UNCHANGED inVars /\ op[o].data = <<>>
    BY <1>2, <1>4 DEF inVars, EmptyRead
  <2> QED
    BY <1>1, <1>4, <2>1, <2>2, <2>3, IssueEffect
<1>5. CASE /\ op[o].status # "ok" /\ Return(t, "receive", IOError(o))
           /\ op' = [op EXCEPT ![o] = Free] /\ UNCHANGED delivered
  <2>1. op[o].data = <<>>
    BY <1>5 DEF IInv, OpOK
  <2>2. Frees(t, o)
    BY <1>1, <1>2, <1>5, <2>1 DEF Frees, Return, inVars
  <2> QED
    BY <2>2 DEF Effects
<1> QED
  BY <1>1, <1>3, <1>4, <1>5 DEF ResumeReceive

LEMMA SendEffect ==
  ASSUME IInv, NEW t \in Tasks, ResumeSend(t)
  PROVE  Effects
<1>1. PICK o \in Ops : /\ o = OpOf(t) /\ Turns(t, o) /\ op[o].task = t
                       /\ op[o].kind = KindOf(call[t])
  BY Waiting DEF ResumeSend
<1>2. UNCHANGED inVars /\ call[t] = "send" /\ KindOf("send") = "write"
  BY DEF ResumeSend, KindOf
<1>3. op[o].data = <<>>
  BY <1>1, <1>2 DEF IInv, OpOK
<1>4. CASE /\ op' = [op EXCEPT ![o] = Free]
           /\ \E r : Return(t, "send", r)
  <2>1. Frees(t, o)
    BY <1>1, <1>2, <1>3, <1>4 DEF Frees, Return
  <2> QED
    BY <2>1 DEF Effects
<1>5. CASE Issue(t, "send", "write", o)
  <2>1. "send" \in IOMethods
    BY DEF IOMethods
  <2> QED
    BY <1>1, <1>2, <1>3, <1>5, <2>1, IssueEffect
<1> QED
  BY <1>1, <1>4, <1>5 DEF ResumeSend

LEMMA EventEffect ==
  ASSUME IInv, NEW t \in Tasks, ResumeEvent(t)
  PROVE  Effects
<1>1. PICK o \in Ops : /\ o = OpOf(t) /\ Turns(t, o) /\ op[o].task = t
                       /\ op[o].kind = KindOf(call[t])
  BY Waiting DEF ResumeEvent
<1>2. /\ UNCHANGED inVars /\ call[t] = "wait_modem_event"
      /\ KindOf("wait_modem_event") = "comm"
  BY DEF ResumeEvent, KindOf
<1>3. op[o].data = <<>>
  BY <1>1, <1>2 DEF IInv, OpOK
<1>4. Frees(t, o)
  BY <1>1, <1>2, <1>3 DEF ResumeEvent, Frees, Return
<1> QED
  BY <1>4 DEF Effects

\* The cancellations that end a call before its operation has ended.
LEMMA CancelEffect ==
  ASSUME IInv, NEW t \in Tasks, OrphanIO(t) \/ CancelComm(t)
  PROVE  Effects
<1>1. PICK o \in Ops : o = OpOf(t) /\ Turns(t, o) /\ op[o].task = t
  BY Waiting DEF OrphanIO, CancelComm
<1>2. /\ UNCHANGED inVars /\ op[o].st # "ready" /\ runtime = "asyncio"
      /\ pc' = [pc EXCEPT ![t] = "idle"] /\ call' = [call EXCEPT ![t] = "none"]
  BY <1>1 DEF OrphanIO, CancelComm, Return
<1>3. CASE op[o].kind = "comm" /\ op' = [op EXCEPT ![o] = Free]
  <2>1. op[o].data = <<>>
    BY <1>3 DEF IInv, OpOK
  <2>2. Frees(t, o)
    BY <1>1, <1>2, <1>3, <2>1 DEF Frees
  <2> QED
    BY <2>2 DEF Effects
<1>4. op[o] \in Operation
  BY DEF IInv, Typed
<1>5. CASE /\ op[o].kind # "comm"
           /\ op' = [op EXCEPT ![o].task = None, ![o].abort = "cancel"]
  <2>1. op' = [op EXCEPT ![o] = [op[o] EXCEPT !.task = None, !.abort = "cancel",
                                              !.pin = op[o].pin]]
    BY <1>4, <1>5 DEF IInv, Typed, Operation
  <2>2. Leaves(t, o, op[o].pin)
    BY <1>1, <1>2, <1>5, <2>1 DEF Leaves
  <2> QED
    BY <2>2 DEF Effects
<1>6. CASE op' = [op EXCEPT ![o].task = None, ![o].abort = "cancel",
                            ![o].pin = "abandoned"]
  <2>1. op' = [op EXCEPT ![o] = [op[o] EXCEPT !.task = None, !.abort = "cancel",
                                              !.pin = "abandoned"]]
    BY <1>4, <1>6 DEF IInv, Typed, Operation
  <2>2. Leaves(t, o, "abandoned")
    BY <1>1, <1>2, <2>1 DEF Leaves
  <2> QED
    BY <2>2 DEF Effects
<1> QED
  BY <1>1, <1>3, <1>5, <1>6 DEF OrphanIO, CancelComm

LEMMA KernelEffect ==
  ASSUME IInv, NEW o \in Ops, Kernel(o) \/ KernelAbort(o) \/ KernelFail(o)
  PROVE  Effects
<1>1. /\ op[o].st = "pending" /\ UNCHANGED <<pc, call>>
      /\ op[o] \in Operation
  BY DEF Kernel, KernelRead, KernelWrite, KernelEvent, KernelAbort, KernelFail,
     Stay, IInv, Typed
<1>2. op[o].data = <<>> /\ op[o].n \in Nat /\ <<>> \in Seq(Nat)
  BY <1>1, Fields DEF IInv, OpOK
<1>3. ASSUME NEW s, NEW d \in Seq(Nat), NEW k \in Nat, Ends(o, s, d, k)
      PROVE  Effects
  BY <1>3 DEF Effects
<1>4. CASE KernelRead(o)
  <2>1. PICK j \in 0..Len(rx) :
          /\ op' = [op EXCEPT ![o] = [Complete(o, "ok") EXCEPT !.data = SubSeq(rx, 1, j)]]
          /\ rx' = SubSeq(rx, j + 1, Len(rx))
    <3>1. PICK k : k = IF Len(rx) < Chunk THEN Len(rx) ELSE Chunk
      OBVIOUS
    <3>2. k \in 0..Len(rx)
      BY <3>1, SizeAssumption DEF IInv, Typed
    <3>3. /\ op' = [op EXCEPT ![o] = [Complete(o, "ok") EXCEPT !.data = SubSeq(rx, 1, k)]]
          /\ rx' = SubSeq(rx, k + 1, Len(rx))
      BY <1>4, <3>1 DEF KernelRead
    <3> QED
      BY <3>2, <3>3
  <2>2. SubSeq(rx, 1, j) \in Seq(Nat)
    BY DEF IInv, Typed
  <2>3. PICK d \in Seq(Nat) : d = SubSeq(rx, 1, j)
    BY <2>2
  <2>4. op' = [op EXCEPT ![o] = [op[o] EXCEPT !.st = "done", !.status = "ok",
                                              !.data = d, !.n = op[o].n]]
    BY <1>1, <2>1, <2>3 DEF Complete, Operation
  <2>5. Ends(o, "ok", d, op[o].n)
    BY <1>1, <1>4, <2>1, <2>3, <2>4 DEF KernelRead, Ends
  <2> QED
    BY <1>2, <1>3, <2>5
<1>5. CASE KernelWrite(o)
  <2>1. PICK k \in Nat : op' = [op EXCEPT ![o] = [Complete(o, "ok") EXCEPT !.n = k]]
    <3>1. PICK k \in 0..(SendLen - offset) :
            op' = [op EXCEPT ![o] = [Complete(o, "ok") EXCEPT !.n = k]]
      BY <1>5 DEF KernelWrite
    <3>2. k \in Nat
      BY SizeAssumption DEF IInv, Typed
    <3> QED
      BY <3>1, <3>2
  <2>2. op' = [op EXCEPT ![o] = [op[o] EXCEPT !.st = "done", !.status = "ok",
                                              !.data = <<>>, !.n = k]]
    BY <1>1, <1>2, <2>1 DEF Complete, Operation
  <2>3. Ends(o, "ok", <<>>, k)
    BY <1>1, <1>5, <2>2 DEF KernelWrite, Ends
  <2> QED
    BY <1>2, <1>3, <2>3
<1>6. ASSUME NEW s \in {"ok", "aborted", "removed"}, s = "removed" => removed,
             s = "aborted" =>
               op[o].abort # "no" /\ (op[o].kind = "comm" => op[o].abort = "cancel"),
             op' = [op EXCEPT ![o] = Complete(o, s)], UNCHANGED inVars
      PROVE  Effects
  <2>1. op' = [op EXCEPT ![o] = [op[o] EXCEPT !.st = "done", !.status = s,
                                              !.data = <<>>, !.n = op[o].n]]
    BY <1>1, <1>2, <1>6 DEF Complete, Operation
  <2>2. Ends(o, s, <<>>, op[o].n)
    BY <1>1, <1>6, <2>1 DEF Ends
  <2> QED
    BY <1>2, <1>3, <2>2
<1>7. CASE KernelEvent(o)
  BY <1>6, <1>7 DEF KernelEvent
<1>8. CASE KernelAbort(o)
  <2>1. PICK s \in {"ok", "aborted"} :
          /\ op' = [op EXCEPT ![o] = Complete(o, s)]
          /\ s = "aborted" => ~(op[o].kind = "comm" /\ op[o].abort = "purge")
    BY <1>8 DEF KernelAbort
  <2>2. op[o].abort \in {"purge", "cancel"}
    BY <1>1, <1>8 DEF KernelAbort, Operation
  <2> QED
    BY <1>6, <1>8, <2>1, <2>2 DEF KernelAbort
<1>9. CASE KernelFail(o)
  BY <1>6, <1>9 DEF KernelFail
<1> QED
  BY <1>4, <1>5, <1>7, <1>8, <1>9 DEF Kernel

LEMMA StepEffects ==
  ASSUME IInv, Next
  PROVE  Effects
<1>1. ASSUME NEW t \in Tasks, Request(t) PROVE Effects
  BY <1>1, BeginEffect, OtherKeeps, ResetKeeps DEF Request, OtherActions, Effects
<1>2. ASSUME NEW t \in Tasks, Run(t) \/ ResumeDrain(t) PROVE Effects
  BY <1>2, ReceiveEffect, SendEffect, EventEffect, OtherKeeps, CloseKeeps
     DEF Run, OtherActions, Effects
<1>3. ASSUME NEW t \in Tasks, Deliver(t) PROVE Effects
  BY <1>3, CancelEffect, AbortKeeps, OtherKeeps DEF Deliver, OtherActions, Effects
<1>4. ASSUME NEW o \in Ops, Kernel(o) \/ Settle(o) PROVE Effects
  BY <1>4, KernelEffect DEF Settle, Effects
<1>5. CASE \/ open_serial_port \/ CancelLookup \/ (\E at : Open(at))
           \/ ByteArrives \/ Unplug
  BY <1>5, PortKeeps DEF Effects
<1> QED
  BY <1>1, <1>2, <1>3, <1>4, <1>5 DEF Next

-----------------------------------------------------------------------------
(* The port itself, and the invariant. *)

\* What a step does to the port: open decides it, and the close undoes it.
PortStep ==
  \/ UNCHANGED <<open, handle, opened>>
  \/ opened = "no" /\ opened' = "lookup" /\ UNCHANGED <<open, handle>>
  \/ opened = "lookup" /\ opened' = "cancelled" /\ UNCHANGED <<open, handle>>
  \/ /\ opened = "lookup" /\ opened' \in {"ok", "create", "setup", "register", "mask"}
     /\ open' = (opened' = "ok") /\ handle' = (opened' \in {"ok", "register", "mask"})
  \/ open' = FALSE /\ handle' = FALSE /\ UNCHANGED opened

LEMMA PortSteps ==
  ASSUME Next
  PROVE  PortStep /\ runtime' = runtime
<1> USE DEF portVars, PortStep
<1>1. ASSUME NEW t \in Tasks, Request(t) PROVE PortStep /\ runtime' = runtime
  BY <1>1 DEF Request, RejectArgument, receive, send, drain, send_break, wait_modem_event,
     configure, reset_input_buffer, reset_output_buffer, modem_lines,
     set_control_lines, _comstat, Query, aclose, Cancel
<1>2. ASSUME NEW t \in Tasks, Run(t) \/ ResumeDrain(t) PROVE PortStep /\ runtime' = runtime
  <2>1. CASE ResumeClose(t)
    BY <2>1 DEF ResumeClose, CloseBackend
  <2> QED
    BY <1>2, <2>1 DEF Run, ResumeReceive, ResumeSend, StartFlush, ResumeDrain,
       ResumeBreak, ResumeEvent, ApplyConfig
<1>3. ASSUME NEW t \in Tasks, Deliver(t) PROVE PortStep /\ runtime' = runtime
  BY <1>3 DEF Deliver, OrphanIO, CancelComm, RequestAbort, CancelWait
<1>4. ASSUME NEW o \in Ops, Kernel(o) \/ Settle(o)
      PROVE  PortStep /\ runtime' = runtime
  BY <1>4 DEF Kernel, Settle, KernelRead, KernelWrite, KernelEvent, KernelAbort,
     KernelFail, Dequeue
<1>5. CASE open_serial_port \/ CancelLookup \/ ByteArrives \/ Unplug
  BY <1>5 DEF open_serial_port, CancelLookup, ByteArrives, Unplug
<1>6. ASSUME NEW at \in {"ok", "create", "setup", "register", "mask"}, Open(at)
      PROVE  PortStep /\ runtime' = runtime
  BY <1>6 DEF Open
<1> QED
  BY <1>1, <1>2, <1>3, <1>4, <1>5, <1>6 DEF Next

LEMMA DeviceStep ==
  ASSUME Next
  PROVE  removed => removed'
<1>1. ASSUME NEW t \in Tasks, Request(t) PROVE UNCHANGED removed
  BY <1>1 DEF Request, RejectArgument, receive, send, drain, send_break, wait_modem_event,
     configure, reset_input_buffer, reset_output_buffer, modem_lines,
     set_control_lines, _comstat, Query, aclose, Cancel
<1>2. ASSUME NEW t \in Tasks, Run(t) \/ ResumeDrain(t) PROVE UNCHANGED removed
  BY <1>2 DEF Run, ResumeReceive, ResumeSend, StartFlush, ResumeDrain,
     ResumeBreak, ResumeEvent, ApplyConfig, ResumeClose
<1>3. ASSUME NEW t \in Tasks, Deliver(t) PROVE UNCHANGED removed
  BY <1>3 DEF Deliver, OrphanIO, CancelComm, RequestAbort, CancelWait
<1>4. ASSUME NEW o \in Ops, Kernel(o) \/ Settle(o) PROVE UNCHANGED removed
  BY <1>4 DEF Kernel, Settle, KernelRead, KernelWrite, KernelEvent, KernelAbort,
     KernelFail, Dequeue
<1> QED
  BY <1>1, <1>2, <1>3, <1>4 DEF Next, open_serial_port, CancelLookup, ByteArrives,
     Unplug, Open

LEMMA OffsetStep ==
  ASSUME IInv, Next
  PROVE  offset' \in Nat
<1>1. ASSUME NEW t \in Tasks, Request(t) PROVE offset' = offset \/ offset' = 0
  BY <1>1 DEF Request, RejectArgument, receive, send, drain, send_break, wait_modem_event,
     configure, reset_input_buffer, reset_output_buffer, modem_lines,
     set_control_lines, _comstat, Query, aclose, Cancel
<1>2. ASSUME NEW t \in Tasks, Run(t) \/ ResumeDrain(t) PROVE offset' \in Nat
  <2>1. CASE ResumeSend(t)
    <3>1. PICK o \in Ops : o = OpOf(t)
      BY <2>1, Waiting DEF ResumeSend
    <3>2. offset' = offset + op[o].n
      BY <2>1, <3>1 DEF ResumeSend
    <3> QED
      BY <3>2, Fields DEF IInv, Typed
  <2> QED
    BY <1>2, <2>1 DEF Run, ResumeReceive, StartFlush, ResumeDrain,
       ResumeBreak, ResumeEvent, ApplyConfig, ResumeClose, IInv, Typed
<1>3. ASSUME NEW t \in Tasks, Deliver(t) PROVE UNCHANGED offset
  BY <1>3 DEF Deliver, OrphanIO, CancelComm, RequestAbort, CancelWait
<1>4. ASSUME NEW o \in Ops, Kernel(o) \/ Settle(o) PROVE UNCHANGED offset
  BY <1>4 DEF Kernel, Settle, KernelRead, KernelWrite, KernelEvent, KernelAbort,
     KernelFail, Dequeue
<1> QED
  BY <1>1, <1>2, <1>3, <1>4 DEF Next, open_serial_port, CancelLookup, ByteArrives,
     Unplug, Open, IInv, Typed

LEMMA FrameStep ==
  ASSUME IInv, Next
  PROVE  Frame
<1>1. open' \in BOOLEAN /\ handle' \in BOOLEAN
  <2>1. \/ UNCHANGED <<open, handle>>
        \/ open' = (opened' = "ok") /\ handle' = (opened' \in {"ok", "register", "mask"})
        \/ open' = FALSE /\ handle' = FALSE
    BY PortSteps DEF PortStep
  <2>2. open \in BOOLEAN /\ handle \in BOOLEAN
    BY DEF IInv, Typed
  <2>3. CASE UNCHANGED <<open, handle>>
    BY <2>2, <2>3
  <2>4. CASE open' = (opened' = "ok") /\ handle' = (opened' \in {"ok", "register", "mask"})
    BY <2>4
  <2>5. CASE open' = FALSE /\ handle' = FALSE
    BY <2>5
  <2> QED
    BY <2>1, <2>3, <2>4, <2>5
<1> QED
  BY <1>1, PortSteps, DeviceStep, OffsetStep DEF Frame

LEMMA TypedStep ==
  ASSUME IInv, Frame, Effects, op' \in [Ops -> Operation]
  PROVE  Typed'
<1>1. rx \in Seq(Nat) /\ delivered \in Seq(Nat) /\ arrived \in Nat
  BY DEF IInv, Typed
<1>2. ASSUME UNCHANGED inVars
      PROVE  rx' \in Seq(Nat) /\ delivered' \in Seq(Nat) /\ arrived' \in Nat
  BY <1>1, <1>2 DEF inVars
<1>3. rx' \in Seq(Nat) /\ delivered' \in Seq(Nat) /\ arrived' \in Nat
  <2>1. CASE Keeps
    <3>1. CASE Arrives
      BY <1>1, <3>1 DEF Arrives
    <3>2. CASE Clears
      BY <1>1, <3>2 DEF Clears
    <3> QED
      BY <1>2, <2>1, <3>1, <3>2 DEF Keeps
  <2>2. ASSUME NEW t \in Tasks, NEW o \in Ops, Frees(t, o)
        PROVE rx' \in Seq(Nat) /\ delivered' \in Seq(Nat) /\ arrived' \in Nat
    <3>1. op[o].data \in Seq(Nat)
      BY Fields DEF IInv
    <3>2. delivered \o op[o].data \in Seq(Nat)
      BY <1>1, <3>1, ConcatProperties
    <3> QED
      BY <1>1, <1>2, <2>2, <3>2 DEF Frees
  <2>3. ASSUME NEW o \in Ops, NEW s, NEW d, NEW k, Ends(o, s, d, k)
        PROVE rx' \in Seq(Nat) /\ delivered' \in Seq(Nat) /\ arrived' \in Nat
    <3>1. ASSUME NEW j \in 0..Len(rx), rx' = SubSeq(rx, j + 1, Len(rx))
          PROVE  rx' \in Seq(Nat)
      BY <1>1, <3>1
    <3> QED
      BY <1>1, <1>2, <2>3, <3>1 DEF Ends
  <2> QED
    BY <1>1, <1>2, <2>1, <2>2, <2>3 DEF Effects, Issues, Leaves, Dequeue
<1>4. pc' \in [Tasks -> Places] /\ call' \in [Tasks -> Methods \cup {"none"}]
  <2>1. /\ pc \in [Tasks -> Places] /\ call \in [Tasks -> Methods \cup {"none"}]
        /\ {"idle", "io"} \subseteq Places
    BY DEF IInv, Typed, Places
  <2>2. CASE Keeps
    BY <2>2 DEF Keeps, SameCalls
  <2>3. CASE \E t \in Tasks, o \in Ops, m \in Methods : Issues(t, m, o)
    BY <2>1, <2>3 DEF Issues
  <2>4. CASE \E t \in Tasks, o \in Ops :
               Frees(t, o) \/ \E p \in {op[o].pin, "abandoned"} : Leaves(t, o, p)
    BY <2>1, <2>4 DEF Frees, Leaves
  <2>5. CASE UNCHANGED <<pc, call>>
    BY <2>1, <2>5
  <2> QED
    BY <2>2, <2>3, <2>4, <2>5 DEF Effects, Ends, Dequeue, Stay
<1> QED
  BY <1>3, <1>4 DEF Typed, Frame, IInv

LEMMA PortKept ==
  ASSUME PortOK, PortStep
  PROVE  PortOK'
<1>1. CASE UNCHANGED <<open, handle, opened>>
  BY <1>1 DEF PortOK
<1>2. CASE opened = "no" /\ opened' = "lookup" /\ UNCHANGED <<open, handle>>
  BY <1>2 DEF PortOK
<1>3. CASE opened = "lookup" /\ opened' = "cancelled" /\ UNCHANGED <<open, handle>>
  BY <1>3 DEF PortOK
<1>4. CASE /\ opened' \in {"ok", "create", "setup", "register", "mask"}
           /\ open' = (opened' = "ok")
           /\ handle' = (opened' \in {"ok", "register", "mask"})
  <2>1. open' <=> opened' = "ok"
    BY <1>4
  <2>2. handle' <=> opened' \in {"ok", "register", "mask"}
    BY <1>4
  <2>3. opened' \notin {"no", "lookup", "cancelled"}
    BY <1>4
  <2>4. handle' /\ ~open' => opened' \in {"register", "mask"}
    BY <2>1, <2>2
  <2> QED
    BY <2>3, <2>4, Zenon DEF PortOK
<1>5. CASE open' = FALSE /\ handle' = FALSE /\ UNCHANGED opened
  BY <1>5, Zenon DEF PortOK
<1> QED
  BY <1>1, <1>2, <1>3, <1>4, <1>5 DEF PortStep

LEMMA InvStep ==
  ASSUME IInv, [Next]_vars
  PROVE  IInv'
<1>1. CASE UNCHANGED vars
  BY <1>1 DEF vars, portVars, configVars, inVars, IInv, Typed, PortOK, Owned,
     OneReceiver, OpOK
<1>2. CASE Next
  <2>1. Frame /\ Effects
    BY <1>2, FrameStep, StepEffects
  <2>2. /\ OpsOK' /\ Owned' /\ OneReceiver' /\ op' \in [Ops -> Operation]
    BY <2>1, KeepsInv, IssuesInv, FreesInv, LeavesInv, EndsInv, DequeueInv
       DEF Effects, Keeps, SameOps
  <2>3. Typed'
    BY <2>1, <2>2, TypedStep
  <2>4. PortOK'
    BY <1>2, PortSteps, PortKept DEF IInv
  <2> QED
    BY <2>2, <2>3, <2>4 DEF IInv, OpsOK
<1> QED
  BY <1>1, <1>2

LEMMA InitInv == Init => IInv
<1> SUFFICES ASSUME Init PROVE IInv
  OBVIOUS
<1>1. Free \in Operation
  BY DEF Free, Operation
<1>2. Typed
  <2>1. /\ op \in [Ops -> Operation] /\ pc \in [Tasks -> Places]
        /\ call \in [Tasks -> Methods \cup {"none"}]
    BY <1>1 DEF Init, Places
  <2>2. rx \in Seq(Nat) /\ delivered \in Seq(Nat) /\ arrived \in Nat /\ offset \in Nat
    BY DEF Init
  <2>3. runtime \in Runtimes /\ open \in BOOLEAN /\ handle \in BOOLEAN
    BY DEF Init
  <2> QED
    BY <2>1, <2>2, <2>3 DEF Typed
<1>3. \A o \in Ops : OpOK(o)
  BY DEF Init, OpOK, Free
<1>4. Owned /\ OneReceiver /\ PortOK
  BY DEF Init, Owned, OneReceiver, PortOK, Free
<1> QED
  BY <1>2, <1>3, <1>4 DEF IInv

LEMMA Invariance == Spec => []IInv
BY InitInv, InvStep, PTL DEF Spec

\* The kernel writes only into memory that is kept alive: an operation that is
\* pending after its call has ended is in the proactor's cache or among the
\* _abandoned_waits.
THEOREM MemoryStaysPinned == Spec => []MemoryPinned
<1>1. IInv => MemoryPinned
  BY DEF IInv, OpOK, MemoryPinned
<1> QED
  BY <1>1, Invariance, PTL

\* Whatever becomes of open and of the close, a port that is not open has
\* closed its HANDLE, unless open failed behind the registration.
THEOREM ClosedPortsRelease == Spec => []HandleReleased
<1>1. IInv => HandleReleased
  BY DEF IInv, PortOK, HandleReleased
<1> QED
  BY <1>1, Invariance, PTL

-----------------------------------------------------------------------------
(* Errors have a cause. *)

\* What the end of t's call may report, seen from the state before the step.
Cause(t, m, r) ==
  /\ m = "receive" /\ r = "SerialDisconnectedError" => removed
  /\ r \in {"SerialClosedError", "trio.ClosedResourceError"} =>
       \/ ~open
       \/ /\ m = call[t] /\ m \in {"receive", "send"}
          /\ \E o \in Ops : op[o].task = t /\ op[o].abort = "purge"
  /\ r = "AssertionError" => ~open /\ runtime = "asyncio"

\* The step is one that ErrorsHaveCause allows.
CauseShown ==
  /\ ended'.call = "receive" /\ ended'.result = "SerialDisconnectedError" => removed
  /\ ended'.result \in {"SerialClosedError", "trio.ClosedResourceError"}
       => ~open \/ PurgedCallEnds
  /\ ended'.result = "AssertionError" => ~open /\ runtime = "asyncio"

\* A step that ends a call for a cause shows it.
LEMMA CauseSeen ==
  ASSUME Typed, NEW t \in Tasks, NEW m, NEW r, Cause(t, m, r), Return(t, m, r)
  PROVE  CauseShown
<1>1. ended' = [call |-> m, result |-> r] /\ pc'[t] = "idle"
  BY DEF Return, Typed
<1>2. ASSUME r \in {"SerialClosedError", "trio.ClosedResourceError"}, open
      PROVE  PurgedCallEnds
  BY <1>1, <1>2 DEF Cause, PurgedCallEnds
<1> QED
  BY <1>1, <1>2 DEF Cause, CauseShown

Harmless == {"none", "ok", "Cancelled", "SerialError", "BusyResourceError",
             "UnsupportedConfigurationError", "ValueError"}

LEMMA HarmlessEnd ==
  ASSUME NEW m, NEW r \in Harmless, ended' = [call |-> m, result |-> r]
  PROVE  CauseShown
BY DEF CauseShown, Harmless

LEMMA NoEnd ==
  ASSUME ended' = NoCall
  PROVE  CauseShown
BY DEF CauseShown, NoCall

\* The other ends of a call: of a closed port, or of one whose device is gone.
LEMMA PlainEnd ==
  ASSUME NEW m, NEW r, ended' = [call |-> m, result |-> r],
         \/ r \in Harmless
         \/ r = "SerialClosedError" /\ ~open
         \/ r = "SerialDisconnectedError" /\ (m = "receive" => removed)
  PROVE  CauseShown
BY DEF CauseShown, Harmless

\* winerror_to_exception and Trio report what has happened to the operation.
LEMMA IOErrorCause ==
  ASSUME IInv, NEW t \in Tasks, NEW o \in Ops, op[o].task = t,
         op[o].kind = KindOf(call[t]), op[o].st = "ready", op[o].status # "ok",
         call[t] \in {"receive", "send", "wait_modem_event"},
         call[t] = "wait_modem_event" => runtime = "trio"
  PROVE  Cause(t, call[t], IOError(o))
<1>1. /\ op[o].status \in {"aborted", "removed"}
      /\ op[o].status = "removed" => removed
      /\ op[o].abort \in {"no", "cancel", "purge"}
      /\ runtime \in {"asyncio", "trio"}
  BY Fields DEF IInv, OpOK, Typed, Runtimes, Operation
<1>2. CASE op[o].status = "removed"
  BY <1>1, <1>2 DEF Cause, IOError
<1>3. CASE op[o].status = "aborted"
  <2>1. /\ op[o].abort # "no" /\ (op[o].kind = "comm" => op[o].abort = "cancel")
        /\ runtime = "asyncio" => op[o].abort # "cancel"
    BY <1>3, NoneAssumption DEF IInv, OpOK
  <2>2. CASE op[o].abort = "cancel"
    <3>1. IOError(o) = "Cancelled"
      BY <1>1, <1>3, <2>1, <2>2 DEF IOError
    <3> QED
      BY <3>1 DEF Cause
  <2>3. CASE op[o].abort = "purge"
    <3>1. call[t] \in {"receive", "send"}
      BY <2>1, <2>3 DEF KindOf
    <3>2. IOError(o) \in {"SerialClosedError", "trio.ClosedResourceError"}
      BY <1>1, <1>3, <2>3 DEF IOError
    <3> QED
      BY <2>3, <3>1, <3>2 DEF Cause
  <2> QED
    BY <1>1, <2>1, <2>2, <2>3
<1> QED
  BY <1>1, <1>2, <1>3

LEMMA IssueCause ==
  ASSUME IInv, NEW t \in Tasks, NEW m, NEW kind, NEW o, Issue(t, m, kind, o)
  PROVE  CauseShown
<1>1. CASE ~open /\ Return(t, m, IF runtime = "asyncio" THEN "AssertionError"
                                 ELSE "SerialClosedError")
  BY <1>1 DEF Return, CauseShown
<1>2. CASE open /\ removed /\ Return(t, m, "SerialDisconnectedError")
  BY <1>2, PlainEnd DEF Return
<1>3. CASE Park(t, m, "io")
  BY <1>3, NoEnd DEF Park
<1> QED
  BY <1>1, <1>2, <1>3 DEF Issue

LEMMA RequestCause ==
  ASSUME IInv, NEW t \in Tasks, Request(t)
  PROVE  CauseShown
<1>2. ASSUME NEW m, NEW r, Return(t, m, r),
             \/ r \in {"ok", "BusyResourceError", "ValueError"}
             \/ r = "SerialClosedError" /\ ~open
             \/ r = "SerialDisconnectedError" /\ removed
      PROVE  CauseShown
  BY <1>2, PlainEnd DEF Return, Harmless
<1>3. CASE receive(t)
  BY <1>2, <1>3, IssueCause DEF receive
<1>4. CASE send(t)
  BY <1>2, <1>4, IssueCause DEF send
<1>5. CASE wait_modem_event(t)
  BY <1>2, <1>5, IssueCause DEF wait_modem_event
<1>6. CASE drain(t) \/ send_break(t)
  BY <1>2, <1>6, NoEnd DEF drain, send_break, Park
<1>7. CASE configure(t) \/ aclose(t) \/ Cancel(t)
  BY <1>7, NoEnd DEF configure, aclose, Cancel, Park
<1>8. CASE reset_input_buffer(t) \/ reset_output_buffer(t)
  BY <1>2, <1>8 DEF reset_input_buffer, reset_output_buffer
<1>9. CASE modem_lines(t) \/ set_control_lines(t) \/ _comstat(t)
  BY <1>2, <1>9 DEF modem_lines, set_control_lines, _comstat, Query
<1>10. CASE RejectArgument(t)
  BY <1>2, <1>10 DEF RejectArgument
<1> QED
  BY <1>3, <1>4, <1>5, <1>6, <1>7, <1>8, <1>9, <1>10 DEF Request

LEMMA RunCause ==
  ASSUME IInv, NEW t \in Tasks, Run(t) \/ ResumeDrain(t)
  PROVE  CauseShown
<1> USE DEF Harmless
<1>1. CASE ResumeReceive(t)
  <2>1. PICK o \in Ops : /\ o = OpOf(t) /\ op[o].task = t
                         /\ op[o].kind = KindOf(call[t])
    BY <1>1, Waiting DEF ResumeReceive
  <2>2. op[o].st = "ready" /\ call[t] = "receive"
    BY <1>1, <2>1 DEF ResumeReceive
  <2>3. CASE op[o].status # "ok" /\ Return(t, "receive", IOError(o))
    BY <2>1, <2>2, <2>3, IOErrorCause, CauseSeen DEF IInv
  <2> QED
    BY <1>1, <2>1, <2>2, <2>3, IssueCause, HarmlessEnd DEF ResumeReceive, Return
<1>2. CASE ResumeSend(t)
  <2>1. PICK o \in Ops : /\ o = OpOf(t) /\ op[o].task = t
                         /\ op[o].kind = KindOf(call[t])
    BY <1>2, Waiting DEF ResumeSend
  <2>2. op[o].st = "ready" /\ call[t] = "send"
    BY <1>2, <2>1 DEF ResumeSend
  <2>3. CASE op[o].status # "ok" /\ Return(t, "send", IOError(o))
    BY <2>1, <2>2, <2>3, IOErrorCause, CauseSeen DEF IInv
  <2>4. CASE Return(t, "send", "SerialDisconnectedError")
    BY <2>4, PlainEnd DEF Return
  <2> QED
    BY <1>2, <2>1, <2>2, <2>3, <2>4, IssueCause, HarmlessEnd DEF ResumeSend, Return
<1>3. CASE ResumeEvent(t)
  <2>1. PICK o \in Ops : /\ o = OpOf(t) /\ op[o].task = t
                         /\ op[o].kind = KindOf(call[t])
    BY <1>3, Waiting DEF ResumeEvent
  <2>2. /\ op[o].st = "ready" /\ call[t] = "wait_modem_event"
        /\ Return(t, "wait_modem_event",
                  IF op[o].status = "ok" \/ runtime = "asyncio"
                  THEN "ok" ELSE IOError(o))
    BY <1>3, <2>1 DEF ResumeEvent
  <2>3. CASE op[o].status = "ok" \/ runtime = "asyncio"
    BY <2>2, <2>3, HarmlessEnd DEF Return
  <2>4. CASE ~(op[o].status = "ok" \/ runtime = "asyncio")
    <3>1. runtime = "trio"
      BY <2>4 DEF IInv, Typed, Runtimes
    <3>2. Cause(t, call[t], IOError(o))
      BY <2>1, <2>2, <2>4, <3>1, IOErrorCause
    <3> QED
      BY <2>2, <2>4, <3>2, CauseSeen DEF IInv
  <2> QED
    BY <2>3, <2>4
<1>4. CASE StartFlush(t)
  BY <1>4, NoEnd, PlainEnd DEF StartFlush, Park, Return
<1>5. CASE ResumeDrain(t)
  BY <1>5, PlainEnd DEF ResumeDrain, Return
<1>6. CASE ResumeBreak(t) \/ ResumeClose(t)
  BY <1>6, HarmlessEnd DEF ResumeBreak, ResumeClose, Return
<1>7. CASE \E c \in Configs : ApplyConfig(t, c)
  BY <1>7, PlainEnd DEF ApplyConfig, Return
<1> QED
  BY <1>1, <1>2, <1>3, <1>4, <1>5, <1>6, <1>7 DEF Run

LEMMA CauseStep ==
  ASSUME IInv, Next
  PROVE  CauseShown
<1>2. ASSUME NEW t \in Tasks, Deliver(t) PROVE CauseShown
  BY <1>2, HarmlessEnd, NoEnd DEF Deliver, OrphanIO, CancelComm, RequestAbort,
     CancelWait, Return, Stay, Harmless
<1>3. ASSUME NEW o \in Ops, Kernel(o) \/ Settle(o) PROVE CauseShown
  BY <1>3, NoEnd DEF Kernel, Settle, KernelRead, KernelWrite, KernelEvent,
     KernelAbort, KernelFail, Dequeue, Stay
<1>4. CASE open_serial_port \/ CancelLookup \/ (\E at : Open(at))
           \/ ByteArrives \/ Unplug
  BY <1>4, HarmlessEnd, NoEnd DEF open_serial_port, CancelLookup, Open,
     ByteArrives, Unplug, Stay, Harmless
<1> QED
  BY <1>2, <1>3, <1>4, RequestCause, RunCause DEF Next

\* An idle device is never taken for an unplugged one.  A call reports the port
\* closed only if it is, or if it is a receive or a send whose operation a purge
\* has told to end.  The assertion that the handle is there fails on a closed
\* port alone.
THEOREM ErrorsCorrect == Spec => ErrorsHaveCause
<1>1. IInv /\ Next => CauseShown
  BY CauseStep
<1>2. IInv /\ [Next]_vars => [CauseShown]_vars
  BY <1>1
<1>3. [CauseShown]_vars =>
        [/\ ended'.call = "receive" /\ ended'.result = "SerialDisconnectedError" => removed
         /\ ended'.result \in {"SerialClosedError", "trio.ClosedResourceError"}
              => ~open \/ PurgedCallEnds
         /\ ended'.result = "AssertionError" => ~open /\ runtime = "asyncio"]_vars
  BY DEF CauseShown
<1> QED
  BY <1>2, <1>3, Invariance, PTL DEF Spec, ErrorsHaveCause

-----------------------------------------------------------------------------
(* The bytes.  What Input calls pending and gone: *)

\* The bytes of the completed read of a call in progress.
Carried == IF Live = {} THEN <<>> ELSE op[CHOOSE o \in Live : TRUE].data

Coming == IF Live = {} THEN rx ELSE op[CHOOSE o \in Live : TRUE].data \o rx

OrphanBytes == UNION {Bytes(op[o].data) : o \in Orphans}

Gone == lost \cup cleared \cup OrphanBytes

\* Only one read at a time has bytes for a caller.
LEMMA OneLive ==
  ASSUME IInv, NEW o \in Ops, op[o].task # None, op[o].kind = "read",
         NEW p \in Live
  PROVE  p = o
<1>1. p \in Ops /\ op[p].task # None /\ op[p].kind = "read"
  BY DEF Live, IInv, OpOK
<1>2. op[o].task \in Tasks /\ op[p].task \in Tasks
  BY <1>1, Fields DEF IInv
<1>3. KindOf(call[op[o].task]) = "read" /\ KindOf(call[op[p].task]) = "read"
  BY <1>1 DEF IInv, Owned
<1>4. call[op[o].task] = "receive" /\ call[op[p].task] = "receive"
  BY <1>3 DEF KindOf
<1>5. op[p].task = op[o].task
  BY <1>2, <1>4 DEF IInv, OneReceiver
<1> QED
  BY <1>1, <1>5 DEF IInv, Owned

LEMMA CarriedIs ==
  ASSUME IInv
  PROVE  /\ Carried \in Seq(Nat) /\ rx \in Seq(Nat) /\ Coming \in Seq(Nat)
         /\ Coming = Carried \o rx
<1>1. rx \in Seq(Nat)
  BY DEF IInv, Typed
<1>2. CASE Live = {}
  <2>1. Carried = <<>> /\ Coming = rx
    BY <1>2 DEF Carried, Coming
  <2>2. <<>> \o rx = rx /\ <<>> \in Seq(Nat)
    BY <1>1, ConcatEmptySeq
  <2> QED
    BY <1>1, <2>1, <2>2
<1>3. CASE Live # {}
  <2>1. PICK o \in Live : o = CHOOSE p \in Live : TRUE
    BY <1>3
  <2>2. Carried = op[o].data /\ Coming = op[o].data \o rx
    BY <1>3, <2>1 DEF Carried, Coming
  <2>3. op[o].data \in Seq(Nat)
    BY Fields DEF Live, IInv
  <2>4. op[o].data \o rx \in Seq(Nat)
    BY <1>1, <2>3, ConcatProperties
  <2> QED
    BY <1>1, <2>2, <2>3, <2>4
<1> QED
  BY <1>2, <1>3

\* A live read carries its own bytes; without one there are none.
LEMMA CarriedByLive ==
  ASSUME IInv, NEW o \in Live
  PROVE  Live = {o} /\ Carried = op[o].data
<1>1. o \in Ops /\ op[o].task # None /\ op[o].kind = "read"
  BY DEF Live, IInv, OpOK
<1>2. Live = {o}
  BY <1>1, OneLive
<1> QED
  BY <1>2 DEF Carried

\* The bytes of operations that have none before and after a step, or the
\* same and the same task.
LEMMA DataKept ==
  ASSUME \A o \in Ops : \/ op'[o].data = op[o].data /\ op'[o].task = op[o].task
                        \/ op'[o].data = <<>> /\ op[o].data = <<>>
  PROVE  /\ Live' = Live /\ OrphanBytes' = OrphanBytes
         /\ UNCHANGED rx => Coming' = Coming
         /\ Carried' = Carried
<1>1. Live' = Live
  BY DEF Live
<1>2. Bytes(<<>>) = {}
  BY DEF Bytes
<1>3. OrphanBytes' = OrphanBytes
  BY <1>2 DEF OrphanBytes, Orphans
<1>4. CASE Live = {}
  BY <1>1, <1>3, <1>4 DEF Carried, Coming
<1>5. CASE Live # {}
  <2>1. PICK o \in Live : o = CHOOSE p \in Live : TRUE
    BY <1>5
  <2>2. o \in Ops /\ op[o].data # <<>>
    BY DEF Live
  <2>3. op'[o].data = op[o].data
    BY <2>2
  <2>4. Carried = op[o].data /\ Coming = op[o].data \o rx
    BY <1>5, <2>1 DEF Carried, Coming
  <2>5. Carried' = op'[o].data /\ Coming' = op'[o].data \o rx'
    BY <1>1, <1>5, <2>1 DEF Carried, Coming
  <2> QED
    BY <1>1, <1>3, <2>3, <2>4, <2>5
<1> QED
  BY <1>4, <1>5

\* An operation that gets the bytes d and has no task.
LEMMA OrphanGets ==
  ASSUME NEW o \in Ops, NEW d, op'[o].task = None, op'[o].data = d,
         op[o].task # None \/ op[o].data = <<>>,
         \A p \in Ops \ {o} : op'[p] = op[p]
  PROVE  OrphanBytes' = OrphanBytes \cup Bytes(d)
<1>1. Bytes(<<>>) = {}
  BY DEF Bytes
<1>2. ASSUME NEW x PROVE x \in OrphanBytes <=> \E p \in Ops : op[p].task = None /\ x \in Bytes(op[p].data)
  BY DEF OrphanBytes, Orphans
<1>3. ASSUME NEW x PROVE x \in OrphanBytes' <=> \E p \in Ops : op'[p].task = None /\ x \in Bytes(op'[p].data)
  BY DEF OrphanBytes, Orphans, Bytes
<1>4. ASSUME NEW x \in OrphanBytes' PROVE x \in OrphanBytes \cup Bytes(d)
  BY <1>2, <1>3, <1>4
<1>5. ASSUME NEW x \in OrphanBytes PROVE x \in OrphanBytes'
  <2>1. PICK p \in Ops : op[p].task = None /\ x \in Bytes(op[p].data)
    BY <1>2, <1>5
  <2>2. p # o
    BY <1>1, <2>1
  <2> QED
    BY <1>3, <2>1, <2>2
<1>6. ASSUME NEW x \in Bytes(d) PROVE x \in OrphanBytes'
  BY <1>3, <1>6
<1> QED
  BY <1>4, <1>5, <1>6

\* The loss of the bytes m between a and z.
LEMMA LossRefines ==
  ASSUME IInv, NEW a \in Seq(Nat), NEW m \in Seq(Nat), NEW z \in Seq(Nat),
         m # <<>>, Coming = a \o (m \o z), Coming' = a \o z,
         Gone' = Gone \cup Bytes(m), UNCHANGED <<arrived, delivered>>
  PROVE  Input!Lose
<1>1. Coming \in Seq(Nat)
  BY CarriedIs
<1>2. PICK s \in Seq(Nat) : s = Coming
  BY <1>1
<1>3. s = a \o (m \o z)
  BY <1>2
<1>4. CutsOut(s, a \o z, ElementsOf(m))
  BY <1>3, MiddleLost
<1>5. Bytes(m) = ElementsOf(m)
  BY DEF Bytes, ElementsOf
<1>6. CutsOut(Coming, Coming', Bytes(m))
  BY <1>2, <1>4, <1>5
<1>7. PICK i, j \in 1..Len(Coming) :
        /\ i <= j
        /\ Coming' = SubSeq(Coming, 1, i - 1) \o SubSeq(Coming, j + 1, Len(Coming))
        /\ Bytes(m) = {Coming[n] : n \in i..j}
  BY <1>6 DEF CutsOut
<1>8. Gone' = Gone \cup {Coming[n] : n \in i..j}
  BY <1>7
<1> QED
  BY <1>7, <1>8, Zenon DEF Input!Lose, Coming, Gone, OrphanBytes

\* What a step can be to the abstract stream, but for its end.
AbstractStep ==
  \/ UNCHANGED <<arrived, Coming, delivered, Gone>>
  \/ Input!Arrive \/ Input!Deliver \/ Input!Lose

LEMMA KeepsRefines ==
  ASSUME IInv, Keeps
  PROVE  AbstractStep
<1>1. /\ OrphanBytes' = OrphanBytes /\ Carried' = Carried
      /\ UNCHANGED rx => Coming' = Coming
  BY DataKept DEF Keeps, SameOps, Kept
<1>2. CASE UNCHANGED inVars
  BY <1>1, <1>2 DEF inVars, AbstractStep, Gone
<1>3. /\ Carried \in Seq(Nat) /\ rx \in Seq(Nat) /\ Coming = Carried \o rx
      /\ arrived \in Nat
  BY CarriedIs DEF IInv, Typed
<1>4. Carried \o <<>> = Carried
  BY <1>3, ConcatEmptySeq
<1>5. CASE Arrives
  <2>1. rx' = rx \o <<arrived + 1>> /\ <<arrived + 1>> \in Seq(Nat)
    <3>1. PICK x \in Nat : x = arrived + 1
      BY <1>3
    <3>2. Append(rx, x) = rx \o <<x>> /\ <<x>> \in Seq(Nat)
      BY <1>3, AppendIsConcat
    <3> QED
      BY <1>5, <3>1, <3>2 DEF Arrives
  <2>2. rx' \in Seq(Nat)
    BY <1>3, <1>5 DEF Arrives
  <2>3. Coming' = Carried \o rx'
    <3>1. CASE Live = {}
      <4>1. Live' = {} /\ Carried = <<>>
        BY <3>1, DataKept DEF Keeps, SameOps, Kept, Carried
      <4> QED
        BY <2>2, <4>1, ConcatEmptySeq DEF Coming
    <3>2. CASE Live # {}
      <4>1. Live' # {}
        BY <3>2, DataKept DEF Keeps, SameOps, Kept
      <4>2. Coming' = Carried' \o rx'
        BY <4>1 DEF Coming, Carried
      <4> QED
        BY <1>1, <4>2
    <3> QED
      BY <3>1, <3>2
  <2>4. (Carried \o rx) \o <<arrived + 1>> = Carried \o (rx \o <<arrived + 1>>)
    BY <1>3, <2>1, GlueAssociative
  <2>5. Coming' = Coming \o <<arrived + 1>>
    BY <1>3, <2>1, <2>3, <2>4
  <2>6. arrived' - arrived = 1 /\ arrived' \in Nat /\ arrived' > arrived
    BY <1>3, <1>5 DEF Arrives
  <2>7. <<arrived + 1>> = [i \in 1..1 |-> arrived + i]
    BY <1>3
  <2>8. Coming' = Coming \o [i \in 1..(arrived' - arrived) |-> arrived + i]
    BY <2>5, <2>6, <2>7
  <2>9. UNCHANGED <<delivered, Gone>>
    BY <1>1, <1>5 DEF Arrives, Gone
  <2>10. Input!Arrive
    BY <2>6, <2>8, <2>9 DEF Input!Arrive, Coming, Gone, OrphanBytes
  <2> QED
    BY <2>10 DEF AbstractStep
<1>6. CASE Clears
  <2>1. rx' = <<>> /\ UNCHANGED <<arrived, delivered>>
    BY <1>6 DEF Clears
  <2>2. Gone' = Gone \cup Bytes(rx)
    BY <1>1, <1>6 DEF Clears, Gone
  <2>3. Coming' = Carried
    <3>1. CASE Live = {}
      BY <2>1, <3>1, DataKept DEF Keeps, SameOps, Kept, Carried, Coming
    <3>2. CASE Live # {}
      <4>1. Live' # {}
        BY <3>2, DataKept DEF Keeps, SameOps, Kept
      <4>2. Coming' = Carried' \o rx'
        BY <4>1 DEF Coming, Carried
      <4> QED
        BY <1>1, <1>4, <2>1, <4>2
    <3> QED
      BY <3>1, <3>2
  <2>4. CASE rx = <<>>
    <3>1. Bytes(rx) = {}
      BY <2>4 DEF Bytes
    <3> QED
      BY <1>3, <1>4, <2>1, <2>2, <2>3, <2>4, <3>1 DEF AbstractStep
  <2>5. CASE rx # <<>>
    <3>1. rx \o <<>> = rx /\ <<>> \in Seq(Nat)
      BY <1>3, ConcatEmptySeq
    <3>2. Coming = Carried \o (rx \o <<>>) /\ Coming' = Carried \o <<>>
      BY <1>3, <1>4, <2>3, <3>1
    <3>3. Input!Lose
      BY <1>3, <2>1, <2>2, <2>5, <3>1, <3>2, LossRefines
    <3> QED
      BY <3>3 DEF AbstractStep
  <2> QED
    BY <2>4, <2>5
<1> QED
  BY <1>2, <1>5, <1>6 DEF Keeps

LEMMA NoBytes ==
  ASSUME IInv, NEW o \in Ops, NEW r, r \in Operation, op' = [op EXCEPT ![o] = r],
         \/ r.data = <<>> /\ op[o].data = <<>>
         \/ r.data = op[o].data /\ r.task = op[o].task,
         UNCHANGED inVars
  PROVE  AbstractStep
<1>1. op'[o] = r /\ \A p \in Ops \ {o} : op'[p] = op[p]
  BY OneChanges DEF IInv
<1>2. OrphanBytes' = OrphanBytes /\ Coming' = Coming
  BY <1>1, DataKept DEF inVars
<1> QED
  BY <1>2 DEF inVars, AbstractStep, Gone

LEMMA IssuesRefines ==
  ASSUME IInv, NEW t \in Tasks, NEW m \in Methods, NEW o \in Ops, Issues(t, m, o)
  PROVE  AbstractStep
<1>1. KindOf(m) # "none" /\ op' = [op EXCEPT ![o] = Pending(t, KindOf(m))]
      /\ op[o].data = <<>> /\ UNCHANGED inVars
  BY DEF Issues
<1>2. Pending(t, KindOf(m)) \in Operation /\ Pending(t, KindOf(m)).data = <<>>
  BY <1>1, Records DEF IInv
<1> QED
  BY <1>1, <1>2, NoBytes

LEMMA FreeRecord == Free \in Operation /\ Free.task = None /\ Free.data = <<>>
<1>1. <<>> \in Seq(Nat)
  OBVIOUS
<1> QED
  BY <1>1 DEF Free, Operation

LEMMA FreesRefines ==
  ASSUME IInv, NEW t \in Tasks, NEW o \in Ops, Frees(t, o)
  PROVE  AbstractStep
<1>1. /\ op' = [op EXCEPT ![o] = Free] /\ op'[o] = Free
      /\ \A p \in Ops \ {o} : op'[p] = op[p]
  BY FreeRecord, OneChanges DEF Frees, IInv
<1>2. op[o].data \in Seq(Nat) /\ delivered \in Seq(Nat)
  BY Fields DEF IInv, Typed
<1>3. CASE op[o].data = <<>>
  <2>1. delivered \o <<>> = delivered
    BY <1>2, ConcatEmptySeq
  <2>2. UNCHANGED inVars
    BY <1>3, <2>1 DEF Frees, inVars
  <2> QED
    BY <1>1, <1>3, <2>2, NoBytes, FreeRecord
<1>4. CASE op[o].data # <<>>
  <2>1. /\ op[o].task = t /\ delivered' = delivered \o op[o].data
        /\ UNCHANGED <<rx, arrived, lost, cleared>>
    BY <1>4 DEF Frees
  <2>2. o \in Live
    BY <1>4, <2>1, NoneAssumption DEF Live
  <2>3. Live = {o} /\ Carried = op[o].data
    BY <2>2, CarriedByLive
  <2>4. Live' = {}
    <3>1. ASSUME NEW p \in Live' PROVE FALSE
      <4>1. p \in Ops /\ op'[p].data # <<>> /\ op'[p].task # None
        BY DEF Live
      <4>2. p # o
        BY <1>1, <4>1, FreeRecord
      <4>3. p \in Live
        BY <1>1, <4>1, <4>2 DEF Live
      <4> QED
        BY <2>3, <4>2, <4>3
    <3> QED
      BY <3>1
  <2>5. OrphanBytes' = OrphanBytes
    <3>1. OrphanBytes' = OrphanBytes \cup Bytes(<<>>)
      BY <1>1, <2>1, FreeRecord, OrphanGets, NoneAssumption
    <3> QED
      BY <3>1 DEF Bytes
  <2>6. Coming = op[o].data \o rx /\ rx \in Seq(Nat) /\ Coming' = rx
    BY <2>1, <2>3, <2>4, CarriedIs DEF Coming
  <2>7. PICK k : k = Len(op[o].data)
    OBVIOUS
  <2>8. /\ SubSeq(Coming, 1, k) = op[o].data /\ SubSeq(Coming, k + 1, Len(Coming)) = rx
        /\ Len(Coming) = k + Len(rx)
    BY <1>2, <2>6, <2>7, Parts
  <2>9. k \in 1..Len(Coming)
    <3>1. k \in Nat /\ k # 0 /\ Len(rx) \in Nat
      BY <1>2, <1>4, <2>6, <2>7
    <3> QED
      BY <2>8, <3>1
  <2>10. UNCHANGED <<arrived, Gone>>
    BY <2>1, <2>5 DEF Gone
  <2>11. /\ delivered' = delivered \o SubSeq(Coming, 1, k)
         /\ Coming' = SubSeq(Coming, k + 1, Len(Coming))
    BY <2>1, <2>6, <2>8
  <2>12. Input!Deliver
    <3>1. opened \in {"no", "lookup"} \/ open \/ Live # {}
      BY <2>3
    <3> QED
      BY <2>9, <2>10, <2>11, <3>1, Zenon DEF Input!Deliver, Coming, Gone, OrphanBytes
  <2> QED
    BY <2>12 DEF AbstractStep
<1> QED
  BY <1>3, <1>4

LEMMA LeavesRefines ==
  ASSUME IInv, NEW t \in Tasks, NEW o \in Ops,
         NEW a \in {op[o].pin, "abandoned"}, Leaves(t, o, a)
  PROVE  AbstractStep
<1>1. PICK r \in Operation :
        r = [op[o] EXCEPT !.task = None, !.abort = "cancel", !.pin = a]
  <2>1. op[o] \in Operation /\ a \in {"frame", "cache", "abandoned"}
    BY Fields DEF IInv, Typed
  <2> QED
    BY <2>1 DEF Operation
<1>2. r.task = None /\ r.data = op[o].data /\ op[o].data \in Seq(Nat)
  BY <1>1 DEF IInv, Typed, Operation
<1>3. /\ op' = [op EXCEPT ![o] = r] /\ op'[o] = r
      /\ \A p \in Ops \ {o} : op'[p] = op[p]
      /\ UNCHANGED inVars /\ op[o].task = t
  BY <1>1, OneChanges DEF IInv, Leaves
<1>4. CASE op[o].data = <<>>
  BY <1>2, <1>3, <1>4, NoBytes
<1>5. CASE op[o].data # <<>>
  <2>1. o \in Live
    BY <1>3, <1>5, NoneAssumption DEF Live
  <2>2. Live = {o} /\ Carried = op[o].data
    BY <2>1, CarriedByLive
  <2>3. Live' = {}
    <3>1. ASSUME NEW p \in Live' PROVE FALSE
      <4>1. p \in Ops /\ op'[p].data # <<>> /\ op'[p].task # None
        BY DEF Live
      <4>2. p # o
        BY <1>2, <1>3, <4>1
      <4>3. p \in Live
        BY <1>3, <4>1, <4>2 DEF Live
      <4> QED
        BY <2>2, <4>2, <4>3
    <3> QED
      BY <3>1
  <2>4. OrphanBytes' = OrphanBytes \cup Bytes(op[o].data)
    BY <1>2, <1>3, OrphanGets, NoneAssumption
  <2>5. Coming = op[o].data \o rx /\ rx \in Seq(Nat) /\ Coming' = rx
    BY <1>3, <2>2, <2>3, CarriedIs DEF Coming, inVars
  <2>6. op[o].data \o rx \in Seq(Nat) /\ <<>> \in Seq(Nat)
    BY <1>2, <2>5, ConcatProperties
  <2>7. Coming = <<>> \o (op[o].data \o rx) /\ Coming' = <<>> \o rx
    BY <2>5, <2>6, ConcatEmptySeq
  <2>8. Gone' = Gone \cup Bytes(op[o].data) /\ UNCHANGED <<arrived, delivered>>
    BY <1>3, <2>4 DEF Gone, inVars
  <2>9. Input!Lose
    BY <1>2, <1>5, <2>5, <2>6, <2>7, <2>8, LossRefines
  <2> QED
    BY <2>9 DEF AbstractStep
<1> QED
  BY <1>4, <1>5

LEMMA EndsRefines ==
  ASSUME IInv, NEW o \in Ops, NEW s, NEW d \in Seq(Nat), NEW k \in Nat,
         Ends(o, s, d, k)
  PROVE  AbstractStep
<1>1. PICK r \in Operation :
        r = [op[o] EXCEPT !.st = "done", !.status = s, !.data = d, !.n = k]
  <2>1. op[o] \in Operation
    BY DEF IInv, Typed
  <2>2. s \in {"ok", "aborted", "removed"}
    BY DEF Ends
  <2> QED
    BY <2>1, <2>2 DEF Operation
<1>2. r.task = op[o].task /\ r.data = d
  BY <1>1 DEF IInv, Typed, Operation
<1>3. /\ op' = [op EXCEPT ![o] = r] /\ op'[o] = r
      /\ \A p \in Ops \ {o} : op'[p] = op[p]
  BY <1>1, OneChanges DEF IInv, Ends
<1>4. op[o].data = <<>>
  BY DEF IInv, OpOK, Ends
<1>5. rx \in Seq(Nat)
  BY DEF IInv, Typed
<1>6. CASE d = <<>> /\ UNCHANGED inVars
  BY <1>2, <1>3, <1>4, <1>6, NoBytes
<1>7. ASSUME NEW j \in 0..Len(rx), op[o].kind = "read",
             d = SubSeq(rx, 1, j), rx' = SubSeq(rx, j + 1, Len(rx)),
             UNCHANGED <<arrived, delivered, lost, cleared>>
      PROVE  AbstractStep
  <2>1. rx' \in Seq(Nat) /\ d \o rx' = rx
    <3>1. j \in Nat /\ j <= Len(rx)
      BY <1>5, <1>7
    <3> QED
      BY <1>5, <1>7, <3>1, CutAndGlue
  <2>2. CASE d = <<>>
    <3>1. rx' = rx
      BY <1>5, <2>1, <2>2, ConcatEmptySeq
    <3> QED
      BY <1>2, <1>3, <1>4, <1>7, <2>2, <3>1, NoBytes DEF inVars
  <2>3. CASE d # <<>> /\ op[o].task = None
    <3>1. OrphanBytes' = OrphanBytes \cup Bytes(d)
      BY <1>2, <1>3, <1>4, <2>3, OrphanGets
    <3>2. \A p \in Ops : p \in Live' <=> p \in Live
      BY <1>2, <1>3, <1>4, <2>3 DEF Live
    <3>3. Live' = Live
      BY <3>2 DEF Live
    <3>4. Coming' = Carried \o rx'
      <4>1. CASE Live = {}
        BY <2>1, <3>3, <4>1, ConcatEmptySeq DEF Coming, Carried
      <4>2. CASE Live # {}
        <5>1. PICK p \in Live : p = CHOOSE q \in Live : TRUE
          BY <4>2
        <5>2. p \in Ops \ {o}
          BY <2>3, <5>1 DEF Live
        <5>3. op'[p] = op[p]
          BY <1>3, <5>2
        <5>4. Carried = op[p].data
          BY <4>2, <5>1 DEF Carried
        <5>5. Coming' = op'[p].data \o rx'
          BY <3>3, <4>2, <5>1 DEF Coming
        <5> QED
          BY <5>3, <5>4, <5>5
      <4> QED
        BY <4>1, <4>2
    <3>5. Coming = Carried \o (d \o rx') /\ Carried \in Seq(Nat)
      BY <2>1, CarriedIs
    <3>6. Gone' = Gone \cup Bytes(d)
      BY <1>7, <3>1 DEF Gone
    <3>7. Input!Lose
      BY <1>7, <2>1, <2>3, <3>4, <3>5, <3>6, LossRefines
    <3> QED
      BY <3>7 DEF AbstractStep
  <2>4. CASE d # <<>> /\ op[o].task # None
    <3>1. Live = {}
      <4>1. ASSUME NEW p \in Live PROVE FALSE
        <5>1. p = o
          BY <1>7, <2>4, OneLive
        <5> QED
          BY <1>4, <5>1 DEF Live
      <4> QED
        BY <4>1
    <3>2. Live' = {o}
      <4>1. o \in Live'
        BY <1>2, <1>3, <2>4 DEF Live
      <4>2. ASSUME NEW p \in Live' PROVE p = o
        BY <1>3, <3>1 DEF Live
      <4> QED
        BY <4>1, <4>2
    <3>3. Coming' = d \o rx' /\ Coming = rx
      BY <1>2, <1>3, <3>1, <3>2 DEF Coming
    <3>4. OrphanBytes' = OrphanBytes
      <4>1. Orphans' = Orphans /\ o \notin Orphans
        BY <1>2, <1>3, <2>4 DEF Orphans
      <4>2. \A p \in Orphans : op'[p] = op[p]
        BY <1>3, <4>1 DEF Orphans
      <4> QED
        BY <4>1, <4>2 DEF OrphanBytes, Bytes
    <3> QED
      BY <1>7, <2>1, <3>3, <3>4 DEF AbstractStep, Gone
  <2> QED
    BY <2>2, <2>3, <2>4
<1> QED
  BY <1>6, <1>7 DEF Ends

LEMMA DequeueRefines ==
  ASSUME IInv, NEW o \in Ops, Dequeue(o)
  PROVE  AbstractStep
<1>1. op[o] \in Operation
  BY DEF IInv, Typed
<1>2. CASE op[o].task # None
  <2>1. PICK r \in Operation : r = [op[o] EXCEPT !.st = "ready"]
    BY <1>1 DEF Operation
  <2>2. r.data = op[o].data /\ r.task = op[o].task
    BY <1>1, <2>1 DEF Operation
  <2>3. op' = [op EXCEPT ![o] = r] /\ UNCHANGED inVars
    BY <1>2, <2>1 DEF Dequeue, inVars
  <2> QED
    BY <2>2, <2>3, NoBytes
<1>3. CASE op[o].task = None
  <2>1. /\ op' = [op EXCEPT ![o] = Free] /\ lost' = lost \cup Bytes(op[o].data)
        /\ UNCHANGED <<rx, arrived, delivered, cleared>>
    BY <1>3 DEF Dequeue
  <2>2. op'[o] = Free /\ \A p \in Ops \ {o} : op'[p] = op[p]
    BY <2>1, OneChanges, FreeRecord DEF IInv
  <2>3. Live' = Live
    BY <1>3, <2>2, FreeRecord DEF Live
  <2>4. \A p \in Live : op'[p] = op[p]
    BY <1>3, <2>2 DEF Live
  <2>5. Coming' = Coming
    <3>1. CASE Live = {}
      BY <2>1, <2>3, <3>1 DEF Coming
    <3>2. CASE Live # {}
      <4>1. PICK p \in Live : p = CHOOSE q \in Live : TRUE
        BY <3>2
      <4>2. Coming = op[p].data \o rx
        BY <3>2, <4>1 DEF Coming
      <4>3. Coming' = op'[p].data \o rx'
        BY <2>3, <3>2, <4>1 DEF Coming
      <4> QED
        BY <2>1, <2>4, <4>2, <4>3
    <3> QED
      BY <3>1, <3>2
  <2>6. Gone' = Gone
    <3>1. Bytes(<<>>) = {}
      BY DEF Bytes
    <3>2. ASSUME NEW x
          PROVE  x \in OrphanBytes <=>
                   \E p \in Ops : op[p].task = None /\ x \in Bytes(op[p].data)
      BY DEF OrphanBytes, Orphans
    <3>3. ASSUME NEW x
          PROVE  x \in OrphanBytes' <=>
                   \E p \in Ops : op'[p].task = None /\ x \in Bytes(op'[p].data)
      BY DEF OrphanBytes, Orphans, Bytes
    <3>4. ASSUME NEW x \in OrphanBytes' PROVE x \in OrphanBytes
      <4>1. PICK p \in Ops : op'[p].task = None /\ x \in Bytes(op'[p].data)
        BY <3>3, <3>4
      <4>2. p # o
        BY <2>2, <3>1, <4>1, FreeRecord
      <4> QED
        BY <2>2, <3>2, <4>1, <4>2
    <3>5. ASSUME NEW x \in OrphanBytes
          PROVE  x \in OrphanBytes' \/ x \in Bytes(op[o].data)
      <4>1. PICK p \in Ops : op[p].task = None /\ x \in Bytes(op[p].data)
        BY <3>2, <3>5
      <4> QED
        BY <2>2, <3>3, <4>1
    <3>6. ASSUME NEW x \in Bytes(op[o].data) PROVE x \in OrphanBytes
      BY <1>3, <3>2, <3>6
    <3> QED
      BY <2>1, <3>4, <3>5, <3>6 DEF Gone
  <2> QED
    BY <2>1, <2>5, <2>6 DEF AbstractStep
<1> QED
  BY <1>2, <1>3

\* Bytes can be handed out until the port is closed and no completed read is
\* left, and never again.
LEMMA OpenStep ==
  ASSUME IInv, Next, Effects,
         ~(opened \in {"no", "lookup"} \/ open \/ Live # {})
  PROVE  ~(opened' \in {"no", "lookup"} \/ open' \/ Live' # {})
<1>1. opened' \notin {"no", "lookup"} /\ ~open'
  <2>1. opened \notin {"no", "lookup"} /\ open = FALSE
    BY DEF IInv, Typed
  <2>2. opened' = opened /\ (open' = open \/ open' = FALSE)
    BY <2>1, PortSteps DEF PortStep
  <2> QED
    BY <2>1, <2>2
<1>2. ASSUME NEW p \in Live' PROVE FALSE
  <2>1. p \in Ops /\ op'[p].data # <<>> /\ op'[p].task # None
    BY DEF Live
  <2>2. \A q \in Ops : op[q].task = None \/ op[q].data = <<>>
    BY DEF Live
  <2>3. CASE Keeps
    BY <2>1, <2>2, <2>3 DEF Keeps, SameOps, Kept
  <2>4. ASSUME NEW t \in Tasks, NEW o \in Ops, NEW m \in Methods, Issues(t, m, o)
        PROVE  FALSE
    BY <2>1, <2>2, <2>4, Records, OneChanges DEF Issues, IInv
  <2>5. ASSUME NEW t \in Tasks, NEW o \in Ops, Frees(t, o) PROVE FALSE
    BY <2>1, <2>2, <2>5, FreeRecord, OneChanges DEF Frees, IInv
  <2>6. ASSUME NEW t \in Tasks, NEW o \in Ops,
               NEW a \in {op[o].pin, "abandoned"}, Leaves(t, o, a)
        PROVE  FALSE
    <3>1. PICK r : r = [op[o] EXCEPT !.task = None, !.abort = "cancel", !.pin = a]
      OBVIOUS
    <3>2. r.task = None
      BY <3>1 DEF IInv, Typed, Operation
    <3>3. op'[o] = r /\ \A q \in Ops \ {o} : op'[q] = op[q]
      BY <2>6, <3>1 DEF Leaves, IInv, Typed
    <3> QED
      BY <2>1, <2>2, <3>2, <3>3
  <2>7. ASSUME NEW o \in Ops, NEW s, NEW d, NEW k, Ends(o, s, d, k)
        PROVE  FALSE
    <3>1. PICK r : r = [op[o] EXCEPT !.st = "done", !.status = s, !.data = d, !.n = k]
      OBVIOUS
    <3>2. r.data = d
      BY <3>1 DEF IInv, Typed, Operation
    <3>3. op'[o] = r /\ \A q \in Ops \ {o} : op'[q] = op[q]
      BY <2>7, <3>1 DEF Ends, IInv, Typed
    <3>4. d = <<>>
      BY <2>7 DEF Ends
    <3> QED
      BY <2>1, <2>2, <3>2, <3>3, <3>4
  <2>8. ASSUME NEW o \in Ops, Dequeue(o) PROVE FALSE
    <3>1. PICK r : r = IF op[o].task = None THEN Free ELSE [op[o] EXCEPT !.st = "ready"]
      OBVIOUS
    <3>2. r.task = op[o].task /\ (r.task # None => r.data = op[o].data)
      <4>1. op[o] \in Operation
        BY DEF IInv, Typed
      <4> QED
        BY <3>1, <4>1, FreeRecord DEF Operation
    <3>3. op'[o] = r /\ \A q \in Ops \ {o} : op'[q] = op[q]
      BY <2>8, <3>1 DEF Dequeue, IInv, Typed
    <3> QED
      BY <2>1, <2>2, <3>2, <3>3
  <2> QED
    BY <2>3, <2>4, <2>5, <2>6, <2>7, <2>8 DEF Effects
<1> QED
  BY <1>1, <1>2

LEMMA InputRefines ==
  ASSUME IInv, [Next]_vars
  PROVE  [Input!Next]_(Input!vars)
<1> DEFINE isOpen == opened \in {"no", "lookup"} \/ open \/ Live # {}
<1>1. CASE UNCHANGED vars
  BY <1>1 DEF vars, portVars, inVars, Input!vars, Live, Orphans, Bytes
<1>2. CASE Next
  <2>1. Effects
    BY <1>2, StepEffects
  <2>2. AbstractStep
    BY <2>1, KeepsRefines, IssuesRefines, FreesRefines, LeavesRefines,
       EndsRefines, DequeueRefines DEF Effects
  <2>3. isOpen' \in BOOLEAN /\ (isOpen' => isOpen)
    BY <1>2, <2>1, OpenStep
  <2> QED
    BY <2>2, <2>3, Zenon DEF AbstractStep, Input!Next, Coming, Gone, OrphanBytes
<1> QED
  BY <1>1, <1>2

\* Only asyncio leaves a read behind that may have taken bytes.
LEMMA LostStep ==
  ASSUME IInv, lost # {} => runtime = "asyncio", [Next]_vars
  PROVE  (lost # {} => runtime = "asyncio")'
<1>1. CASE UNCHANGED vars
  BY <1>1 DEF vars, portVars, inVars
<1>2. CASE Next
  <2>1. Effects /\ runtime' = runtime
    BY <1>2, StepEffects, PortSteps
  <2>2. ASSUME NEW o \in Ops, Dequeue(o) PROVE lost' = lost \/ runtime = "asyncio"
    BY <2>2 DEF Dequeue, IInv, OpOK
  <2>3. lost' = lost \/ runtime = "asyncio"
    BY <2>1, <2>2 DEF Effects, Keeps, Arrives, Clears, Issues, Frees, Leaves,
       Ends, inVars
  <2> QED
    BY <2>1, <2>3
<1> QED
  BY <1>1, <1>2

LEMMA InitRefines == Init => Input!Init /\ lost = {}
<1> SUFFICES ASSUME Init PROVE Input!Init /\ lost = {}
  OBVIOUS
<1>1. Live = {} /\ \A o \in Orphans : op[o].data = <<>>
  BY DEF Init, Live, Orphans, Free
<1>2. OrphanBytes = {}
  BY <1>1 DEF OrphanBytes, Bytes
<1>3. /\ (opened \in {"no", "lookup"} \/ open \/ Live # {}) = TRUE
      /\ arrived = 0 /\ delivered = <<>> /\ rx = <<>> /\ lost = {} /\ cleared = {}
  BY DEF Init
<1> QED
  BY <1>1, <1>2, <1>3 DEF Input!Init, OrphanBytes

\* On both runtimes reading from the port is reading from a byte stream:
\* whatever completed, cancelled, purged and abandoned reads leave behind, no
\* byte is returned twice, out of order or to a later caller, and only asyncio
\* loses bytes with a cancelled call.
THEOREM InputRefinement == Spec => ReadsAStream
<1>1. Init => (lost # {} => runtime = "asyncio")
  BY InitRefines
<1>2. Spec => [](lost # {} => runtime = "asyncio")
  BY <1>1, Invariance, LostStep, PTL DEF Spec
<1>3. Spec => Input!Spec
  BY InitRefines, InputRefines, Invariance, PTL DEF Spec, Input!Spec
<1> QED
  BY <1>2, <1>3, PTL DEF ReadsAStream
=============================================================================
