---------------------- MODULE ProviderLifecycleProofs ----------------------
(***************************************************************************)
(* ProviderNetwork implements ProviderLifecycle, for every set of provider *)
(* networks and nodes and every bound: the initial states map to initial   *)
(* states, and every step of a state in the inductive invariant maps to a  *)
(* step or a stutter.                                                      *)
(***************************************************************************)
EXTENDS ProviderNetworkProofs

\* The abstract step, or none.
LifecycleStep == [Lifecycle!Next]_(Lifecycle!vars)

\* Parts of what ProviderLifecycle sees.
objectState == <<Declared, Finalized, Deleting>>
ovnState    == <<ls, localnet>>
orderState  == <<Orders, Removals>>
nodeState   == <<SyncedNodes, bridges>>

(***************************************************************************)
(* Orders and removals on their way.                                       *)
(***************************************************************************)

\* What is in a message or in a list is an order, or a removal.
LEMMA OrderOf ==
  /\ \A n \in Nodes : \A m \in Creating(n) : <<m.pn, m.spec>> \in Orders
  /\ \A x \in Listed : <<x[1], x[2].spec>> \in Orders
  /\ \A n \in Nodes : \A m \in Removing(n) : m.pn \in Removals
<1>1. ASSUME NEW n \in Nodes, NEW m \in Creating(n) PROVE <<m.pn, m.spec>> \in Orders
  <2>1. m \in UNION {Creating(x) : x \in Nodes}
    OBVIOUS
  <2>. QED
    BY <2>1 DEF Orders
<1>2. ASSUME NEW x \in Listed PROVE <<x[1], x[2].spec>> \in Orders
  BY DEF Orders
<1>3. ASSUME NEW n \in Nodes, NEW m \in Removing(n) PROVE m.pn \in Removals
  <2>1. m \in UNION {Removing(x) : x \in Nodes}
    OBVIOUS
  <2>. QED
    BY <2>1 DEF Removals
<1>. QED
  BY <1>1, <1>2, <1>3

\* If every message and every list entry stays within T, so do the orders.
LEMMA OrdersWithin ==
  ASSUME NEW T,
         \A n \in Nodes : \A m \in Creating(n)' : <<m.pn, m.spec>> \in T,
         \A x \in Listed' : <<x[1], x[2].spec>> \in T
  PROVE  Orders' \subseteq T
<1>1. Orders' = {<<m.pn, m.spec>> : m \in UNION {Creating(n)' : n \in Nodes}}
                \cup {<<x[1], x[2].spec>> : x \in Listed'}
  BY DEF Orders
<1>. QED
  BY <1>1

\* The same of removals.
LEMMA RemovalsWithin ==
  ASSUME NEW T, \A n \in Nodes : \A m \in Removing(n)' : m.pn \in T
  PROVE  Removals' \subseteq T
<1>1. Removals' = {m.pn : m \in UNION {Removing(n)' : n \in Nodes}}
  BY DEF Removals
<1>. QED
  BY <1>1

\* A node keeps at most its messages.
Shrinks(n) == store'[n] \subseteq store[n] /\ Letters(n)' \subseteq Letters(n)

\* When nodes and Subscribe calls keep at most what they have, nothing new is on its way.
LEMMA NothingNew ==
  ASSUME \A n \in Nodes : Shrinks(n), \A x \in Listed' : <<x[1], x[2].spec>> \in Orders
  PROVE  Orders' \subseteq Orders /\ Removals' \subseteq Removals
<1>1. ASSUME NEW n \in Nodes
      PROVE  Creating(n)' \subseteq Creating(n) /\ Removing(n)' \subseteq Removing(n)
  <2>1. Shrinks(n)
    OBVIOUS
  <2>. QED
    BY <2>1 DEF Shrinks, Creating, Removing
<1>2. \A n \in Nodes : \A m \in Creating(n)' : <<m.pn, m.spec>> \in Orders
  BY <1>1, OrderOf
<1>3. \A n \in Nodes : \A m \in Removing(n)' : m.pn \in Removals
  BY <1>1, OrderOf
<1>. QED
  BY <1>2, <1>3, OrdersWithin, RemovalsWithin

\* Messages of a stream that lost its first one, or got one more.
LEMMA LettersOf ==
  ASSUME NEW n \in Nodes, chan[n] \in Seq(Messages)
  PROVE  /\ \A m \in Messages : chan'[n] = Append(chan[n], m) => Letters(n)' = Letters(n) \cup {m}
         /\ chan'[n] = chan[n] => Letters(n)' = Letters(n)
         /\ chan'[n] = <<>> => Letters(n)' = {}
         /\ chan[n] # <<>> => Head(chan[n]) \in Letters(n) /\ Head(chan[n]) \in Messages
         /\ chan[n] # <<>> /\ chan'[n] = Tail(chan[n]) =>
              Letters(n) = Letters(n)' \cup {Head(chan[n])}
<1>. DEFINE c == chan[n]
<1>0. Len(c) \in Nat
  OBVIOUS
<1>1. ASSUME NEW m \in Messages, chan'[n] = Append(c, m) PROVE Letters(n)' = Letters(n) \cup {m}
  <2>1. /\ Len(Append(c, m)) = Len(c) + 1 /\ Append(c, m)[Len(c) + 1] = m
        /\ \A i \in 1..Len(c) : Append(c, m)[i] = c[i]
    OBVIOUS
  <2>2. 1..(Len(c) + 1) = (1..Len(c)) \cup {Len(c) + 1}
    BY <1>0
  <2>3. Letters(n)' = {chan'[n][i] : i \in 1..Len(chan'[n])} /\ Letters(n) = {c[i] : i \in 1..Len(c)}
    BY DEF Letters
  <2>. DEFINE e == Append(c, m)
  <2>4. chan'[n] = e
    BY <1>1
  <2>. HIDE DEF c, e
  <2>5. {e[i] : i \in 1..(Len(c) + 1)} = {c[i] : i \in 1..Len(c)} \cup {m}
    BY <2>1, <2>2 DEF e
  <2>. QED
    BY <2>1, <2>3, <2>4, <2>5 DEF e
<1>2. chan'[n] = c => Letters(n)' = Letters(n)
  BY DEF Letters
<1>3. chan'[n] = <<>> => Letters(n)' = {}
  BY DEF Letters
<1>4. c # <<>> => Head(c) \in Letters(n) /\ Head(c) \in Messages
  <2>1. c # <<>> => 1 \in 1..Len(c) /\ c[1] = Head(c) /\ c[1] \in Messages
    OBVIOUS
  <2>. QED
    BY <2>1 DEF Letters
<1>5. ASSUME c # <<>>, chan'[n] = Tail(c) PROVE Letters(n) = Letters(n)' \cup {Head(c)}
  <2>1. /\ \A i \in 1..Len(Tail(c)) : i + 1 \in 1..Len(c) /\ Tail(c)[i] = c[i + 1]
        /\ \A i \in 1..Len(c) : i = 1 \/ (i - 1 \in 1..Len(Tail(c)) /\ c[i] = Tail(c)[i - 1])
        /\ 1 \in 1..Len(c) /\ c[1] = Head(c)
    BY <1>0, <1>5
  <2>2. Letters(n)' = {chan'[n][i] : i \in 1..Len(chan'[n])} /\ Letters(n) = {c[i] : i \in 1..Len(c)}
    BY DEF Letters
  <2>. DEFINE d == Tail(c)
  <2>3. chan'[n] = d
    BY <1>5
  <2>. HIDE DEF c, d
  <2>4. {c[i] : i \in 1..Len(c)} = {d[i] : i \in 1..Len(d)} \cup {Head(c)}
    BY <2>1 DEF d
  <2>. QED
    BY <2>2, <2>3, <2>4
<1>. QED
  BY <1>1, <1>2, <1>3, <1>4, <1>5

(***************************************************************************)
(* The parts that a step leaves alone.                                     *)
(***************************************************************************)

\* The variables behind orders, removals and nodes.
mailVars == <<chan, store, subs, inSync, bridges>>

\* A step that touches none of them.
LEMMA MailSame == ASSUME UNCHANGED mailVars PROVE UNCHANGED <<orderState, nodeState>>
<1>1. \A n \in Nodes : Letters(n)' = Letters(n)
  BY DEF mailVars, Letters
<1>2. \A n \in Nodes : Creating(n)' = Creating(n) /\ Removing(n)' = Removing(n)
  BY <1>1 DEF mailVars, Creating, Removing
<1>3. Listed' = Listed
  BY DEF mailVars, Listed
<1>4. Orders' = Orders
  BY <1>2, <1>3 DEF Orders
<1>5. Removals' = Removals
  BY <1>2 DEF Removals
<1>. QED
  BY <1>4, <1>5 DEF mailVars, SyncedNodes, orderState, nodeState

\* Objects that keep spec, finalizer and mark.
LEMMA ObjectsSame ==
  ASSUME \A k \in Pns : /\ api'[k].spec = api[k].spec /\ api'[k].fin = api[k].fin
                        /\ api'[k].del = api[k].del
  PROVE  UNCHANGED objectState
BY DEF objectState, Declared, Finalized, Deleting

\* A step that touches neither objects nor switches nor bridges and sends nothing.
LEMMA Loses ==
  ASSUME api' = api, UNCHANGED ovnVars, bridges' = bridges,
         Orders' \subseteq Orders, Removals' \subseteq Removals, SyncedNodes' \subseteq SyncedNodes
  PROVE  LifecycleStep
<1>1. UNCHANGED objectState
  BY ObjectsSame
<1>2. Lifecycle!Lose
  BY <1>1 DEF Lifecycle!Lose, Lifecycle!objectVars, Lifecycle!ovnVars, objectState, ovnVars
<1>. QED
  BY <1>2 DEF LifecycleStep, Lifecycle!Next

\* A step that none of this sees.
LEMMA Unseen ==
  ASSUME UNCHANGED objectState, UNCHANGED ovnVars, UNCHANGED mailVars PROVE LifecycleStep
<1>1. UNCHANGED <<orderState, nodeState>>
  BY MailSame
<1>. QED
  BY <1>1 DEF LifecycleStep, Lifecycle!vars, Lifecycle!objectVars, Lifecycle!ovnVars,
              Lifecycle!orderVars, Lifecycle!nodeVars, objectState, orderState, nodeState, ovnVars

(***************************************************************************)
(* The object: its users and the writes of the worker.                     *)
(***************************************************************************)

\* One object changes: what is declared, and who holds a finalizer or is marked.
LEMMA ObjectStep ==
  ASSUME NEW k \in Pns, \A j \in Pns : j # k => api'[j] = api[j],
         api[k].fin \in BOOLEAN, api[k].del \in BOOLEAN,
         api'[k].fin \in BOOLEAN, api'[k].del \in BOOLEAN
  PROVE  /\ Declared' = [Declared EXCEPT ![k] = api'[k].spec] /\ Declared[k] = api[k].spec
         /\ Finalized' = IF api'[k].fin THEN Finalized \cup {k} ELSE Finalized \ {k}
         /\ Deleting' = IF api'[k].del THEN Deleting \cup {k} ELSE Deleting \ {k}
         /\ k \in Finalized <=> api[k].fin
         /\ k \in Deleting <=> api[k].del
<1>1. Declared' = [Declared EXCEPT ![k] = api'[k].spec] /\ Declared[k] = api[k].spec
  BY DEF Declared
<1>2. Finalized' = IF api'[k].fin THEN Finalized \cup {k} ELSE Finalized \ {k}
  BY DEF Finalized
<1>3. Deleting' = IF api'[k].del THEN Deleting \cup {k} ELSE Deleting \ {k}
  BY DEF Deleting
<1>. QED
  BY <1>1, <1>2, <1>3 DEF Finalized, Deleting

\* The rest of an abstract step of the object.
ObjectOnly == UNCHANGED ovnVars /\ UNCHANGED mailVars

\* Abstract steps of the object, from what they do to its parts.
LEMMA ObjectMoves ==
  ASSUME ObjectOnly, NEW k \in Pns,
         \/ \E s \in Specs : /\ Declared[k] = NoVal /\ Declared' = [Declared EXCEPT ![k] = s]
                             /\ UNCHANGED <<Finalized, Deleting>>
         \/ /\ Declared[k] # NoVal /\ k \notin Deleting /\ Finalized' = Finalized \cup {k}
            /\ UNCHANGED <<Declared, Deleting>>
         \/ /\ k \in Finalized /\ Deleting' = Deleting \cup {k}
            /\ UNCHANGED <<Declared, Finalized>>
         \/ /\ k \notin Finalized /\ Declared' = [Declared EXCEPT ![k] = NoVal]
            /\ UNCHANGED <<Finalized, Deleting>>
         \/ /\ k \in Finalized \cap Deleting /\ Declared' = [Declared EXCEPT ![k] = NoVal]
            /\ Finalized' = Finalized \ {k} /\ Deleting' = Deleting \ {k}
  PROVE  LifecycleStep
<1>1. UNCHANGED <<Lifecycle!ovnVars, Lifecycle!orderVars, Lifecycle!nodeVars>>
  BY MailSame DEF ObjectOnly, ovnVars, Lifecycle!ovnVars, Lifecycle!orderVars, Lifecycle!nodeVars,
                  orderState, nodeState
<1>2. \/ \E s \in Specs : Lifecycle!Declare(k, s)
      \/ Lifecycle!Claim(k) \/ Lifecycle!Condemn(k) \/ Lifecycle!Discard(k) \/ Lifecycle!Release(k)
  BY <1>1 DEF Lifecycle!Declare, Lifecycle!Claim, Lifecycle!Condemn, Lifecycle!Discard,
              Lifecycle!Release
<1>. QED
  BY <1>2 DEF LifecycleStep, Lifecycle!Next

\* What a version says to ProviderLifecycle.
LEMMA ObjectSays ==
  ASSUME NEW o \in Objects
  PROVE  /\ o.fin \in BOOLEAN /\ o.del \in BOOLEAN
         /\ ~o.live => o.spec = NoVal /\ o.fin = FALSE /\ o.del = FALSE
         /\ o.live => o.spec \in Specs /\ o.spec # NoVal
<1>1. CASE o \in Alive
  BY <1>1, Constants DEF Alive
<1>2. CASE o \in Gone
  BY <1>2 DEF Gone
<1>. QED
  BY <1>1, <1>2 DEF Objects

\* The stored object a becomes o: it is created; it gets its finalizer; it is marked for
\* deletion; it goes without a finalizer; it goes with the finalizer; or another field changes.
ObjectMove(a, o) ==
  \/ ~a.live /\ o.live /\ ~o.fin /\ ~o.del
  \/ a.live /\ ~a.del /\ ~o.del /\ o.fin /\ o.spec = a.spec
  \/ a.fin /\ o.fin /\ o.del /\ o.spec = a.spec
  \/ ~a.fin /\ ~a.del /\ ~o.live
  \/ a.fin /\ a.del /\ ~o.live
  \/ o.spec = a.spec /\ o.fin = a.fin /\ o.del = a.del

\* Each of them is a step of ProviderLifecycle, or none.
LEMMA ObjectRefines ==
  ASSUME NEW k \in Pns, NEW a \in Objects, NEW o \in Objects, api[k] = a, api'[k] = o,
         \A j \in Pns : j # k => api'[j] = api[j], ObjectOnly, ObjectMove(a, o)
  PROVE  LifecycleStep
<1>1. /\ a.fin \in BOOLEAN /\ a.del \in BOOLEAN /\ o.fin \in BOOLEAN /\ o.del \in BOOLEAN
      /\ ~a.live => a.spec = NoVal /\ a.fin = FALSE /\ a.del = FALSE
      /\ ~o.live => o.spec = NoVal /\ o.fin = FALSE /\ o.del = FALSE
      /\ a.live => a.spec \in Specs /\ a.spec # NoVal
      /\ o.live => o.spec \in Specs /\ o.spec # NoVal
  BY ObjectSays
<1>2. /\ Declared' = [Declared EXCEPT ![k] = o.spec] /\ Declared[k] = a.spec
      /\ Finalized' = IF o.fin THEN Finalized \cup {k} ELSE Finalized \ {k}
      /\ Deleting' = IF o.del THEN Deleting \cup {k} ELSE Deleting \ {k}
      /\ k \in Finalized <=> a.fin
      /\ k \in Deleting <=> a.del
  <2>1. /\ api[k].fin \in BOOLEAN /\ api[k].del \in BOOLEAN
        /\ api'[k].fin \in BOOLEAN /\ api'[k].del \in BOOLEAN
    BY <1>1
  <2>. QED
    BY <2>1, ObjectStep
<1>3. /\ ~a.fin /\ ~o.fin => Finalized' = Finalized
      /\ a.fin /\ o.fin => Finalized' = Finalized
      /\ ~a.del /\ ~o.del => Deleting' = Deleting
      /\ a.del /\ o.del => Deleting' = Deleting
  BY <1>2
<1>4. o.spec = a.spec => Declared' = Declared
  BY <1>2 DEF Declared
<1>5. CASE ~a.live /\ o.live /\ ~o.fin /\ ~o.del
  BY <1>1, <1>2, <1>3, <1>5, ObjectMoves
<1>6. CASE a.live /\ ~a.del /\ ~o.del /\ o.fin /\ o.spec = a.spec
  BY <1>1, <1>2, <1>3, <1>4, <1>6, ObjectMoves
<1>7. CASE a.fin /\ o.fin /\ o.del /\ o.spec = a.spec
  BY <1>1, <1>2, <1>3, <1>4, <1>7, ObjectMoves
<1>8. CASE ~a.fin /\ ~a.del /\ ~o.live
  BY <1>1, <1>2, <1>3, <1>8, ObjectMoves
<1>9. CASE a.fin /\ a.del /\ ~o.live
  BY <1>1, <1>2, <1>3, <1>9, ObjectMoves
<1>10. CASE o.spec = a.spec /\ o.fin = a.fin /\ o.del = a.del
  <2>1. UNCHANGED objectState
    BY <1>1, <1>3, <1>4, <1>10 DEF objectState
  <2>. QED
    BY <2>1, Unseen DEF ObjectOnly
<1>. QED
  BY <1>5, <1>6, <1>7, <1>8, <1>9, <1>10 DEF ObjectMove

\* The versions that users store.
LEMMA UserVersions ==
  ASSUME NEW a \in Objects
  PROVE  /\ \A s \in PnSpecs :
              LET o == [live |-> TRUE, rv |-> a.rv + 1, inc |-> a.inc + 1,
                        del |-> FALSE, fin |-> FALSE, spec |-> s, state |-> ""]
              IN  o \in Objects /\ o.live /\ ~o.fin /\ ~o.del
         /\ a.live =>
              LET o == [a EXCEPT !.rv = @ + 1, !.del = TRUE]
              IN  o \in Objects /\ o.del /\ o.fin = a.fin /\ o.spec = a.spec
         /\ LET o == Tombstone(a.rv + 1, a.inc) IN o \in Objects /\ ~o.live
<1>1. a.rv + 1 \in Nat /\ a.inc \in Nat /\ a.inc + 1 \in Nat
  BY ObjectFields
<1>2. ASSUME NEW r \in Nat, NEW i \in Nat, NEW s \in PnSpecs
      PROVE  LET o == [live |-> TRUE, rv |-> r, inc |-> i, del |-> FALSE, fin |-> FALSE,
                       spec |-> s, state |-> ""]
             IN  o \in Alive /\ o.live /\ ~o.fin /\ ~o.del
  BY DEF Alive, States
<1>3. ASSUME NEW r \in Nat, a.live
      PROVE  LET o == [a EXCEPT !.rv = r, !.del = TRUE]
             IN  o \in Alive /\ o.del /\ o.fin = a.fin /\ o.spec = a.spec
  <2>1. a \in Alive
    BY <1>3, ObjectFields
  <2>. QED
    BY <2>1 DEF Alive
<1>. QED
  BY <1>1, <1>2, <1>3, TombstoneType DEF Objects

\* A user declares a network, marks it for deletion, or discards it.
LEMMA UserRefines ==
  ASSUME IInv, NEW k \in Pns, UserCreate(k) \/ UserDelete(k) PROVE LifecycleStep
<1>. DEFINE a == api[k]
<1>1. KubeType /\ a \in Objects
  BY TypeParts DEF IInv, KubeType
<1>2. ObjectOnly
  BY DEF ObjectOnly, mailVars, UserCreate, UserDelete, UserStep, serverVars, agentVars, nodeVars
<1>3. ASSUME NEW o \in Objects, Store(k, o), ObjectMove(a, o) PROVE LifecycleStep
  <2>1. api'[k] = o /\ \A j \in Pns : j # k => api'[j] = api[j]
    BY <1>1, <1>3 DEF Store, KubeType
  <2>. QED
    BY <1>1, <1>2, <1>3, <2>1, ObjectRefines
<1>4. CASE UserCreate(k)
  <2>1. PICK s \in PnSpecs :
          Store(k, [live |-> TRUE, rv |-> a.rv + 1, inc |-> a.inc + 1,
                    del |-> FALSE, fin |-> FALSE, spec |-> s, state |-> ""])
    BY <1>4 DEF UserCreate, UserStep
  <2>. DEFINE o == [live |-> TRUE, rv |-> a.rv + 1, inc |-> a.inc + 1,
                    del |-> FALSE, fin |-> FALSE, spec |-> s, state |-> ""]
  <2>2. o \in Objects /\ o.live /\ ~o.fin /\ ~o.del
    BY <1>1, UserVersions
  <2>3. ~a.live /\ Store(k, o)
    BY <1>4, <2>1 DEF UserCreate
  <2>. HIDE DEF o
  <2>. QED
    BY <1>3, <2>2, <2>3 DEF ObjectMove
<1>5. CASE UserDelete(k)
  <2>1. a.live /\ ~a.del
    BY <1>5 DEF UserDelete
  <2>2. CASE a.fin
    <3>. DEFINE o == [a EXCEPT !.rv = @ + 1, !.del = TRUE]
    <3>1. Store(k, o)
      BY <1>5, <2>2 DEF UserDelete, UserStep
    <3>2. o \in Objects /\ o.del /\ o.fin = a.fin /\ o.spec = a.spec
      BY <1>1, <2>1, UserVersions
    <3>. HIDE DEF o
    <3>. QED
      BY <1>3, <2>2, <3>1, <3>2 DEF ObjectMove
  <2>3. CASE ~a.fin
    <3>. DEFINE o == Tombstone(a.rv + 1, a.inc)
    <3>1. Store(k, o)
      BY <1>5, <2>3 DEF UserDelete, UserStep
    <3>2. o \in Objects /\ ~o.live
      BY <1>1, UserVersions
    <3>. HIDE DEF o
    <3>. QED
      BY <1>3, <2>1, <2>3, <3>1, <3>2 DEF ObjectMove
  <2>. QED
    BY <2>2, <2>3
<1>. QED
  BY <1>4, <1>5

\* The worker writes its copy: the object gets its finalizer, goes, or keeps all that counts.
LEMMA WriteRefines ==
  ASSUME IInv, pc # "idle", NEW o \in Alive, Writable(o), ApiCall(o, TRUE, TRUE),
         cache' = cache, ObjectOnly
  PROVE  LifecycleStep
<1>1. KubeType /\ req \in Pns
  BY TypeParts DEF IInv, WorkerType
<1>2. CASE UNCHANGED <<api, pending>>
  BY <1>2, ObjectsSame, Unseen DEF ObjectOnly
<1>3. CASE api[req].live /\ api[req].rv = o.rv /\ Store(req, Accepted(o))
  <2>. DEFINE a == Accepted(o)
              b == api[req]
  <2>1. /\ api'[req] = a /\ a \in Objects
        /\ o.fin => a.fin /\ a.spec = b.spec /\ a.del = b.del
        /\ ~o.fin => ~a.live
        /\ \A j \in Pns : j # req => api'[j] = api[j]
    BY <1>3, WriteStores
  <2>2. /\ b \in Objects /\ b.live /\ cr.rv = b.rv /\ cr.fin = b.fin /\ cr.del = b.del
    BY <1>1, <1>3 DEF KubeType, IInv, CopyInv, Writable
  <2>3. /\ pc = "addFinalizer" => ~b.del
        /\ pc = "removeFinalizer" => b.del /\ b.fin
    BY <2>2 DEF IInv, CopyInv, DeletePcs
  <2>4. a.fin \in BOOLEAN /\ b.fin \in BOOLEAN /\ o.fin \in BOOLEAN
    BY <2>1, <2>2, ObjectSays DEF Objects
  <2>. HIDE DEF a, b
  <2>5. ObjectMove(b, a)
    BY <2>1, <2>2, <2>3, <2>4 DEF ObjectMove, Writable
  <2>. QED
    BY <1>1, <2>1, <2>2, <2>5, ObjectRefines DEF b
<1>. QED
  BY <1>2, <1>3, ApiCallCases

\* The four calls of the API server.
LEMMA ApiRefines ==
  ASSUME IInv, AddFinalizer \/ UpdateStatus \/ UpdateDeleteStatus \/ RemoveFinalizer
  PROVE  LifecycleStep
<1>1. WorkerType
  BY TypeParts DEF IInv
<1>2. /\ cache' = cache /\ UNCHANGED <<ovnVars, serverVars, agentVars, chan>>
      /\ pc \in {"addFinalizer", "statusCreated", "statusError", "statusDelete", "removeFinalizer"}
  BY DEF AddFinalizer, UpdateStatus, UpdateDeleteStatus, RemoveFinalizer
<1>3. ObjectOnly
  BY <1>2 DEF ObjectOnly, mailVars, serverVars, agentVars, nodeVars
<1>4. cr \in Alive
  BY <1>1, <1>2 DEF WorkerType
<1>5. \A f \in BOOLEAN : [cr EXCEPT !.fin = f] \in Alive
  BY <1>4 DEF Alive
<1>6. pc \in {"statusCreated", "statusError", "statusDelete"} => cr.fin
  BY DEF IInv, CopyInv, CreatePcs, DeletePcs
<1>. DEFINE Status(s) == [cr EXCEPT !.state = s]
<1>7. ASSUME NEW s \in States, cr.fin, s = "Created" => pc = "statusCreated"
       PROVE  Status(s) \in Alive /\ Writable(Status(s))
  <2>1. /\ Status(s) \in Alive /\ Status(s).state = s
        /\ Status(s).rv = cr.rv /\ Status(s).inc = cr.inc /\ Status(s).spec = cr.spec
        /\ Status(s).del = cr.del /\ Status(s).fin = cr.fin
    BY <1>4 DEF Alive
  <2>. HIDE DEF Status
  <2>. QED
    BY <1>7, <2>1 DEF Writable
<1>8. CASE AddFinalizer
  <2>. DEFINE o == [cr EXCEPT !.fin = TRUE]
  <2>1. pc = "addFinalizer" /\ ApiCall(o, TRUE, TRUE)
    BY <1>8 DEF AddFinalizer, ApiCall
  <2>2. o \in Alive /\ Writable(o)
    BY <1>4, <1>5, <2>1 DEF Writable, Alive
  <2>. HIDE DEF o
  <2>. QED
    BY <1>2, <1>3, <2>1, <2>2, WriteRefines
<1>9. CASE UpdateStatus
  <2>. DEFINE s == IF pc = "statusCreated" THEN "Created" ELSE "CreateInternalError"
              o == Status(s)
  <2>1. pc \in {"statusCreated", "statusError"} /\ ApiCall(o, TRUE, TRUE)
    BY <1>9 DEF UpdateStatus, ApiCall
  <2>2. s \in States /\ (s = "Created" => pc = "statusCreated") /\ cr.fin
    BY <1>6, <2>1 DEF States
  <2>. HIDE DEF s, Status
  <2>3. o \in Alive /\ Writable(o)
    BY <1>7, <2>2
  <2>. HIDE DEF o
  <2>. QED
    BY <1>2, <1>3, <2>1, <2>3, WriteRefines
<1>10. CASE UpdateDeleteStatus
  <2>. DEFINE s == "DeleteInternalError"
              o == Status(s)
  <2>1. pc = "statusDelete" /\ ApiCall(o, TRUE, TRUE)
    BY <1>10 DEF UpdateDeleteStatus, ApiCall
  <2>2. s \in States /\ s # "Created" /\ cr.fin
    BY <1>6, <2>1 DEF States
  <2>. HIDE DEF s, Status
  <2>3. o \in Alive /\ Writable(o)
    BY <1>7, <2>2
  <2>. HIDE DEF o
  <2>. QED
    BY <1>2, <1>3, <2>1, <2>3, WriteRefines
<1>11. CASE RemoveFinalizer
  <2>. DEFINE o == [cr EXCEPT !.fin = FALSE]
  <2>1. pc = "removeFinalizer" /\ ApiCall(o, TRUE, TRUE)
    BY <1>11 DEF RemoveFinalizer, ApiCall
  <2>2. o \in Alive /\ Writable(o)
    BY <1>4, <1>5, <2>1 DEF Writable, Alive
  <2>. HIDE DEF o
  <2>. QED
    BY <1>2, <1>3, <2>1, <2>2, WriteRefines
<1>. QED
  BY <1>8, <1>9, <1>10, <1>11

\* Steps of the watch, of Reconcile and of gRPC's transport that ProviderLifecycle does not see.
LEMMA QuietRefines ==
  ASSUME \/ \E k \in Pns : Deliver(k) \/ Resync(k) \/ Reconcile(k)
         \/ \E n \in Nodes : NoticeBroken(n)
  PROVE  LifecycleStep
<1>1. api' = api /\ UNCHANGED <<ovnVars, subs, agentVars, chan>>
  BY DEF Deliver, Resync, Reconcile, NoticeBroken, kubeVars, serverVars
<1>2. UNCHANGED mailVars
  BY <1>1 DEF mailVars, agentVars, nodeVars
<1>. QED
  BY <1>1, <1>2, ObjectsSame, Unseen

(***************************************************************************)
(* The switch.                                                             *)
(***************************************************************************)

\* The OVN commands touch neither objects nor messages.
OvnOnly == UNCHANGED objectState /\ UNCHANGED mailVars

\* A switch is built under a finalizer, and goes when no finalizer stands unmarked.
LEMMA OvnRefines ==
  ASSUME IInv, OvnCreate \/ OvnDelete PROVE LifecycleStep
<1>1. KubeType /\ WorkerType
  BY TypeParts DEF IInv
<1>2. /\ pc \in {"ovnCreate", "ovnDelete"} /\ api' = api
      /\ UNCHANGED <<serverVars, agentVars, chan>>
  BY DEF OvnCreate, OvnDelete, kubeVars
<1>3. req \in Pns /\ api[req] \in Objects
  BY <1>1, <1>2 DEF WorkerType, KubeType
<1>4. OvnOnly
  BY <1>2, ObjectsSame DEF OvnOnly, mailVars, serverVars, agentVars, nodeVars
<1>5. UNCHANGED <<Lifecycle!objectVars, Lifecycle!orderVars, Lifecycle!nodeVars>>
  BY <1>4, MailSame DEF OvnOnly, objectState, orderState, nodeState, Lifecycle!objectVars,
                        Lifecycle!orderVars, Lifecycle!nodeVars
<1>6. CASE UNCHANGED ovnVars
  BY <1>4, <1>6, Unseen DEF OvnOnly
<1>7. CASE OvnCreate /\ ~UNCHANGED ovnVars
  <2>1. req \in Finalized
    BY <1>3, <1>7 DEF OvnCreate, IInv, CopyInv, CreatePcs, Finalized
  <2>2. req \notin ls /\ ls' = ls \cup {req} /\ localnet' \in {localnet, localnet \cup {req}}
    BY <1>7 DEF OvnCreate, ovnVars
  <2>3. Lifecycle!Build(req)
    BY <1>5, <2>1, <2>2 DEF Lifecycle!Build
  <2>. QED
    BY <1>3, <2>3 DEF LifecycleStep, Lifecycle!Next
<1>8. CASE OvnDelete /\ ~UNCHANGED ovnVars
  <2>1. api[req] \in Versions(req) /\ ~Holds(api[req])
    BY <1>8 DEF OvnDelete, IInv, CopyInv, DeletePcs, Versions
  <2>2. req \in Finalized => req \in Deleting
    BY <1>3, <2>1, ObjectFields DEF Holds, Finalized, Deleting
  <2>3. ls' = ls \ {req} /\ localnet' = localnet \ {req}
    BY <1>8 DEF OvnDelete
  <2>4. Lifecycle!Demolish(req)
    BY <1>5, <2>2, <2>3 DEF Lifecycle!Demolish
  <2>. QED
    BY <1>3, <2>4 DEF LifecycleStep, Lifecycle!Next
<1>. QED
  BY <1>6, <1>7, <1>8

(***************************************************************************)
(* Messages that are sent.                                                 *)
(***************************************************************************)

\* The nodes keep their messages of a kind.
LEMMA OrdersSame ==
  ASSUME \A n \in Nodes : Creating(n)' = Creating(n), Listed' = Listed PROVE Orders' = Orders
BY DEF Orders

\* The same of removals.
LEMMA RemovalsSame ==
  ASSUME \A n \in Nodes : Removing(n)' = Removing(n) PROVE Removals' = Removals
BY DEF Removals

\* A message is sent to the nodes of S, and joins the orders or the removals.
LEMMA PushMail ==
  ASSUME ChanType, NEW S \in SUBSET Nodes, NEW m \in Messages, Push(S, m), store' = store,
         NEW n \in Nodes
  PROVE  /\ m.type # "create" => Creating(n)' = Creating(n)
         /\ m.type # "remove" => Removing(n)' = Removing(n)
         /\ Creating(n)' \subseteq Creating(n) \cup {m}
         /\ Removing(n)' \subseteq Removing(n) \cup {m}
         /\ Removing(n) \subseteq Removing(n)'
<1>1. chan[n] \in Seq(Messages) /\ chan'[n] = IF n \in S THEN Append(chan[n], m) ELSE chan[n]
  BY PushType DEF ChanType
<1>2. Letters(n)' = IF n \in S THEN Letters(n) \cup {m} ELSE Letters(n)
  BY <1>1, LettersOf
<1>3. /\ Creating(n) = {l \in store[n] \cup Letters(n) : l.type = "create"}
      /\ Creating(n)' = {l \in store[n] \cup Letters(n)' : l.type = "create"}
  BY DEF Creating
<1>4. /\ Removing(n) = {l \in Letters(n) : l.type = "remove"}
      /\ Removing(n)' = {l \in Letters(n)' : l.type = "remove"}
  BY DEF Removing
<1>. QED
  BY <1>2, <1>3, <1>4

\* The controller sends: create messages of what is stored, removals of what is marked or gone.
LEMMA NotifyRefines ==
  ASSUME IInv, NotifyCreate \/ NotifyDelete PROVE LifecycleStep
<1>1. KubeType /\ WorkerType /\ ChanType
  BY TypeParts DEF IInv
<1>2. PICK S \in SUBSET Nodes, type \in {"create", "remove"}, r \in Outcomes :
        Notified(S, type, r)
  BY Notifies
<1>. DEFINE m == Msg(req, cr, type)
<1>3. /\ pc = IF type = "create" THEN "notifyCreate" ELSE "notifyDelete"
      /\ Push(S, m) /\ api' = api /\ UNCHANGED ovnVars
      /\ UNCHANGED <<subs, store, inSync, bridges>>
  BY <1>2 DEF Notified, SentTo, kubeVars, serverVars, agentVars, nodeVars
<1>4. req \in Pns /\ cr \in Alive /\ api[req] \in Objects
  BY <1>1, <1>3 DEF WorkerType, KubeType
<1>5. m \in Messages /\ m.type = type /\ m.pn = req /\ m.spec = cr.spec
  BY <1>4, MsgType
<1>. HIDE DEF m
<1>6. ASSUME NEW n \in Nodes
      PROVE  /\ m.type # "create" => Creating(n)' = Creating(n)
             /\ m.type # "remove" => Removing(n)' = Removing(n)
             /\ Creating(n)' \subseteq Creating(n) \cup {m}
             /\ Removing(n)' \subseteq Removing(n) \cup {m}
             /\ Removing(n) \subseteq Removing(n)'
      BY <1>1, <1>3, <1>5, PushMail
<1>7. Listed' = Listed /\ SyncedNodes' = SyncedNodes
  BY <1>3 DEF Listed, SyncedNodes
<1>8. UNCHANGED <<Lifecycle!objectVars, Lifecycle!ovnVars, Lifecycle!nodeVars>>
  BY <1>3, <1>7, ObjectsSame DEF objectState, ovnVars, Lifecycle!objectVars, Lifecycle!ovnVars,
                                 Lifecycle!nodeVars
<1>9. CASE type = "create"
  <2>1. api[req].fin /\ cr.spec = api[req].spec /\ cr.spec # NoVal
    <3>1. api[req].fin /\ cr.spec = api[req].spec
      BY <1>3, <1>9 DEF IInv, CopyInv, CreatePcs
    <3>. QED
      BY <1>4, <3>1, ObjectSays DEF Objects, Alive
  <2>2. <<req, cr.spec>> \in Lifecycle!Offers
    BY <1>4, <2>1 DEF Lifecycle!Offers, Declared
  <2>3. Orders' \subseteq Orders \cup Lifecycle!Offers
    <3>1. \A n \in Nodes : \A l \in Creating(n)' : <<l.pn, l.spec>> \in Orders \cup Lifecycle!Offers
      BY <1>5, <1>6, <2>2, OrderOf
    <3>2. \A x \in Listed' : <<x[1], x[2].spec>> \in Orders \cup Lifecycle!Offers
      BY <1>7, OrderOf
    <3>. QED
      BY <3>1, <3>2, OrdersWithin
  <2>4. Removals' = Removals
    BY <1>5, <1>6, <1>9, RemovalsSame
  <2>5. Lifecycle!Order
    BY <1>8, <2>3, <2>4 DEF Lifecycle!Order
  <2>. QED
    BY <2>5 DEF LifecycleStep, Lifecycle!Next
<1>10. CASE type = "remove"
  <2>1. api[req] \in Versions(req) /\ ~Holds(api[req])
    BY <1>3, <1>10 DEF IInv, CopyInv, DeletePcs, Versions
  <2>2. req \in Finalized => req \in Deleting
    BY <1>4, <2>1, ObjectFields DEF Holds, Finalized, Deleting
  <2>3. Orders' = Orders
    BY <1>5, <1>6, <1>7, <1>10, OrdersSame
  <2>4. Removals \subseteq Removals'
    <3>1. Removals' = {l.pn : l \in UNION {Removing(n)' : n \in Nodes}}
      BY DEF Removals
    <3>2. Removals = {l.pn : l \in UNION {Removing(n) : n \in Nodes}}
      BY DEF Removals
    <3>. QED
      BY <1>6, <3>1, <3>2
  <2>5. Removals' \subseteq Removals \cup {req}
    <3>1. \A n \in Nodes : \A l \in Removing(n)' : l.pn \in Removals \cup {req}
      BY <1>5, <1>6, OrderOf
    <3>. QED
      BY <3>1, RemovalsWithin
  <2>6. CASE req \in Removals'
    <3>1. Removals' = Removals \cup {req}
      BY <2>4, <2>5, <2>6
    <3>2. Lifecycle!Withdraw(req)
      BY <1>8, <2>2, <2>3, <3>1 DEF Lifecycle!Withdraw
    <3>. QED
      BY <1>4, <3>2 DEF LifecycleStep, Lifecycle!Next
  <2>7. CASE req \notin Removals'
    <3>1. Removals' = Removals
      BY <2>4, <2>5, <2>7
    <3>. QED
      BY <1>3, <1>7, <2>3, <3>1, Loses
  <2>. QED
    BY <2>6, <2>7
<1>. QED
  BY <1>9, <1>10

(***************************************************************************)
(* Subscribe.                                                              *)
(***************************************************************************)

\* What a Subscribe call has listed is on its way.
LEMMA ListedOf == \A s \in subs : \A x \in s.list : x \in Listed
BY DEF Listed

\* A Subscribe call moves on, and its list becomes l.
LEMMA ListedMoves ==
  ASSUME NEW s \in subs, NEW t, Replace(s, t), NEW x \in Listed' PROVE x \in Listed \/ x \in t.list
<1>1. PICK u \in subs' : x \in u.list
  BY DEF Listed
<1>2. u = t \/ u \in subs
  BY DEF Replace
<1>. QED
  BY <1>1, <1>2, ListedOf

\* Streams and stores stay as they are.
LEMMA MailStays ==
  ASSUME chan' = chan, store' = store, NEW n \in Nodes
  PROVE  Shrinks(n) /\ Creating(n)' = Creating(n) /\ Removing(n)' = Removing(n)
<1>1. Letters(n)' = Letters(n)
  BY DEF Letters
<1>. QED
  BY <1>1 DEF Shrinks, Creating, Removing

\* Agents of D die: nothing is left of what was on its way to them.
LEMMA DieShrinks ==
  ASSUME AgentType, ChanType, NEW D \in SUBSET Nodes, Die(D)
  PROVE  (\A n \in Nodes : Shrinks(n)) /\ SyncedNodes' \subseteq SyncedNodes
<1>1. ASSUME NEW n \in Nodes PROVE Shrinks(n)
  <2>1. chan[n] \in Seq(Messages) /\ (chan'[n] = <<>> \/ chan'[n] = chan[n])
    BY DEF ChanType, Die
  <2>2. Letters(n)' \subseteq Letters(n)
    BY <2>1, LettersOf
  <2>3. store'[n] \subseteq store[n]
    BY DEF Die
  <2>. QED
    BY <2>2, <2>3 DEF Shrinks
<1>2. SyncedNodes' \subseteq SyncedNodes
  BY DEF SyncedNodes, Die, AgentType
<1>. QED
  BY <1>1, <1>2

\* An agent starts, dies, or dies with its operator.
LEMMA AgentRefines ==
  ASSUME IInv, Crash \/ \E n \in Nodes : AgentSubscribe(n) \/ AgentDie(n) PROVE LifecycleStep
<1>1. AgentType /\ ChanType
  BY TypeParts DEF IInv
<1>2. api' = api /\ UNCHANGED ovnVars /\ bridges' = bridges
  BY DEF Crash, AgentSubscribe, AgentDie, kubeVars, nodeVars
<1>3. ASSUME NEW x \in Listed' PROVE <<x[1], x[2].spec>> \in Orders
  <2>1. PICK u \in subs' : x \in u.list
    BY DEF Listed
  <2>2. u \in subs \/ u.list = {}
    <3>1. CASE Crash \/ \E n \in Nodes : AgentDie(n)
      BY <3>1 DEF Crash, AgentDie, serverVars
    <3>2. ASSUME NEW n \in Nodes, AgentSubscribe(n) PROVE u \in subs \/ u.list = {}
      <4>1. u \in subs
            \/ u = [node |-> n, stream |-> stream[n] + 1, step |-> "register", list |-> {}]
        BY <3>2 DEF AgentSubscribe
      <4>. QED
        BY <4>1
    <3>. QED
      BY <3>1, <3>2
  <2>. QED
    BY <2>1, <2>2, ListedOf, OrderOf
<1>4. (\A n \in Nodes : Shrinks(n)) /\ SyncedNodes' \subseteq SyncedNodes
  <2>1. CASE \E n \in Nodes : AgentSubscribe(n)
    BY <2>1, MailStays DEF AgentSubscribe, SyncedNodes
  <2>2. CASE Crash \/ \E n \in Nodes : AgentDie(n)
    <3>1. PICK D \in SUBSET Nodes : Die(D)
      BY <2>2 DEF Crash, AgentDie
    <3>. QED
      BY <1>1, <3>1, DieShrinks
  <2>. QED
    BY <2>1, <2>2
<1>. QED
  BY <1>2, <1>3, <1>4, NothingNew, Loses

\* Subscribe registers its stream, or fails and ends its agent.
LEMMA RegisterRefines ==
  ASSUME IInv, NEW s \in subs, SubscribeRegister(s) PROVE LifecycleStep
<1>1. ServerType /\ AgentType /\ ChanType
  BY TypeParts DEF IInv
<1>2. api' = api /\ UNCHANGED ovnVars /\ bridges' = bridges
  BY DEF SubscribeRegister, kubeVars, nodeVars
<1>3. s \in Calls /\ s.node \in Nodes
  BY <1>1 DEF ServerType, Calls
<1>4. CASE Replace(s, [s EXCEPT !.step = "list"]) /\ UNCHANGED <<inSync, store, chan>>
  <2>. DEFINE t == [s EXCEPT !.step = "list"]
  <2>1. t.list = s.list
    BY <1>3, CallType
  <2>. HIDE DEF t
  <2>2. Replace(s, t)
    BY <1>4 DEF t
  <2>3. \A x \in Listed' : <<x[1], x[2].spec>> \in Orders
    BY <2>1, <2>2, ListedMoves, ListedOf, OrderOf
  <2>4. (\A n \in Nodes : Shrinks(n)) /\ SyncedNodes' \subseteq SyncedNodes
    BY <1>4, MailStays DEF SyncedNodes
  <2>. QED
    BY <1>2, <2>3, <2>4, NothingNew, Loses
<1>5. CASE subs' = subs \ {s} /\ Die({n \in {s.node} : stream[n] = s.stream})
  <2>1. PICK D \in SUBSET Nodes : Die(D)
    BY <1>3, <1>5
  <2>2. \A x \in Listed' : <<x[1], x[2].spec>> \in Orders
    BY <1>5, OrderOf DEF Listed
  <2>. QED
    BY <1>1, <1>2, <2>1, <2>2, DieShrinks, NothingNew, Loses
<1>. QED
  BY <1>4, <1>5 DEF SubscribeRegister

\* Subscribe lists what is declared.
LEMMA ListRefines ==
  ASSUME IInv, NEW s \in subs, SubscribeList(s) PROVE LifecycleStep
<1>1. KubeType /\ ServerType
  BY TypeParts DEF IInv
<1>2. api' = api /\ UNCHANGED ovnVars /\ UNCHANGED <<bridges, inSync, store, chan>>
  BY DEF SubscribeList, kubeVars, agentVars, nodeVars
<1>3. s \in Calls
  BY <1>1 DEF ServerType
<1>. DEFINE L == {<<k, api[k]>> : k \in {j \in Pns : api[j].live}}
            T == Orders \cup Lifecycle!Offers
<1>4. ASSUME NEW x \in L PROVE <<x[1], x[2].spec>> \in Lifecycle!Offers
  <2>1. PICK k \in Pns : x = <<k, api[k]>> /\ api[k].live
    OBVIOUS
  <2>2. api[k].spec # NoVal
    BY <1>1, <2>1, ObjectSays DEF KubeType
  <2>. QED
    BY <2>1, <2>2 DEF Lifecycle!Offers, Declared
<1>. HIDE DEF L
<1>5. PICK t : Replace(s, t) /\ (t.list = L \/ t.list = s.list)
  <2>. DEFINE a == [s EXCEPT !.step = "send", !.list = L]
              b == [s EXCEPT !.step = "send"]
  <2>1. a.list = L /\ b.list = s.list
    BY <1>3 DEF Calls
  <2>2. Replace(s, a) \/ Replace(s, b)
    BY DEF SubscribeList, L
  <2>. HIDE DEF a, b
  <2>. QED
    BY <2>1, <2>2
<1>6. \A x \in Listed' : <<x[1], x[2].spec>> \in T
  BY <1>4, <1>5, ListedMoves, ListedOf, OrderOf
<1>7. \A n \in Nodes : Creating(n)' = Creating(n) /\ Removing(n)' = Removing(n)
  BY <1>2, MailStays
<1>8. \A n \in Nodes : \A m \in Creating(n)' : <<m.pn, m.spec>> \in T
  BY <1>7, OrderOf
<1>. HIDE DEF T
<1>9. Orders' \subseteq T /\ Removals' = Removals
  BY <1>6, <1>7, <1>8, OrdersWithin, RemovalsSame
<1>10. UNCHANGED <<Lifecycle!objectVars, Lifecycle!ovnVars, Lifecycle!nodeVars>>
  BY <1>2, ObjectsSame DEF objectState, ovnVars, SyncedNodes, Lifecycle!objectVars,
                           Lifecycle!ovnVars, Lifecycle!nodeVars
<1>11. Lifecycle!Order
  BY <1>9, <1>10 DEF Lifecycle!Order, T
<1>. QED
  BY <1>11 DEF LifecycleStep, Lifecycle!Next

\* Subscribe sends what it listed, and InSync: neither is a new order.
LEMMA SendRefines ==
  ASSUME IInv, NEW s \in subs, SubscribeSend(s) \/ SubscribeInSync(s) PROVE LifecycleStep
<1>1. ServerType /\ ChanType
  BY TypeParts DEF IInv
<1>2. api' = api /\ UNCHANGED ovnVars /\ UNCHANGED <<bridges, inSync, store>>
  BY DEF SubscribeSend, SubscribeInSync, kubeVars, agentVars, nodeVars
<1>3. s \in Calls /\ s.node \in Nodes /\ s.list \subseteq Pns \X Alive
  BY <1>1 DEF ServerType, Calls
<1>4. ASSUME NEW S \in SUBSET Nodes, NEW m \in Messages, Push(S, m), m.type # "remove",
             m.type = "create" => <<m.pn, m.spec>> \in Orders,
             \A x \in Listed' : x \in Listed
      PROVE  LifecycleStep
  <2>1. ASSUME NEW n \in Nodes
        PROVE  /\ m.type # "create" => Creating(n)' = Creating(n)
               /\ Creating(n)' \subseteq Creating(n) \cup {m}
               /\ Removing(n)' = Removing(n)
    BY <1>1, <1>2, <1>4, PushMail
  <2>2. \A n \in Nodes : \A l \in Creating(n)' : <<l.pn, l.spec>> \in Orders
    BY <1>4, <2>1, OrderOf
  <2>3. \A x \in Listed' : <<x[1], x[2].spec>> \in Orders
    BY <1>4, OrderOf
  <2>4. Orders' \subseteq Orders /\ Removals' = Removals
    BY <2>1, <2>2, <2>3, OrdersWithin, RemovalsSame
  <2>. QED
    BY <1>2, <2>4, Loses DEF SyncedNodes
<1>5. CASE SubscribeSend(s)
  <2>1. PICK x \in s.list, S \in SUBSET Nodes, r \in Outcomes :
          SentTo(S, x[2], Msg(x[1], x[2], "create"), s.node, r) /\ Replace(s, Sent(s, x, r))
    BY <1>5, SubscribeSends
  <2>. DEFINE m == Msg(x[1], x[2], "create")
              t == Sent(s, x, r)
  <2>2. m \in Messages /\ m.type = "create" /\ m.pn = x[1] /\ m.spec = x[2].spec
    BY <1>3, MsgType
  <2>3. t.list \subseteq s.list
    BY <1>3 DEF Sent, Calls
  <2>. HIDE DEF m, t
  <2>4. Push(S, m) /\ Replace(s, t)
    BY <2>1 DEF SentTo, m, t
  <2>5. \A y \in Listed' : y \in Listed
    BY <2>3, <2>4, ListedMoves, ListedOf
  <2>6. <<m.pn, m.spec>> \in Orders
    BY <2>2, ListedOf, OrderOf
  <2>. QED
    BY <1>4, <2>2, <2>4, <2>5, <2>6
<1>6. CASE SubscribeInSync(s)
  <2>. DEFINE m == [type |-> "inSync"]
              S == {n \in {s.node} : up[n] /\ stream[n] = s.stream}
  <2>1. m \in Messages /\ m.type = "inSync"
    BY DEF Messages
  <2>2. S \in SUBSET Nodes /\ Push(S, m)
    BY <1>1, <1>3, <1>6 DEF SubscribeInSync, Push, ChanType
  <2>3. \A x \in Listed' : x \in Listed
    BY <1>6 DEF SubscribeInSync, Listed
  <2>. HIDE DEF m, S
  <2>. QED
    BY <1>4, <2>1, <2>2, <2>3
<1>. QED
  BY <1>5, <1>6

(***************************************************************************)
(* An agent takes a message.                                               *)
(***************************************************************************)

\* The node after the commands of a message: its bridge is set up, or taken down, or both stay.
LEMMA Commands ==
  ASSUME NEW x \in Nodes, NEW m
  PROVE  /\ HandleCreate(x, m) => bridges' = bridges \/ bridges' = [bridges EXCEPT ![x][m.pn] = m.spec]
         /\ HandleRemove(x, m) => bridges' = bridges \/ bridges' = [bridges EXCEPT ![x][m.pn] = NoVal]
         /\ HandleInSync(x) => \E S : bridges' = Only(bridges, x, S)
<1>1. HandleCreate(x, m) => bridges' = bridges \/ bridges' = CreatePnBridge(x, m)
  BY DEF HandleCreate, nodeVars
<1>2. HandleRemove(x, m) => bridges' = bridges \/ bridges' = DeletePnBridge(x, m)
  BY DEF HandleRemove, nodeVars
<1>3. HandleInSync(x) => \E S : bridges' = Only(bridges, x, S)
  BY Zenon DEF HandleInSync
<1>. QED
  BY <1>1, <1>2, <1>3 DEF CreatePnBridge, DeletePnBridge, Put

\* What handleNotif does to what ProviderLifecycle sees.
HandledMail(x, m) ==
  \/ /\ m.type = "create" /\ inSync' = inSync
     /\ \/ store' = [store EXCEPT ![x] = @ \cup {m}] /\ bridges' = bridges
        \/ /\ inSync[x] /\ store' = store
           /\ bridges' = bridges \/ bridges' = [bridges EXCEPT ![x][m.pn] = m.spec]
  \/ /\ m.type = "remove" /\ inSync' = inSync /\ store' = store
     /\ \/ bridges' = bridges
        \/ inSync[x] /\ bridges' = [bridges EXCEPT ![x][m.pn] = NoVal]
  \/ /\ m.type = "inSync" /\ inSync' = [inSync EXCEPT ![x] = TRUE]
     /\ store' = [store EXCEPT ![x] = {}]
     /\ \E S : bridges' = Only(bridges, x, S)

\* It does one of these.
LEMMA HandleCases ==
  ASSUME NEW x \in Nodes, HandleNotif(x) PROVE HandledMail(x, Head(chan[x]))
<1>. DEFINE m == Head(chan[x])
<1>1. \/ /\ m.type = "create" /\ ~inSync[x] /\ store' = [store EXCEPT ![x] = @ \cup {m}]
         /\ UNCHANGED <<inSync, nodeVars>>
      \/ m.type = "create" /\ inSync[x] /\ HandleCreate(x, m) /\ UNCHANGED <<inSync, store>>
      \/ m.type = "remove" /\ ~inSync[x] /\ UNCHANGED <<inSync, store, nodeVars>>
      \/ m.type = "remove" /\ inSync[x] /\ HandleRemove(x, m) /\ UNCHANGED <<inSync, store>>
      \/ /\ m.type = "inSync" /\ HandleInSync(x) /\ store' = [store EXCEPT ![x] = {}]
         /\ inSync' = [inSync EXCEPT ![x] = TRUE]
  BY Zenon DEF HandleNotif
<1>. HIDE DEF m
<1>2. HandledMail(x, m)
  BY <1>1, Commands DEF HandledMail, nodeVars
<1>. QED
  BY <1>2 DEF m

\* The mail of a node that took its first message.
LEMMA TakenMail ==
  ASSUME NEW x \in Nodes, NEW m \in Letters(x), Letters(x) = Letters(x)' \cup {m},
         store'[x] \subseteq store[x] \cup {m}
  PROVE  /\ Creating(x)' \subseteq Creating(x) /\ Removing(x)' \subseteq Removing(x)
         /\ m.type # "remove" => Removing(x)' = Removing(x)
         /\ m.type # "create" /\ store'[x] = store[x] => Creating(x)' = Creating(x)
<1>1. /\ Creating(x) = {l \in store[x] \cup Letters(x) : l.type = "create"}
      /\ Creating(x)' = {l \in store'[x] \cup Letters(x)' : l.type = "create"}
  BY DEF Creating
<1>2. /\ Removing(x) = {l \in Letters(x) : l.type = "remove"}
      /\ Removing(x)' = {l \in Letters(x)' : l.type = "remove"}
  BY DEF Removing
<1>. QED
  BY <1>1, <1>2

\* The agent comes in sync, sets a network up, takes it down, or drops the message.
LEMMA HandleRefines ==
  ASSUME IInv, NEW x \in Nodes, HandleNotif(x) PROVE LifecycleStep
<1>. DEFINE m == Head(chan[x])
<1>1. AgentType /\ ChanType /\ TablesType
  BY TypeParts DEF IInv
<1>2. /\ api' = api /\ UNCHANGED ovnVars /\ subs' = subs
      /\ chan[x] # <<>> /\ chan' = [chan EXCEPT ![x] = Tail(@)]
  BY DEF HandleNotif, kubeVars, serverVars
<1>3. chan[x] \in Seq(Messages) /\ chan'[x] = Tail(chan[x])
      /\ \A n \in Nodes : n # x => chan'[n] = chan[n]
  BY <1>1, <1>2 DEF ChanType
<1>4. m \in Letters(x) /\ m \in Messages /\ Letters(x) = Letters(x)' \cup {m}
  BY <1>2, <1>3, LettersOf
<1>5. HandledMail(x, m)
  BY HandleCases
<1>6. m.type = "inSync" => ~inSync[x]
  <2>1. 1 \in 1..Len(chan[x]) /\ chan[x][1] = m
    BY <1>2, <1>3
  <2>. QED
    BY <2>1 DEF IInv, NodeInv, StreamInv, Synced
<1>. HIDE DEF m
<1>7. /\ store'[x] \subseteq store[x] \cup {m}
      /\ \A n \in Nodes : n # x => store'[n] = store[n]
      /\ m.type = "remove" => store'[x] = store[x]
  BY <1>1, <1>5 DEF HandledMail, AgentType
<1>8. /\ Creating(x)' \subseteq Creating(x) /\ Removing(x)' \subseteq Removing(x)
      /\ m.type # "remove" => Removing(x)' = Removing(x)
      /\ m.type = "remove" => Creating(x)' = Creating(x)
  BY <1>4, <1>7, TakenMail
<1>9. ASSUME NEW n \in Nodes, n # x
      PROVE  Creating(n)' = Creating(n) /\ Removing(n)' = Removing(n)
  <2>1. chan[n] \in Seq(Messages)
    BY <1>1 DEF ChanType
  <2>2. Letters(n)' = Letters(n)
    BY <1>3, <1>9, <2>1, LettersOf
  <2>. QED
    BY <1>7, <1>9, <2>2 DEF Creating, Removing
<1>10. Listed' = Listed
  BY <1>2 DEF Listed
<1>11. Orders' \subseteq Orders /\ Removals' \subseteq Removals
  <2>1. \A n \in Nodes : \A l \in Creating(n)' : <<l.pn, l.spec>> \in Orders
    BY <1>8, <1>9, OrderOf
  <2>2. \A n \in Nodes : \A l \in Removing(n)' : l.pn \in Removals
    BY <1>8, <1>9, OrderOf
  <2>. QED
    BY <1>10, <2>1, <2>2, OrderOf, OrdersWithin, RemovalsWithin
<1>12. /\ m.type # "remove" => Removals' = Removals
       /\ m.type = "remove" => Orders' = Orders
  BY <1>8, <1>9, <1>10, RemovalsSame, OrdersSame
<1>13. UNCHANGED <<Lifecycle!objectVars, Lifecycle!ovnVars>>
  BY <1>2, ObjectsSame DEF objectState, ovnVars, Lifecycle!objectVars, Lifecycle!ovnVars
<1>14. inSync' = inSync => SyncedNodes' = SyncedNodes
  BY DEF SyncedNodes
<1>15. CASE bridges' = bridges /\ inSync' = inSync
  BY <1>2, <1>11, <1>14, <1>15, Loses
<1>16. CASE /\ m.type = "create" /\ inSync' = inSync /\ inSync[x]
            /\ bridges' = [bridges EXCEPT ![x][m.pn] = m.spec]
  <2>1. x \in SyncedNodes /\ <<m.pn, m.spec>> \in Orders
    BY <1>4, <1>16, OrderOf DEF SyncedNodes, Creating
  <2>. DEFINE o == <<m.pn, m.spec>>
  <2>2. Lifecycle!SetUp(x, o[1], o[2])
    BY <1>11, <1>12, <1>13, <1>14, <1>16, <2>1 DEF Lifecycle!SetUp
  <2>. HIDE DEF o
  <2>3. o \in Orders
    BY <2>1 DEF o
  <2>. QED
    BY <2>2, <2>3 DEF LifecycleStep, Lifecycle!Next
<1>17. CASE /\ m.type = "remove" /\ inSync' = inSync /\ inSync[x]
            /\ bridges' = [bridges EXCEPT ![x][m.pn] = NoVal]
  <2>1. x \in SyncedNodes /\ m.pn \in Removals
    BY <1>4, <1>17, OrderOf DEF SyncedNodes, Removing
  <2>2. Lifecycle!TearDown(x, m.pn)
    BY <1>11, <1>12, <1>13, <1>14, <1>17, <2>1 DEF Lifecycle!TearDown
  <2>. QED
    BY <2>1, <2>2 DEF LifecycleStep, Lifecycle!Next
<1>18. CASE m.type = "inSync" /\ inSync' = [inSync EXCEPT ![x] = TRUE]
  <2>1. PICK S : bridges' = Only(bridges, x, S)
    BY <1>5, <1>18 DEF HandledMail
  <2>2. x \notin SyncedNodes /\ SyncedNodes' = SyncedNodes \cup {x}
    BY <1>1, <1>6, <1>18 DEF SyncedNodes, AgentType
  <2>. DEFINE K == S \cap Pns
  <2>3. bridges' = [bridges EXCEPT ![x] = [k \in Pns |-> IF k \in K THEN @[k] ELSE NoVal]]
    BY <2>1 DEF Only
  <2>. HIDE DEF K
  <2>4. K \in SUBSET Pns
    BY DEF K
  <2>5. Lifecycle!Sync(x)
    BY <1>11, <1>12, <1>13, <1>18, <2>2, <2>3, <2>4 DEF Lifecycle!Sync
  <2>. QED
    BY <2>5 DEF LifecycleStep, Lifecycle!Next
<1>. QED
  BY <1>5, <1>15, <1>16, <1>17, <1>18 DEF HandledMail

(***************************************************************************)
(* The refinement.                                                         *)
(***************************************************************************)

\* The initial states are initial states of ProviderLifecycle.
LEMMA InitRefines == Init => Lifecycle!Init
<1>. SUFFICES ASSUME Init PROVE Lifecycle!Init
  OBVIOUS
<1>1. \A k \in Pns : api[k].spec = NoVal /\ ~api[k].fin /\ ~api[k].del
  BY DEF Init, Tombstone
<1>2. Declared = [k \in Pns |-> NoVal] /\ Finalized = {} /\ Deleting = {}
  BY <1>1 DEF Declared, Finalized, Deleting
<1>3. \A n \in Nodes : Letters(n) = {}
  BY DEF Init, Letters
<1>4. \A n \in Nodes : Creating(n) = {} /\ Removing(n) = {}
  BY <1>3 DEF Init, Creating, Removing
<1>5. Listed = {}
  BY DEF Init, Listed
<1>6. Orders = {} /\ Removals = {}
  BY <1>4, <1>5 DEF Orders, Removals
<1>7. SyncedNodes = {} /\ ls = {} /\ localnet = {}
      /\ bridges = [n \in Nodes |-> [k \in Pns |-> NoVal]]
  BY DEF Init, SyncedNodes
<1>. QED
  BY <1>2, <1>6, <1>7 DEF Lifecycle!Init

\* Nothing happens.
LEMMA StutterRefines == ASSUME UNCHANGED vars PROVE LifecycleStep
<1>1. api' = api /\ UNCHANGED ovnVars /\ UNCHANGED mailVars
  BY DEF vars, kubeVars, serverVars, agentVars, nodeVars, mailVars
<1>. QED
  BY <1>1, ObjectsSame, Unseen

\* Every step from a state in the invariant is a step of ProviderLifecycle, or none.
LEMMA StepRefines == IInv /\ [Next]_vars => LifecycleStep
<1>. SUFFICES ASSUME IInv, [Next]_vars PROVE LifecycleStep
  OBVIOUS
<1>1. CASE UNCHANGED vars
  BY <1>1, StutterRefines
<1>2. ASSUME NEW k \in Pns,
             UserCreate(k) \/ UserDelete(k) \/ Deliver(k) \/ Resync(k) \/ Reconcile(k)
      PROVE  LifecycleStep
  BY <1>2, UserRefines, QuietRefines
<1>3. CASE WorkerStep
  BY <1>3, ApiRefines, OvnRefines, NotifyRefines DEF WorkerStep
<1>4. ASSUME NEW s \in subs, SubscribeStep(s) PROVE LifecycleStep
  BY <1>4, RegisterRefines, ListRefines, SendRefines DEF SubscribeStep
<1>5. ASSUME NEW n \in Nodes, AgentSubscribe(n) \/ HandleNotif(n) \/ AgentDie(n) \/ NoticeBroken(n)
      PROVE  LifecycleStep
  BY <1>5, AgentRefines, HandleRefines, QuietRefines
<1>6. CASE Crash
  BY <1>6, AgentRefines
<1>. QED
  BY <1>1, <1>2, <1>3, <1>4, <1>5, <1>6 DEF Next

\* Controller, notification server and agents implement ProviderLifecycle: OVN's switch of a
\* provider network is built only under its finalizer (CreateProviderNetwork after addFinalizer)
\* and demolished, and nodes are told to take it down, only when no finalizer stands unmarked;
\* a bridge comes up only from a create message whose spec was declared, at an agent in sync;
\* whatever is stale, late, lost or fails on the way.
THEOREM ImplementsProviderLifecycleHolds == Spec => ImplementsProviderLifecycle
BY Invariance, InitRefines, StepRefines, PTL
DEF Spec, ImplementsProviderLifecycle, Lifecycle!Spec, LifecycleStep
=============================================================================
