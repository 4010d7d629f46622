----------------------------- MODULE StoresProofs -----------------------------
(***************************************************************************)
(* The stores under the gateway, for all values of their constants: one    *)
(* payload per operationId where the stores can promise it, the file store *)
(* as an implementation of a durable map, what a server relies on when it  *)
(* starts and is probed, and what the rate limiters on Redis and in one    *)
(* process let through.                                                    *)
(***************************************************************************)
EXTENDS MCStores, FiniteSetTheorems, SequenceTheorems, TLAPS

Steps == {"idle", "bind", "read", "reread", "overwrite", "invoke", "lookup", "quote", "begun"}
Names == Payloads \cup {"none"}

TypeInv ==
    /\ now \in Nat
    /\ binding \in [payload: Names, expiresAt: Nat]
    /\ caller \in [Callers -> [at: Steps, payload: Names, expiresAt: Nat]]

\* No binding has had the time to expire on PostgreSQL.
Young == HidesExpired => now < TTL

\* A binding that is there can be read, so a caller whose insert conflicted reads it and never
\* comes to overwrite it.
Readable ==
    /\ HidesExpired /\ There(binding) => binding.expiresAt >= TTL
    /\ \A c \in Callers :
          /\ caller[c].at # "idle" => caller[c].expiresAt >= TTL
          /\ caller[c].at \notin {"reread", "overwrite"}
          /\ caller[c].at = "read" => HidesExpired /\ There(binding)

Inv == TypeInv /\ (Young => Readable /\ admitted \subseteq {binding.payload})

LEMMA InitInv == Init => Inv
  BY OperationAssumption
     DEF Init, Inv, TypeInv, Readable, NoRow, Idle, Names, Steps, There

-----------------------------------------------------------------------------
\* A step of a caller keeps the types.
LEMMA Types ==
    ASSUME TypeInv, NEW c \in Callers,
           \/ \E p \in Payloads : Begin(c, p)
           \/ Step(c) \/ PruneBinding(c) \/ PruneInvocations(c) \/ Crash(c)
    PROVE  TypeInv'
<1>1. caller[c] \in [at: Steps, payload: Names, expiresAt: Nat] /\ TTL \in Nat
  BY OperationAssumption DEF TypeInv
<1>2. /\ now' = now
      /\ binding' \in {binding, Row(c), NoRow}
  BY DEF Begin, Step, Bind, Conflict, ReadBinding, Overwrite, Invoke, Lookup, Leave,
         PruneBinding, PruneInvocations, Crash, Unexpired
<1>3. PICK q \in [at: Steps, payload: Names, expiresAt: Nat] :
          caller' = caller \/ caller' = [caller EXCEPT ![c] = q]
  <2>1. ASSUME NEW s \in Steps, GoTo(c, s)
        PROVE  \E q \in [at: Steps, payload: Names, expiresAt: Nat] :
                   caller' = [caller EXCEPT ![c] = q]
    <3>1. [caller[c] EXCEPT !.at = s] \in [at: Steps, payload: Names, expiresAt: Nat]
      BY <1>1
    <3> QED
      BY <2>1, <3>1 DEF GoTo
  <2>2. ASSUME Forget(c)
        PROVE  \E q \in [at: Steps, payload: Names, expiresAt: Nat] :
                   caller' = [caller EXCEPT ![c] = q]
    BY <2>2 DEF Forget, Idle, Steps, Names
  <2>3. ASSUME NEW p \in Payloads, Begin(c, p)
        PROVE  \E q \in [at: Steps, payload: Names, expiresAt: Nat] :
                   caller' = [caller EXCEPT ![c] = q]
    <3>1. now + TTL \in Nat
      BY <1>1 DEF TypeInv
    <3>2. [at |-> "bind", payload |-> p, expiresAt |-> now + TTL]
             \in [at: Steps, payload: Names, expiresAt: Nat]
      BY <3>1 DEF Steps, Names
    <3> QED
      BY <2>3, <3>2 DEF Begin
  <2>4. \/ \E p \in Payloads : Begin(c, p)
        \/ \E s \in Steps : GoTo(c, s)
        \/ Forget(c)
        \/ caller' = caller
    <3>1. ASSUME ReadBinding(c) PROVE \/ \E s \in Steps : GoTo(c, s)
                                      \/ Forget(c)
      <4>1. caller[c].at \in {"read", "reread"}
        BY <3>1 DEF ReadBinding, ReadAgain
      <4>2. ReadAgain[caller[c].at] \in Steps
        BY <4>1 DEF ReadAgain, Steps
      <4> QED
        BY <3>1, <4>2 DEF ReadBinding, Compare, Refuse, Steps
    <3>2. ASSUME Bind(c) \/ Conflict(c) \/ Overwrite(c) \/ Invoke(c) \/ Lookup(c) \/ Leave(c)
          PROVE  (\E s \in Steps : GoTo(c, s)) \/ Forget(c)
      BY <3>2 DEF Bind, Conflict, Overwrite, Invoke, Lookup, Leave, Compare, Refuse, Steps
    <3>3. ASSUME PruneBinding(c) \/ PruneInvocations(c) \/ Crash(c)
          PROVE  caller' = caller \/ Forget(c)
      BY <3>3 DEF PruneBinding, PruneInvocations, Crash
    <3> QED
      BY <3>1, <3>2, <3>3 DEF Step
  <2>5. caller[c] \in [at: Steps, payload: Names, expiresAt: Nat]
    BY <1>1
  <2> QED
    BY <2>1, <2>2, <2>3, <2>4, <2>5
<1>4. Row(c) \in [payload: Names, expiresAt: Nat] /\ NoRow \in [payload: Names, expiresAt: Nat]
  BY <1>1 DEF Row, NoRow, Names
<1> QED
  BY <1>2, <1>3, <1>4 DEF TypeInv

\* While everything that is there can be read, a step of a caller adds no second payload.
LEMMA CallerStep ==
    ASSUME Inv, Young, NEW c \in Callers,
           \/ \E p \in Payloads : Begin(c, p)
           \/ Step(c) \/ PruneBinding(c) \/ PruneInvocations(c) \/ Crash(c)
    PROVE  Readable' /\ admitted' \subseteq {binding'.payload}
<1> USE DEF There, Shown, Expired, Free
<1>1. /\ TypeInv /\ Readable /\ admitted \subseteq {binding.payload}
      /\ TTL \in Nat \ {0} /\ HidesExpired \in BOOLEAN
  BY OperationAssumption DEF Inv
<1>2. caller[c] \in [at: Steps, payload: Names, expiresAt: Nat]
  BY <1>1 DEF TypeInv
<1>3. \A d \in Callers \ {c} : caller'[d] = caller[d]
  BY <1>1 DEF Begin, Step, Bind, Conflict, ReadBinding, Overwrite, Invoke, Lookup, Leave,
         PruneBinding, PruneInvocations, Crash, GoTo, Forget, Compare, Refuse, TypeInv
\* A row that is there is shown.
<1>4. There(binding) => Shown(binding)
  BY <1>1 DEF Young, Readable, TypeInv
<1>5. CASE \E p \in Payloads : Begin(c, p)
  <2>1. PICK p \in Payloads :
            /\ caller' = [caller EXCEPT ![c] = [at |-> "bind", payload |-> p, expiresAt |-> now + TTL]]
            /\ binding' = binding /\ admitted' = admitted
    BY <1>5 DEF Begin
  <2>2. caller'[c].at = "bind" /\ caller'[c].expiresAt = now + TTL /\ now + TTL >= TTL
    BY <1>1, <2>1 DEF TypeInv
  <2> QED
    BY <1>1, <1>3, <2>1, <2>2 DEF Readable
<1>6. CASE Bind(c)
  <2>1. /\ binding' = Row(c) /\ admitted' = {caller[c].payload}
        /\ caller'[c].at = "invoke" /\ caller'[c].expiresAt = caller[c].expiresAt
        /\ caller[c].expiresAt >= TTL
    BY <1>1, <1>2, <1>6 DEF Bind, GoTo, TypeInv, Readable
  <2>2. binding'.payload = caller[c].payload /\ binding'.expiresAt = caller[c].expiresAt
    BY <2>1 DEF Row
  <2>3. binding' # NoRow
    BY <1>1, <1>2, <2>1, <2>2 DEF NoRow
  <2> QED
    BY <1>1, <1>3, <2>1, <2>2, <2>3 DEF Readable
<1>7. CASE (Conflict(c) \/ ReadBinding(c)) /\ Compare(c) /\ binding' = binding
  <2>1. /\ caller'[c].at = "invoke" /\ caller'[c].expiresAt = caller[c].expiresAt
        /\ admitted' = admitted \cup {binding.payload}
        /\ caller[c].at # "idle" => caller[c].expiresAt >= TTL
    BY <1>1, <1>2, <1>7 DEF Compare, GoTo, SameRequest, TypeInv, Readable
  <2>2. caller[c].at # "idle"
    BY <1>7 DEF Conflict, ReadBinding, ReadAgain
  <2> QED
    BY <1>1, <1>3, <1>7, <2>1, <2>2 DEF Readable
<1>8. CASE Forget(c) /\ UNCHANGED <<binding, admitted>>
  <2>1. caller'[c].at = "idle"
    BY <1>1, <1>8 DEF Forget, Idle, TypeInv
  <2> QED
    BY <1>1, <1>3, <1>8, <2>1 DEF Readable
<1>9. CASE Conflict(c) /\ HidesExpired /\ GoTo(c, "read")
  <2>1. /\ caller[c].at = "bind" /\ There(binding) /\ UNCHANGED <<binding, admitted>>
        /\ caller'[c].at = "read" /\ caller'[c].expiresAt = caller[c].expiresAt
    BY <1>1, <1>2, <1>9 DEF Conflict, GoTo, TypeInv
  <2> QED
    BY <1>1, <1>3, <1>9, <2>1 DEF Readable
<1>10. ~(ReadBinding(c) /\ ~Shown(binding)) /\ ~Overwrite(c)
  <2>1. ReadBinding(c) => caller[c].at \in {"read", "reread"}
    BY DEF ReadBinding, ReadAgain
  <2> QED
    BY <1>1, <1>4, <2>1 DEF Overwrite, Readable
<1>11. CASE Invoke(c) \/ Lookup(c)
  <2>1. PICK s \in {"lookup", "begun", "quote"} : GoTo(c, s) /\ UNCHANGED <<binding, admitted>>
    BY <1>11 DEF Invoke, Lookup
  <2>2. /\ caller'[c].at = s /\ caller'[c].expiresAt = caller[c].expiresAt
        /\ caller[c].at # "idle"
    BY <1>1, <1>2, <1>11, <2>1 DEF GoTo, TypeInv, Invoke, Lookup
  <2> QED
    BY <1>1, <1>3, <2>1, <2>2 DEF Readable
<1>12. CASE PruneBinding(c)
  <2>1. Expired(binding) /\ binding' = NoRow /\ admitted' = {} /\ caller' = caller
    BY <1>12 DEF PruneBinding
  <2>2. ~HidesExpired
    BY <1>1, <1>4, <2>1
  <2> QED
    BY <1>1, <2>1, <2>2 DEF Readable
<1>13. CASE PruneInvocations(c)
  BY <1>1, <1>13 DEF PruneInvocations, Readable
<1>14. ASSUME Conflict(c) \/ ReadBinding(c) \/ Leave(c) \/ Crash(c)
       PROVE  \/ (Conflict(c) \/ ReadBinding(c)) /\ Compare(c) /\ binding' = binding
              \/ Forget(c) /\ UNCHANGED <<binding, admitted>>
              \/ Conflict(c) /\ HidesExpired /\ GoTo(c, "read")
  BY <1>10, <1>14 DEF Conflict, ReadBinding, Leave, Crash, Refuse
<1> QED
  BY <1>5, <1>6, <1>7, <1>8, <1>9, <1>10, <1>11, <1>12, <1>13, <1>14 DEF Step

-----------------------------------------------------------------------------
LEMMA NextInv ==
    ASSUME Inv, [Next]_vars
    PROVE  Inv'
<1>1. CASE UNCHANGED vars
  BY <1>1 DEF vars, Inv, TypeInv, Young, Readable, There
<1>2. CASE Tick
  <2>1. /\ now' = now + 1 /\ UNCHANGED <<binding, caller, admitted>>
        /\ now \in Nat /\ TTL \in Nat
    BY <1>2, OperationAssumption DEF Tick, Inv, TypeInv
  <2>2. Young' => Young
    BY <2>1 DEF Young
  <2> QED
    BY <2>1, <2>2 DEF Inv, TypeInv, Readable, There
<1>3. ASSUME NEW c \in Callers,
             \/ \E p \in Payloads : Begin(c, p)
             \/ Step(c) \/ PruneBinding(c) \/ PruneInvocations(c) \/ Crash(c)
      PROVE  Inv'
  <2>1. TypeInv'
    BY <1>3, Types DEF Inv
  <2>2. now' = now
    BY <1>3 DEF Begin, Step, Bind, Conflict, ReadBinding, Overwrite, Invoke, Lookup, Leave,
                PruneBinding, PruneInvocations, Crash
  <2>3. Young' => Young
    BY <2>2 DEF Young
  <2>4. CASE Young
    BY <1>3, <2>1, <2>4, CallerStep DEF Inv
  <2> QED
    BY <2>1, <2>3, <2>4 DEF Inv
<1> QED
  BY <1>1, <1>2, <1>3 DEF Next

\* However callers race, read late, crash and come back, all payloads let through under an
\* operationId while its binding is kept are one: on the file store at all times, on PostgreSQL
\* until the first binding expires.
THEOREM OnePayload == Spec => []OneInterpretationWhileKept
<1>1. Init => Inv
  BY InitInv
<1>2. Inv /\ [Next]_vars => Inv'
  BY NextInv
<1>3. Inv => OneInterpretationWhileKept
  <2> SUFFICES ASSUME Inv, Young PROVE Cardinality(admitted) <= 1
    BY DEF OneInterpretationWhileKept, OneInterpretation, Young
  <2>1. admitted = {} \/ admitted = {binding.payload}
    BY DEF Inv
  <2>2. Cardinality({}) = 0 /\ Cardinality({binding.payload}) = 1
    BY FS_EmptySet, FS_Singleton
  <2> QED
    BY <2>1, <2>2
<1> QED
  BY <1>1, <1>2, <1>3, PTL DEF Spec

-----------------------------------------------------------------------------
(***************************************************************************)
(* Operation bindings on the file store                                    *)
(***************************************************************************)
\* A row that is there is shown, so nobody reads a second time or overwrites.
KeptInv ==
    /\ now \in Nat
    /\ caller \in [Callers -> [at: Steps, payload: Names, expiresAt: Nat]]
    /\ \A c \in Callers : caller[c].at \notin {"read", "reread", "overwrite"}
    /\ admitted \subseteq {binding.payload}

\* A caller goes on, and no second payload is let through.
LEMMA KeptGoes ==
    ASSUME KeptInv, NEW c \in Callers, NEW step \in Steps \ {"read", "reread", "overwrite"},
           Kept!GoTo(c, step), UNCHANGED now,
           admitted' \subseteq {binding'.payload}
    PROVE  KeptInv'
<1>1. /\ caller' = [caller EXCEPT ![c].at = step]
      /\ caller \in [Callers -> [at: Steps, payload: Names, expiresAt: Nat]]
  BY DEF KeptInv, Kept!GoTo
<1>2. PICK q \in [at: Steps, payload: Names, expiresAt: Nat] :
          q.at = step /\ caller' = [caller EXCEPT ![c] = q]
  <2>1. [caller[c] EXCEPT !.at = step] \in [at: Steps, payload: Names, expiresAt: Nat]
    BY <1>1
  <2> QED
    BY <1>1, <2>1
<1> QED
  BY <1>2 DEF KeptInv

LEMMA KeptForgets ==
    ASSUME KeptInv, NEW c \in Callers, Kept!Forget(c), UNCHANGED now,
           admitted' \subseteq {binding'.payload}
    PROVE  KeptInv'
  BY DEF KeptInv, Kept!Forget, Kept!Idle, Steps, Names

LEMMA KeptStep ==
    ASSUME KeptInv, NEW c \in Callers,
           \/ \E p \in Payloads : Kept!Begin(c, p)
           \/ Kept!Step(c) \/ Kept!PruneBinding(c) \/ Kept!PruneInvocations(c) \/ Kept!Crash(c)
    PROVE  KeptInv'
<1> USE DEF Kept!Shown
<1>1. CASE \E p \in Payloads : Kept!Begin(c, p)
  <2>1. PICK p \in Payloads : Kept!Begin(c, p)
    BY <1>1
  <2>2. now + TTL \in Nat
    BY OperationAssumption DEF KeptInv
  <2>3. [at |-> "bind", payload |-> p, expiresAt |-> now + TTL]
           \in [at: Steps, payload: Names, expiresAt: Nat]
    BY <2>2 DEF Steps, Names
  <2> QED
    BY <2>1, <2>3 DEF Kept!Begin, KeptInv
<1>2. CASE Kept!Bind(c) \/ Kept!Overwrite(c)
  <2>1. /\ Kept!GoTo(c, "invoke") /\ binding' = Kept!Row(c)
        /\ UNCHANGED now /\ admitted' = {caller[c].payload}
    BY <1>2 DEF Kept!Bind, Kept!Overwrite, KeptInv
  <2> QED
    BY <2>1, KeptGoes DEF Kept!Row, Steps
<1>3. CASE Kept!Conflict(c) \/ Kept!ReadBinding(c)
  <2>1. ~Kept!ReadBinding(c)
    BY DEF Kept!ReadBinding, Kept!ReadAgain, KeptInv
  <2>2. (Kept!Compare(c) \/ Kept!Refuse(c)) /\ UNCHANGED <<now, binding>>
    BY <1>3, <2>1 DEF Kept!Conflict
  <2>3. CASE Kept!Compare(c)
    BY <2>2, <2>3, KeptGoes DEF Kept!Compare, Kept!SameRequest, Steps, KeptInv
  <2>4. CASE Kept!Refuse(c)
    BY <2>2, <2>4, KeptForgets DEF Kept!Refuse, KeptInv
  <2> QED
    BY <2>2, <2>3, <2>4
<1>4. CASE Kept!Invoke(c) \/ Kept!Lookup(c)
  BY <1>4, KeptGoes DEF Kept!Invoke, Kept!Lookup, Steps, KeptInv
<1>5. CASE Kept!Leave(c) \/ Kept!Crash(c)
  BY <1>5, KeptForgets DEF Kept!Leave, Kept!Crash, KeptInv
<1>6. CASE Kept!PruneBinding(c) \/ Kept!PruneInvocations(c)
  BY <1>6 DEF Kept!PruneBinding, Kept!PruneInvocations, KeptInv
<1> QED
  BY <1>1, <1>2, <1>3, <1>4, <1>5, <1>6 DEF Kept!Step

LEMMA KeptNext ==
    ASSUME KeptInv, Kept!Next
    PROVE  KeptInv'
<1>1. CASE Kept!Tick
  BY <1>1 DEF Kept!Tick, KeptInv
<1> QED
  BY <1>1, KeptStep DEF Kept!Next


OperationsInv ==
    /\ part = "operation on PostgreSQL" => Inv
    /\ part = "operation on file" => KeptInv

LEMMA OnePayloadAtMost ==
    ASSUME NEW x, admitted \subseteq {x}
    PROVE  Cardinality(admitted) <= 1
<1>1. admitted = {} \/ admitted = {x}
  OBVIOUS
<1>2. Cardinality({}) = 0 /\ Cardinality({x}) = 1
  BY FS_EmptySet, FS_Singleton
<1> QED
  BY <1>1, <1>2

\* The same for the behaviours of both stores, each with the store's own way of reading an
\* expired binding.
THEOREM OnePayloadOnBoth == EachStore => []OneInterpretationOnBoth
<1>1. EachInit => OperationsInv
  <2> SUFFICES ASSUME EachInit PROVE Inv /\ KeptInv
    BY DEF OperationsInv
  <2>1. Init
    BY DEF EachInit
  <2> QED
    BY <2>1, InitInv DEF Inv, TypeInv, KeptInv, Init, Idle
<1>2. OperationsInv /\ [EachNext]_eachVars => OperationsInv'
  <2> SUFFICES ASSUME OperationsInv, [EachNext]_eachVars PROVE OperationsInv'
    OBVIOUS
  <2>1. UNCHANGED part
    BY DEF EachNext, eachVars
  <2>2. CASE part = "operation on PostgreSQL"
    <3>1. [Next]_vars
      BY <2>2 DEF EachNext, eachVars, OnPostgres, vars, operationVars
    <3> QED
      BY <2>1, <2>2, <3>1, NextInv DEF OperationsInv
  <2>3. CASE part = "operation on file"
    <3>1. Kept!Next \/ UNCHANGED <<now, binding, caller, admitted>>
      BY <2>3 DEF EachNext, eachVars, OnPostgres, operationVars
    <3>2. KeptInv'
      BY <2>3, <3>1, KeptNext DEF OperationsInv, KeptInv
    <3> QED
      BY <2>1, <2>3, <3>2 DEF OperationsInv
  <2> QED
    BY <2>1, <2>2, <2>3 DEF OperationsInv
<1>3. OperationsInv => OneInterpretationOnBoth
  <2> SUFFICES ASSUME OperationsInv PROVE OneInterpretationOnBoth
    OBVIOUS
  <2>1. part = "operation on PostgreSQL" => OneInterpretationWhileKept
    BY OnePayloadAtMost DEF OperationsInv, Inv, Young, OneInterpretationWhileKept, OneInterpretation
  <2>2. part = "operation on file" => Kept!OneInterpretationWhileKept
    <3>1. Kept!Cardinality(admitted) = Cardinality(admitted)
      BY DEF Kept!Cardinality, Cardinality, Kept!IsFiniteSet, IsFiniteSet
    <3> QED
      BY <3>1, OnePayloadAtMost DEF OperationsInv, KeptInv, Kept!OneInterpretationWhileKept,
         Kept!OneInterpretation
  <2> QED
    BY <2>1, <2>2 DEF OneInterpretationOnBoth
<1> QED
  BY <1>1, <1>2, <1>3, PTL DEF EachStore

-----------------------------------------------------------------------------
(***************************************************************************)
(* The migration of the schema                                             *)
(***************************************************************************)
Places == {"down", "lock", "read", "migrate", "commit", "throw", "serving"}

\* Between its read and its unlock a server has the lock, so the schema is as it knows it; what
\* it is about to commit is the next version.
Migrating(s) ==
    /\ server[s].at \in {"read", "migrate", "commit", "throw"} => lock = s
    /\ server[s].at \in {"migrate", "commit"} => server[s].known = schema
    /\ server[s].at = "commit" =>
          /\ server[s].version \in 1 .. Release[s] \ schema
          /\ \A w \in 1 .. Release[s] \ schema : server[s].version <= w
    /\ server[s].at = "serving" => 1 .. Release[s] \subseteq schema

SchemaInv ==
    /\ server \in [Servers -> [at: Places, known: SUBSET Nat, version: Nat]]
    /\ schema \subseteq Nat
    /\ \A v \in schema : 1 .. v \subseteq schema
    /\ \A s \in Servers : Migrating(s)

LEMMA SchemaInit == Schema!Init => SchemaInv
  BY StoresAssumption DEF Schema!Init, Schema!Down, SchemaInv, Migrating, Places

\* A step of one server, of which the others notice at most that there are more versions: they
\* have not got the lock, or the schema and the lock stay.
LEMMA ServerStep ==
    ASSUME SchemaInv, NEW s \in Servers,
           NEW q \in [at: Places, known: SUBSET Nat, version: Nat],
           server' = [server EXCEPT ![s] = q],
           schema \subseteq schema', schema' \subseteq Nat,
           \A v \in schema' : 1 .. v \subseteq schema',
           \/ lock = s
           \/ UNCHANGED schema /\ (lock' = lock \/ lock = Nobody),
           Migrating(s)'
    PROVE  SchemaInv'
<1>1. ASSUME NEW r \in Servers, r # s PROVE Migrating(r)'
  <2>1. server'[r] = server[r] /\ Migrating(r)
    BY <1>1 DEF SchemaInv
  <2>2. CASE lock # r
    BY <2>1, <2>2 DEF Migrating
  <2>3. CASE lock = r
    <3>1. UNCHANGED schema /\ lock' = lock
      BY <1>1, <2>3, StoresAssumption
    <3> QED
      BY <2>1, <3>1 DEF Migrating
  <2> QED
    BY <2>2, <2>3
<1>2. server' \in [Servers -> [at: Places, known: SUBSET Nat, version: Nat]]
  BY DEF SchemaInv
<1> QED
  BY <1>1, <1>2 DEF SchemaInv

\* Where a server only goes to another place
LEMMA GoneTo ==
    ASSUME SchemaInv, NEW s \in Servers, NEW step \in Places, Schema!GoTo(s, step)
    PROVE  \E q \in [at: Places, known: SUBSET Nat, version: Nat] :
              /\ server' = [server EXCEPT ![s] = q]
              /\ q.at = step /\ q.known = server[s].known
<1>1. server[s] \in [at: Places, known: SUBSET Nat, version: Nat]
  BY DEF SchemaInv
<1>2. [server[s] EXCEPT !.at = step] \in [at: Places, known: SUBSET Nat, version: Nat]
  BY <1>1
<1> QED
  BY <1>1, <1>2 DEF Schema!GoTo

LEMMA SchemaStep ==
    ASSUME SchemaInv, NEW s \in Servers,
           \/ Schema!Start(s) \/ Schema!Lock(s) \/ Schema!ReadVersions(s) \/ Schema!Migrate(s)
           \/ Schema!Commit(s) \/ Schema!QueryFails(s) \/ Schema!Unlock(s) \/ Schema!SessionEnds(s)
    PROVE  SchemaInv'
<1> DEFINE Kind == [at: Places, known: SUBSET Nat, version: Nat]
<1>1. /\ server[s] \in Kind /\ server \in [Servers -> Kind]
      /\ schema \subseteq Nat /\ \A v \in schema : 1 .. v \subseteq schema
      /\ Migrating(s)
      /\ Release[s] \in Nat /\ Nobody # s
  BY StoresAssumption DEF SchemaInv
<1>2. Schema!Down \in Kind
  BY DEF Schema!Down, Places
<1>3. CASE Schema!Start(s)
  <2>1. PICK q \in Kind : server' = [server EXCEPT ![s] = q] /\ q.at = "lock"
    BY <1>3, GoneTo DEF Schema!Start, Places
  <2>2. UNCHANGED <<lock, schema>>
    BY <1>3 DEF Schema!Start
  <2>3. Migrating(s)'
    BY <1>1, <2>1 DEF Migrating
  <2> QED
    BY <1>1, <2>1, <2>2, <2>3, ServerStep
<1>4. CASE Schema!Lock(s)
  <2>1. PICK q \in Kind : server' = [server EXCEPT ![s] = q] /\ q.at = "read"
    BY <1>4, GoneTo DEF Schema!Lock, Places
  <2>2. lock = Nobody /\ lock' = s /\ UNCHANGED schema
    BY <1>4 DEF Schema!Lock, Schema!Free
  <2>3. Migrating(s)'
    BY <1>1, <2>1, <2>2 DEF Migrating
  <2> QED
    BY <1>1, <2>1, <2>2, <2>3, ServerStep
<1>5. CASE Schema!ReadVersions(s)
  <2>1. PICK q \in Kind : /\ server' = [server EXCEPT ![s] = q]
                          /\ q.at = "migrate" /\ q.known = schema
    <3>1. [server[s] EXCEPT !.at = "migrate", !.known = schema] \in Kind
      BY <1>1 DEF Places
    <3>2. server' = [server EXCEPT ![s] = [server[s] EXCEPT !.at = "migrate", !.known = schema]]
      BY <1>1, <1>5 DEF Schema!ReadVersions
    <3> QED
      BY <1>1, <3>1, <3>2
  <2>2. lock = s /\ UNCHANGED <<lock, schema>>
    BY <1>1, <1>5 DEF Schema!ReadVersions, Migrating
  <2>3. Migrating(s)'
    BY <1>1, <2>1, <2>2 DEF Migrating
  <2> QED
    BY <1>1, <2>1, <2>2, <2>3, ServerStep
<1>6. CASE Schema!Migrate(s)
  <2>1. /\ server[s].at = "migrate" /\ lock = s /\ server[s].known = schema
        /\ UNCHANGED <<lock, schema>>
    BY <1>1, <1>6 DEF Schema!Migrate, Migrating
  <2>2. PICK v \in 1 .. Release[s] \ schema :
            /\ \A w \in 1 .. Release[s] \ schema : v <= w
            /\ server' = [server EXCEPT ![s].version = v, ![s].at = "commit"]
    BY <1>6, <2>1 DEF Schema!Migrate, Schema!Pending, Schema!Versions
  <2>3. PICK q \in Kind : /\ server' = [server EXCEPT ![s] = q]
                          /\ q.at = "commit" /\ q.version = v /\ q.known = server[s].known
    <3> v \in Nat
      BY <1>1, <2>2
    <3>1. [server[s] EXCEPT !.version = v, !.at = "commit"] \in Kind
      BY <1>1 DEF Places
    <3>2. server' = [server EXCEPT ![s] = [server[s] EXCEPT !.version = v, !.at = "commit"]]
      BY <1>1, <2>2
    <3> QED
      BY <1>1, <3>1, <3>2
  <2>4. Migrating(s)'
    BY <1>1, <2>1, <2>2, <2>3 DEF Migrating
  <2> QED
    BY <1>1, <2>1, <2>3, <2>4, ServerStep
\* The version that is committed is the next one.
<1>7. ASSUME server[s].at = "commit", schema' = Schema!Committed(s)
      PROVE  /\ schema \subseteq schema' /\ schema' \subseteq Nat
             /\ \A v \in schema' : 1 .. v \subseteq schema'
             /\ lock = s
             /\ schema' = schema \cup {server[s].version}
             /\ server[s].known = schema
  <2>1. PICK v : v = server[s].version
    OBVIOUS
  <2>2. /\ v \in 1 .. Release[s] \ schema /\ v \in Nat
        /\ \A w \in 1 .. Release[s] \ schema : v <= w
        /\ schema' = schema \cup {v}
        /\ lock = s /\ server[s].known = schema
    BY <1>1, <1>7, <2>1 DEF Migrating, Schema!Committed
  <2>3. 1 .. v \subseteq schema \cup {v}
    <3>1. ASSUME NEW w \in 1 .. v, w # v PROVE w \in schema
      <4>1. w \in 1 .. Release[s] /\ w < v
        BY <1>1, <2>2, <3>1
      <4> QED
        BY <1>1, <2>2, <4>1
    <3> QED
      BY <3>1
  <2> QED
    BY <1>1, <2>1, <2>2, <2>3
<1>8. CASE Schema!Commit(s)
  <2>1. /\ server[s].at = "commit" /\ schema' = Schema!Committed(s) /\ UNCHANGED lock
        /\ server' = [server EXCEPT ![s].at = "migrate",
                                    ![s].known = @ \cup {server[s].version}]
    BY <1>8 DEF Schema!Commit
  <2>2. PICK q \in Kind : /\ server' = [server EXCEPT ![s] = q]
                          /\ q.at = "migrate" /\ q.known = schema'
    <3>1. [server[s] EXCEPT !.at = "migrate", !.known = schema'] \in Kind
      BY <1>1, <1>7, <2>1 DEF Places
    <3>2. server' = [server EXCEPT ![s] = [server[s] EXCEPT !.at = "migrate", !.known = schema']]
      BY <1>1, <1>7, <2>1
    <3> QED
      BY <1>1, <3>1, <3>2
  <2>3. Migrating(s)'
    BY <1>1, <1>7, <2>1, <2>2 DEF Migrating
  <2> QED
    BY <1>1, <1>7, <2>1, <2>2, <2>3, ServerStep
<1>9. CASE Schema!QueryFails(s)
  <2>1. PICK step \in {"down", "throw"} :
            /\ Schema!GoTo(s, step) /\ UNCHANGED <<lock, schema>>
            /\ step = "throw" => server[s].at \in {"read", "migrate", "commit"}
    BY <1>9 DEF Schema!QueryFails
  <2>2. PICK q \in Kind : server' = [server EXCEPT ![s] = q] /\ q.at = step
    BY <2>1, GoneTo DEF Places
  <2>3. Migrating(s)'
    BY <1>1, <2>1, <2>2 DEF Migrating
  <2> QED
    BY <1>1, <2>1, <2>2, <2>3, ServerStep
<1>10. CASE Schema!Unlock(s)
  <2>1. /\ lock = s /\ UNCHANGED schema
    BY <1>1, <1>10 DEF Schema!Unlock, Migrating
  <2>2. PICK q \in Kind : /\ server' = [server EXCEPT ![s] = q]
                          /\ q.at \in {"serving", "down"}
                          /\ q.at = "serving" => 1 .. Release[s] \subseteq schema
    <3>1. CASE server[s].at = "throw"
      BY <1>2, <1>10, <3>1 DEF Schema!Unlock, Schema!Down
    <3>2. CASE server[s].at # "throw"
      <4>1. server[s].at = "migrate" /\ Schema!Pending(s) = {} /\ Schema!GoTo(s, "serving")
        BY <1>10, <3>2 DEF Schema!Unlock
      <4>2. 1 .. Release[s] \subseteq schema
        BY <1>1, <4>1 DEF Migrating, Schema!Pending, Schema!Versions
      <4> QED
        BY <4>1, <4>2, GoneTo DEF Places
    <3> QED
      BY <3>1, <3>2
  <2>3. Migrating(s)'
    BY <1>1, <2>1, <2>2 DEF Migrating
  <2> QED
    BY <1>1, <2>1, <2>2, <2>3, ServerStep
<1>11. CASE Schema!SessionEnds(s)
  <2>1. /\ server' = [server EXCEPT ![s] = Schema!Down] /\ lock' = Schema!Unlocked(s)
        /\ UNCHANGED schema \/ (server[s].at = "commit" /\ schema' = Schema!Committed(s))
    BY <1>11 DEF Schema!SessionEnds
  <2>2. Migrating(s)'
    BY <1>1, <2>1 DEF Migrating, Schema!Down
  <2>3. lock = s \/ lock' = lock
    BY <2>1 DEF Schema!Unlocked
  <2>4. CASE UNCHANGED schema
    BY <1>1, <1>2, <2>1, <2>2, <2>3, <2>4, ServerStep
  <2>5. CASE server[s].at = "commit" /\ schema' = Schema!Committed(s)
    BY <1>1, <1>2, <1>7, <2>1, <2>2, <2>5, ServerStep
  <2> QED
    BY <2>1, <2>4, <2>5
<1> QED
  BY <1>3, <1>4, <1>5, <1>6, <1>8, <1>9, <1>10, <1>11

LEMMA SchemaNext ==
    ASSUME SchemaInv, Schema!Next \/ UNCHANGED schemaVars
    PROVE  SchemaInv'
<1>1. CASE UNCHANGED schemaVars
  BY <1>1 DEF schemaVars, SchemaInv, Migrating
<1> QED
  BY <1>1, SchemaStep DEF Schema!Next

-----------------------------------------------------------------------------
(***************************************************************************)
(* The readiness of the dependencies                                       *)
(***************************************************************************)
Replies == Seq([ok: BOOLEAN, at: Nat])

\* The time n answers may take
Took(n) == n * Timeout

\* No answer of a report is older than the first by more than the timeouts of the others.
Within(report) ==
    /\ report.answers \in Replies /\ report.at \in Nat
    /\ report.answers # <<>> => report.at <= report.answers[1].at + Took(Dependencies - 1)

\* While the computation runs, each answer so far took no longer than its timeout.
HealthInv ==
    /\ now \in Nat
    /\ Within(cache) /\ cache.at <= now
    /\ heard.report.answers # <<>> =>
          heard.at < heard.report.answers[1].at + CacheTime + Took(Dependencies - 1)
    /\ asking \in [busy: BOOLEAN, answers: Replies, since: Nat]
    /\ asking.busy =>
          /\ Len(asking.answers) < Dependencies
          /\ now <= asking.since + Timeout
          /\ asking.answers # <<>> =>
                asking.since <= asking.answers[1].at + Took(Len(asking.answers) - 1)
    /\ waiting # {} => asking.busy

LEMMA TimeTaken ==
    /\ Dependencies - 1 \in Nat /\ CacheTime \in Nat \ {0} /\ Timeout \in Nat
    /\ \A n \in Nat : Took(n) \in Nat
    /\ \A n \in Nat : Took(n + 1) = Took(n) + Timeout
<1>1. /\ Dependencies - 1 \in Nat /\ CacheTime \in Nat \ {0} /\ Timeout \in Nat
  BY StoresAssumption
<1>2. ASSUME NEW n \in Nat PROVE n * Timeout \in Nat /\ (n + 1) * Timeout = n * Timeout + Timeout
  BY <1>1
<1> QED
  BY <1>1, <1>2 DEF Took

LEMMA Sequences ==
    /\ <<>> \in Replies /\ Len(<<>>) = 0
    /\ \A q \in Replies : Len(q) \in Nat /\ (q # <<>> => Len(q) - 1 \in Nat /\ q[1].at \in Nat)
<1>1. <<>> \in Replies /\ Len(<<>>) = 0
  BY DEF Replies
<1>2. ASSUME NEW q \in Replies PROVE Len(q) \in Nat
  BY <1>2, LenProperties DEF Replies
<1>3. ASSUME NEW q \in Replies, q # <<>> PROVE Len(q) - 1 \in Nat /\ q[1].at \in Nat
  <2>1. q \in Seq([ok: BOOLEAN, at: Nat])
    BY DEF Replies
  <2>2. Len(q) # 0 /\ Len(q) \in Nat
    BY <1>3, <2>1, EmptySeq, LenProperties
  <2>3. 1 \in 1 .. Len(q)
    BY <2>2
  <2>4. q[1] \in [ok: BOOLEAN, at: Nat]
    BY <2>1, <2>3, ElementOfSeq
  <2> QED
    BY <2>2, <2>4
<1> QED
  BY <1>1, <1>2, <1>3

LEMMA HealthInit == now = 0 /\ Health!Init => HealthInv
  BY Sequences DEF Health!Init, Health!NoReport, Health!NotAsking, HealthInv, Within

\* One answer more
LEMMA Replied ==
    ASSUME HealthInv, asking.busy, NEW ok \in BOOLEAN
    PROVE  \E new \in Replies :
              /\ new = Health!Answers(ok)
              /\ Len(new) = Len(asking.answers) + 1
              /\ new # <<>>
              /\ now <= new[1].at + Took(Len(asking.answers))
<1> DEFINE reply == [ok |-> ok, at |-> now]
<1>1. /\ asking.answers \in Replies /\ reply \in [ok: BOOLEAN, at: Nat]
      /\ asking.since \in Nat /\ now \in Nat
  BY DEF HealthInv
<1>2. PICK new : new = Append(asking.answers, reply)
  OBVIOUS
<1>3. /\ new \in Replies
      /\ Len(new) = Len(asking.answers) + 1
      /\ new # <<>>
      /\ asking.answers = <<>> => new[1] = reply
      /\ asking.answers # <<>> => new[1] = asking.answers[1]
  <2>1. asking.answers \in Seq([ok: BOOLEAN, at: Nat])
    BY <1>1 DEF Replies
  <2>2. /\ new \in Seq([ok: BOOLEAN, at: Nat])
        /\ Len(new) = Len(asking.answers) + 1
        /\ \A i \in 1 .. Len(asking.answers) : new[i] = asking.answers[i]
        /\ new[Len(asking.answers) + 1] = reply
    BY <1>1, <1>2, <2>1, AppendProperties
  <2>3. Len(asking.answers) \in Nat /\ (asking.answers = <<>> <=> Len(asking.answers) = 0)
    BY <2>1, LenProperties, EmptySeq
  <2> HIDE DEF reply
  <2> QED
    BY <2>2, <2>3 DEF Replies
<1>4. now <= new[1].at + Took(Len(asking.answers))
  <2>1. CASE asking.answers = <<>>
    BY <1>1, <1>3, <2>1, Sequences, TimeTaken
  <2>2. CASE asking.answers # <<>>
    <3>0. Len(asking.answers) \in Nat /\ Len(asking.answers) - 1 \in Nat
      BY <1>1, <2>2, Sequences
    <3>1. PICK n \in Nat : n + 1 = Len(asking.answers) /\ n = Len(asking.answers) - 1
      BY <3>0
    <3>2. asking.answers[1].at \in Nat
      BY <1>1, <2>2, Sequences
    <3>3. now <= asking.since + Timeout /\ asking.since <= asking.answers[1].at + Took(n)
      BY <2>2, <3>1 DEF HealthInv
    <3>4. Took(Len(asking.answers)) = Took(n) + Timeout /\ Took(n) \in Nat /\ Timeout \in Nat
      BY <3>1, TimeTaken
    <3> QED
      BY <1>1, <1>3, <2>2, <3>2, <3>3, <3>4
  <2> QED
    BY <2>1, <2>2
<1> QED
  BY <1>2, <1>3, <1>4 DEF Health!Answers

LEMMA HealthNext ==
    ASSUME HealthInv, Health!Next \/ UNCHANGED <<now, healthVars>>
    PROVE  HealthInv'
<1>1. /\ Dependencies - 1 \in Nat /\ CacheTime \in Nat \ {0} /\ Timeout \in Nat
      /\ Took(Dependencies - 1) \in Nat
      /\ now \in Nat
  BY TimeTaken DEF HealthInv
<1>2. CASE UNCHANGED <<now, healthVars>>
  BY <1>2 DEF healthVars, HealthInv, Within
<1>3. CASE Health!Tick
  BY <1>1, <1>3 DEF Health!Tick, HealthInv, Within
<1>4. ASSUME NEW p \in Probes, Health!Probe(p)
      PROVE  HealthInv'
  <2>1. CASE Health!Fresh
    <3>1. /\ heard' = [report |-> cache, at |-> now] /\ UNCHANGED <<now, cache, asking, waiting>>
          /\ now < cache.at + CacheTime
      BY <1>4, <2>1 DEF Health!Probe, Health!Fresh
    <3>2. cache.answers # <<>> =>
              now < cache.answers[1].at + CacheTime + Took(Dependencies - 1)
      <4> SUFFICES ASSUME cache.answers # <<>>
                   PROVE  now < cache.answers[1].at + CacheTime + Took(Dependencies - 1)
        OBVIOUS
      <4>1. /\ cache.answers \in Replies /\ cache.at \in Nat
            /\ cache.at <= cache.answers[1].at + Took(Dependencies - 1)
        BY DEF HealthInv, Within
      <4>2. cache.answers[1].at \in Nat
        BY <4>1, Sequences
      <4> QED
        BY <1>1, <3>1, <4>1, <4>2
    <3> QED
      BY <3>1, <3>2 DEF HealthInv, Within
  <2>2. CASE ~Health!Fresh
    <3>1. /\ UNCHANGED <<now, cache, heard>>
          /\ waiting' = waiting \cup {p}
          /\ \/ asking.busy /\ asking' = asking
             \/ asking' = [busy |-> TRUE, answers |-> <<>>, since |-> now]
      BY <1>4, <2>2 DEF Health!Probe, Health!NotAsking
    <3>2. CASE asking.busy /\ asking' = asking
      BY <3>1, <3>2 DEF HealthInv, Within
    <3>3. CASE asking' = [busy |-> TRUE, answers |-> <<>>, since |-> now]
      <4>1. /\ asking' \in [busy: BOOLEAN, answers: Replies, since: Nat]
            /\ asking'.busy /\ asking'.answers = <<>> /\ asking'.since = now
        BY <1>1, <3>3, Sequences
      <4>2. Len(asking'.answers) < Dependencies
        <5>1. Len(<<>>) < Dependencies
          BY StoresAssumption, Sequences
        <5> QED
          BY <4>1, <5>1
      <4>3. now <= now + Timeout
        BY <1>1
      <4> QED
        BY <1>1, <3>1, <4>1, <4>2, <4>3 DEF HealthInv, Within
    <3> QED
      BY <3>1, <3>2, <3>3
  <2> QED
    BY <2>1, <2>2
<1>5. ASSUME NEW ok \in BOOLEAN, Health!Ask(ok)
      PROVE  HealthInv'
  <2>1. PICK new \in Replies :
            /\ new = Health!Answers(ok)
            /\ Len(new) = Len(asking.answers) + 1 /\ new # <<>>
            /\ now <= new[1].at + Took(Len(asking.answers))
    BY <1>5, Replied DEF Health!Ask
  <2>2. /\ asking.busy /\ Len(asking.answers) + 1 < Dependencies
        /\ asking' = [busy |-> TRUE, answers |-> new, since |-> now]
        /\ UNCHANGED <<now, cache, waiting, heard>>
    BY <1>5, <2>1 DEF Health!Ask
  <2>3. Len(asking.answers) \in Nat
    BY Sequences DEF HealthInv
  <2>4. Len(new) - 1 = Len(asking.answers) /\ Len(new) < Dependencies
    BY <2>1, <2>2, <2>3
  <2>5. /\ asking' \in [busy: BOOLEAN, answers: Replies, since: Nat]
        /\ asking'.busy /\ asking'.answers = new /\ asking'.since = now
    BY <1>1, <2>1, <2>2
  <2>6. now <= asking'.since + Timeout
    BY <1>1, <2>5
  <2>7. asking'.since <= asking'.answers[1].at + Took(Len(asking'.answers) - 1)
    BY <2>1, <2>4, <2>5
  <2> QED
    BY <1>1, <2>2, <2>4, <2>5, <2>6, <2>7 DEF HealthInv, Within
<1>6. ASSUME NEW ok \in BOOLEAN, Health!Complete(ok)
      PROVE  HealthInv'
  <2>1. PICK new \in Replies :
            /\ new = Health!Answers(ok)
            /\ Len(new) = Len(asking.answers) + 1 /\ new # <<>>
            /\ now <= new[1].at + Took(Len(asking.answers))
    BY <1>6, Replied DEF Health!Complete
  <2>2. /\ Len(asking.answers) + 1 = Dependencies
        /\ cache' = [answers |-> new, at |-> now]
        /\ heard' = [report |-> [answers |-> new, at |-> now], at |-> now]
        /\ asking' = [busy |-> FALSE, answers |-> <<>>, since |-> 0] /\ waiting' = {}
        /\ UNCHANGED now
    BY <1>6, <2>1 DEF Health!Complete, Health!NotAsking
  <2>3. Len(asking.answers) \in Nat
    BY Sequences DEF HealthInv
  <2>4. Len(asking.answers) = Dependencies - 1
    BY <1>1, <2>2, <2>3
  <2>5. now < new[1].at + CacheTime + Took(Dependencies - 1)
    BY <1>1, <2>1, <2>4, Sequences
  <2> QED
    BY <1>1, <2>1, <2>2, <2>4, <2>5, Sequences DEF HealthInv, Within
<1> QED
  BY <1>2, <1>3, <1>4, <1>5, <1>6 DEF Health!Next

StartInv ==
    /\ SchemaInv
    /\ IF part = "health" THEN HealthInv ELSE heard.report.answers = <<>> /\ waiting = {}

\* However many servers of whatever releases start, fail and die at once, each migrates a schema
\* it knows and serves with the whole of its release's; and whenever probes come, what they are
\* told is recent.
THEOREM TrueStart == EachStore => []StartsOnTrueState
<1>1. EachInit => StartInv
  <2> SUFFICES ASSUME EachInit PROVE StartInv
    OBVIOUS
  <2>1. Schema!Init /\ Health!Init /\ now = 0
    BY DEF EachInit, Init
  <2>2. SchemaInv /\ HealthInv
    BY <2>1, SchemaInit, HealthInit
  <2>3. heard.report.answers = <<>> /\ waiting = {}
    BY <2>1 DEF Health!Init, Health!NoReport
  <2> QED
    BY <2>2, <2>3 DEF StartInv
<1>2. StartInv /\ [EachNext]_eachVars => StartInv'
  <2> SUFFICES ASSUME StartInv, [EachNext]_eachVars PROVE StartInv'
    OBVIOUS
  <2>1. UNCHANGED part /\ (Schema!Next \/ UNCHANGED schemaVars)
    BY DEF EachNext, eachVars, OnPostgres
  <2>2. SchemaInv'
    BY <2>1, SchemaNext DEF StartInv
  <2>3. CASE part = "health"
    <3>1. Health!Next \/ UNCHANGED <<now, healthVars>>
      BY <2>3 DEF EachNext, eachVars, OnPostgres
    <3>2. HealthInv'
      BY <2>3, <3>1, HealthNext DEF StartInv
    <3> QED
      BY <2>1, <2>2, <2>3, <3>2 DEF StartInv
  <2>4. CASE part # "health"
    <3>1. UNCHANGED healthVars
      BY <2>4 DEF EachNext, eachVars, OnPostgres
    <3> QED
      BY <2>1, <2>2, <2>4, <3>1 DEF StartInv, healthVars
  <2> QED
    BY <2>3, <2>4
<1>3. StartInv => StartsOnTrueState
  <2> SUFFICES ASSUME StartInv PROVE StartsOnTrueState
    OBVIOUS
  <2>1. Schema!SchemaIsKnown
    BY DEF StartInv, SchemaInv, Migrating, Schema!SchemaIsKnown, Schema!Versions
  <2>2. Health!ReportIsRecent
    BY DEF StartInv, HealthInv, Took, Health!ReportIsRecent, Health!There
  <2> QED
    BY <2>1, <2>2 DEF StartsOnTrueState
<1> QED
  BY <1>1, <1>2, <1>3, PTL DEF EachStore


-----------------------------------------------------------------------------
(***************************************************************************)
(* The file store implements a durable map                                 *)
(***************************************************************************)
Record == [n: Nat, on: BOOLEAN]
Maps == [FileKeys -> Record]
Counts == [FileKeys -> Nat]
CallStates == [stage: {"idle", "loading", "persist"}, upTo: Counts]

FileTypes ==
    /\ disk \in Maps /\ entries \in Maps /\ told \in Counts
    /\ chain \in Seq(Calls)
    /\ temp = <<>> \/ \E m \in Maps : temp = <<m>>
    /\ call \in [Calls -> CallStates]
    /\ load \in {"none", "reading", "loaded", "failed"}

\* The map u has at least the changes of the map m.
Covers(u, m) == \A k \in FileKeys : m[k].n <= u[k].n

\* The map m has the changes that call c waits to be told about.
Has(m, c) == \A k \in FileKeys : call[c].upTo[k] <= m[k].n

\* No call waits twice in the chain, and what each waits for is in memory.
Queued ==
    /\ \A i \in 1 .. Len(chain) : call[chain[i]].stage = "persist" /\ Has(entries, chain[i])
    /\ \A i, j \in 1 .. Len(chain) : chain[i] = chain[j] => i = j

\* What was told is on the disk; the disk, the file being written and the memory follow each
\* other; and the file being written has what the first of the chain waits for.
FileInv ==
    /\ FileTypes
    /\ \A k \in FileKeys : told[k] <= disk[k].n
    /\ load # "loaded" => chain = <<>> /\ temp = <<>>
    /\ load = "loaded" => Covers(entries, disk)
    /\ \A m \in Maps : temp = <<m>> =>
          chain # <<>> /\ Covers(m, disk) /\ Covers(entries, m) /\ Has(m, Head(chain))
    /\ Queued

Store == IF load = "loaded" THEN entries ELSE disk

LEMMA FileInit == File!Init => FileInv /\ File!Records!Init
<1> SUFFICES ASSUME File!Init PROVE FileInv /\ File!Records!Init
  OBVIOUS
<1>1. /\ File!Absent \in Record /\ File!Absent.n = 0
      /\ [k \in FileKeys |-> 0] \in Counts
      /\ <<>> \in Seq(Calls) /\ Len(<<>>) = 0
  BY DEF File!Absent, Record, Counts
<1>2. /\ disk \in Maps /\ entries \in Maps /\ told \in Counts
      /\ \A k \in FileKeys : told[k] = 0 /\ disk[k].n = 0
  BY <1>1 DEF File!Init, File!Empty, Maps, Counts
<1>3. call \in [Calls -> CallStates]
  BY <1>1 DEF File!Init, File!Idle, CallStates
<1>4. FileInv
  BY <1>1, <1>2, <1>3 DEF File!Init, File!NoFile, FileInv, FileTypes, Queued
<1>5. File!Records!Init
  BY DEF File!Init, File!Empty, File!Absent, File!Records!Init, File!Records!Absent
<1> QED
  BY <1>4, <1>5


\* Every answer the caller of a task waits for comes with the rest of the chain in order.
LEMMA TaskLeaves ==
    ASSUME FileInv, chain # <<>>, chain' = Tail(chain), entries' = entries,
           call' = [call EXCEPT ![Head(chain)] = File!Idle]
    PROVE  /\ Queued' /\ chain' \in Seq(Calls) /\ call' \in [Calls -> CallStates]
           /\ Head(chain) \in Calls
           /\ Has(entries, Head(chain)) /\ call[Head(chain)] \in CallStates
<1>1. chain \in Seq(Calls) /\ call \in [Calls -> CallStates] /\ Queued
  BY DEF FileInv, FileTypes
<1>2. PICK c : c = Head(chain)
  OBVIOUS
<1>3. PICK rest : rest = Tail(chain)
  OBVIOUS
<1>4. /\ Len(chain) \in Nat \ {0}
      /\ c \in Calls /\ c = chain[1]
      /\ rest \in Seq(Calls) /\ Len(rest) = Len(chain) - 1
      /\ \A i \in 1 .. Len(rest) : rest[i] = chain[i + 1]
  BY <1>1, <1>2, <1>3, HeadTailProperties, EmptySeq, LenProperties
<1>5. File!Idle \in CallStates
  BY DEF File!Idle, CallStates, Counts
<1>6. call' \in [Calls -> CallStates] /\ chain' = rest
  BY <1>1, <1>2, <1>3, <1>4, <1>5
<1>7. 1 \in 1 .. Len(chain) /\ \A i \in 1 .. Len(rest) : i + 1 \in 1 .. Len(chain) /\ i + 1 # 1
  BY <1>4
<1>8. ASSUME NEW i \in 1 .. Len(rest)
      PROVE  rest[i] \in Calls /\ rest[i] # c /\ call'[rest[i]] = call[rest[i]]
  <2>1. rest[i] = chain[i + 1] /\ rest[i] \in Calls
    BY <1>4, <1>8, ElementOfSeq
  <2>2. rest[i] # c
    BY <1>1, <1>4, <1>7, <1>8, <2>1 DEF Queued
  <2> QED
    BY <1>1, <1>2, <2>1, <2>2
<1>9. ASSUME NEW i \in 1 .. Len(rest)
      PROVE  call'[rest[i]].stage = "persist"
             /\ \A k \in FileKeys : call'[rest[i]].upTo[k] <= entries'[k].n
  <2>1. PICK n \in 1 .. Len(chain) : rest[i] = chain[n]
    BY <1>4, <1>7, <1>9
  <2>2. call[rest[i]].stage = "persist" /\ \A k \in FileKeys : call[rest[i]].upTo[k] <= entries[k].n
    BY <1>1, <2>1 DEF Queued, Has
  <2> QED
    BY <1>8, <1>9, <2>2
<1>10. ASSUME NEW i \in 1 .. Len(rest), NEW j \in 1 .. Len(rest), rest[i] = rest[j]
       PROVE  i = j
  <2>1. i + 1 = j + 1
    BY <1>1, <1>4, <1>7, <1>10 DEF Queued
  <2> QED
    BY <2>1
<1>11. Queued'
  BY <1>6, <1>9, <1>10 DEF Queued, Has
<1>12. Has(entries, c) /\ call[c] \in CallStates
  BY <1>1, <1>4, <1>7 DEF Queued
<1> QED
  BY <1>2, <1>4, <1>6, <1>11, <1>12

\* A call that does not wait in the chain moves to another stage that is not of the chain.
LEMMA CallMoves ==
    ASSUME FileInv, NEW c \in Calls, call[c].stage # "persist",
           NEW q \in CallStates, call' = [call EXCEPT ![c] = q],
           UNCHANGED <<disk, entries, chain, temp, told>>,
           load' \in {"none", "reading", "loaded", "failed"},
           load = "loaded" <=> load' = "loaded"
    PROVE  FileInv'
<1>1. /\ chain \in Seq(Calls) /\ call \in [Calls -> CallStates] /\ Queued
  BY DEF FileInv, FileTypes
<1>2. call' \in [Calls -> CallStates]
  BY <1>1
<1>3. ASSUME NEW i \in 1 .. Len(chain)
      PROVE  chain[i] # c /\ chain[i] \in Calls /\ call'[chain[i]] = call[chain[i]]
  <2>1. chain[i] # c /\ chain[i] \in Calls
    BY <1>1, <1>3, ElementOfSeq DEF Queued
  <2> QED
    BY <1>1, <2>1
<1>4. Queued'
  BY <1>1, <1>3 DEF Queued, Has
<1>5. ASSUME NEW m \in Maps, temp = <<m>>
      PROVE  \A k \in FileKeys : call'[Head(chain)].upTo[k] <= m[k].n
  <2>1. chain # <<>> /\ Has(m, Head(chain))
    BY <1>5 DEF FileInv
  <2>2. 1 \in 1 .. Len(chain) /\ Head(chain) = chain[1]
    BY <1>1, <2>1, HeadTailProperties, EmptySeq, LenProperties
  <2>3. call'[Head(chain)] = call[Head(chain)]
    BY <1>3, <2>2
  <2> QED
    BY <2>1, <2>3 DEF Has
<1> QED
  BY <1>1, <1>2, <1>4, <1>5 DEF FileInv, FileTypes, Covers, Has


\* A change is made in memory and waits in the chain: the durable map changes.
LEMMA FileMutates ==
    ASSUME FileInv, NEW c \in Calls, NEW K \in SUBSET FileKeys, NEW on \in BOOLEAN,
           File!Mutate(c, K, on)
    PROVE  FileInv' /\ File!Records!Change
<1>1. /\ chain \in Seq(Calls) /\ call \in [Calls -> CallStates] /\ Queued
      /\ disk \in Maps /\ entries \in Maps /\ told \in Counts
  BY DEF FileInv, FileTypes
<1>2. PICK m : m = [k \in FileKeys |-> IF k \in K THEN [n |-> entries[k].n + 1, on |-> on]
                                                  ELSE entries[k]]
  OBVIOUS
<1>3. PICK up : up = [k \in FileKeys |-> IF k \in K THEN m[k].n ELSE 0]
  OBVIOUS
<1>4. PICK longer : longer = Append(chain, c)
  OBVIOUS
<1>5. /\ call[c].stage = "loading" /\ load = "loaded"
      /\ entries' = m /\ chain' = longer
      /\ call' = [call EXCEPT ![c] = [stage |-> "persist", upTo |-> up]]
      /\ UNCHANGED <<disk, load, temp, told, seen>>
  BY <1>2, <1>3, <1>4 DEF File!Mutate, File!Ready, File!Changed
<1>6. m \in Maps /\ \A k \in FileKeys : m[k] = entries[k] \/ m[k].n = entries[k].n + 1
  BY <1>1, <1>2 DEF Maps, Record
<1>7. Covers(m, entries)
  <2>1. ASSUME NEW k \in FileKeys PROVE entries[k].n <= m[k].n
    <3>1. entries[k].n \in Nat
      BY <1>1 DEF Maps, Record
    <3> QED
      BY <1>6, <3>1
  <2> QED
    BY <2>1 DEF Covers
<1>8. /\ up \in Counts /\ [stage |-> "persist", upTo |-> up] \in CallStates
      /\ \A k \in FileKeys : up[k] <= m[k].n
  BY <1>3, <1>6 DEF Counts, Maps, Record, CallStates
<1>9. /\ longer \in Seq(Calls) /\ longer # <<>>
      /\ Len(longer) = Len(chain) + 1 /\ Len(chain) \in Nat
      /\ \A i \in 1 .. Len(chain) : longer[i] = chain[i]
      /\ longer[Len(chain) + 1] = c
  BY <1>1, <1>4, AppendProperties, LenProperties
<1>10. call' \in [Calls -> CallStates] /\ call'[c] = [stage |-> "persist", upTo |-> up]
  BY <1>1, <1>5, <1>8
<1>11. ASSUME NEW i \in 1 .. Len(chain)
       PROVE  chain[i] # c /\ chain[i] \in Calls /\ call'[chain[i]] = call[chain[i]]
  <2>1. chain[i] # c /\ chain[i] \in Calls
    BY <1>1, <1>5, <1>11, ElementOfSeq DEF Queued
  <2> QED
    BY <1>1, <1>5, <2>1
<1>12. ASSUME NEW i \in 1 .. Len(longer)
       PROVE  call'[longer[i]].stage = "persist"
              /\ \A k \in FileKeys : call'[longer[i]].upTo[k] <= m[k].n
  <2>1. CASE i \in 1 .. Len(chain)
    <3>1. longer[i] = chain[i] /\ call'[longer[i]] = call[chain[i]] /\ chain[i] \in Calls
      BY <1>9, <1>11, <2>1
    <3>2. call[chain[i]].stage = "persist" /\ Has(entries, chain[i])
      BY <1>1, <2>1 DEF Queued
    <3>3. \A k \in FileKeys : call[chain[i]].upTo[k] \in Nat
                              /\ entries[k].n \in Nat /\ m[k].n \in Nat
      BY <1>1, <1>6, <3>1 DEF CallStates, Counts, Maps, Record
    <3> QED
      BY <1>7, <3>1, <3>2, <3>3 DEF Covers, Has
  <2>2. CASE i = Len(chain) + 1
    BY <1>8, <1>9, <1>10, <2>2
  <2> QED
    BY <1>9, <2>1, <2>2
<1>13. ASSUME NEW i \in 1 .. Len(longer), NEW j \in 1 .. Len(longer), longer[i] = longer[j]
       PROVE  i = j
  <2>1. i \in 1 .. Len(chain) \/ i = Len(chain) + 1
    BY <1>9
  <2>2. j \in 1 .. Len(chain) \/ j = Len(chain) + 1
    BY <1>9
  <2> QED
    BY <1>1, <1>9, <1>11, <1>13, <2>1, <2>2 DEF Queued
<1>14. Queued'
  BY <1>5, <1>12, <1>13 DEF Queued, Has
<1>15. ASSUME NEW w \in Maps, temp = <<w>>
       PROVE  /\ Covers(w, disk) /\ Covers(m, w)
              /\ \A k \in FileKeys : call'[Head(longer)].upTo[k] <= w[k].n
  <2>1. chain # <<>> /\ Covers(w, disk) /\ Covers(entries, w) /\ Has(w, Head(chain))
    BY <1>15 DEF FileInv
  <2>2. 1 \in 1 .. Len(chain) /\ Head(chain) = chain[1] /\ Head(longer) = longer[1]
    BY <1>1, <1>9, <2>1, HeadTailProperties, EmptySeq, LenProperties
  <2>3. call'[Head(longer)] = call[Head(chain)]
    BY <1>9, <1>11, <2>2
  <2>4. \A k \in FileKeys : entries[k].n \in Nat /\ m[k].n \in Nat /\ w[k].n \in Nat
    BY <1>1, <1>6, <1>15 DEF Maps, Record
  <2> QED
    BY <1>7, <2>1, <2>3, <2>4 DEF Covers, Has
<1>16. Covers(m, disk)
  <2>1. \A k \in FileKeys : entries[k].n \in Nat /\ m[k].n \in Nat /\ disk[k].n \in Nat
    BY <1>1, <1>6 DEF Maps, Record
  <2> QED
    BY <1>5, <1>7, <2>1 DEF FileInv, Covers
<1>17. FileInv'
  BY <1>1, <1>5, <1>6, <1>9, <1>10, <1>14, <1>15, <1>16 DEF FileInv, FileTypes, Covers, Has
<1>18. File!Records!Change
  BY <1>5, <1>6 DEF File!Records!Change, Maps, Record
<1> QED
  BY <1>17, <1>18

\* The file of the first of the chain gets its name, and its caller is told.
LEMMA FileRenamed ==
    ASSUME FileInv, File!Rename
    PROVE  FileInv' /\ File!Records!Tell
<1>1. PICK m \in Maps : temp = <<m>>
  BY DEF File!Rename, File!NoFile, FileInv, FileTypes
<1>2. /\ chain # <<>> /\ Covers(m, disk) /\ Covers(entries, m) /\ Has(m, Head(chain))
      /\ load = "loaded"
  BY <1>1 DEF FileInv
<1>3. PICK up : up = call[Head(chain)].upTo
  OBVIOUS
<1>4. /\ disk' = m /\ temp' = <<>> /\ chain' = Tail(chain)
      /\ told' = [k \in FileKeys |-> IF told[k] > up[k] THEN told[k] ELSE up[k]]
      /\ call' = [call EXCEPT ![Head(chain)] = File!Idle]
      /\ UNCHANGED <<entries, load, seen>>
  BY <1>1, <1>3 DEF File!Rename, File!NoFile, File!Later
<1>5. /\ Queued' /\ chain' \in Seq(Calls) /\ call' \in [Calls -> CallStates]
      /\ Has(entries, Head(chain)) /\ up \in Counts
  BY <1>2, <1>3, <1>4, TaskLeaves DEF CallStates
<1>6. \A k \in FileKeys :
          /\ told[k] \in Nat /\ up[k] \in Nat /\ disk[k].n \in Nat
          /\ entries[k].n \in Nat /\ m[k].n \in Nat
          /\ told[k] <= disk[k].n /\ disk[k].n <= m[k].n /\ m[k].n <= entries[k].n
          /\ up[k] <= m[k].n
  BY <1>2, <1>3, <1>5 DEF FileInv, FileTypes, Counts, Maps, Record, Covers, Has
<1>7. \A k \in FileKeys :
          /\ told'[k] \in Nat /\ told[k] <= told'[k]
          /\ told'[k] <= m[k].n /\ told'[k] <= entries[k].n
  BY <1>4, <1>6
<1>8. told' \in Counts
  BY <1>4, <1>6 DEF Counts
<1>9. FileInv'
  BY <1>2, <1>4, <1>5, <1>7, <1>8 DEF FileInv, FileTypes, Covers
<1>10. File!Records!Tell
  BY <1>2, <1>4, <1>6, <1>7 DEF File!Records!Tell
<1> QED
  BY <1>9, <1>10


\* All other steps
LEMMA FileRests ==
    ASSUME FileInv,
           \/ \E c \in Calls :
                 \/ File!Arrive(c) \/ File!LoadThrows(c)
                 \/ \E k \in FileKeys : File!Answered(c, k)
           \/ File!FileRead \/ File!FileUnreadable
           \/ File!WriteTemp \/ File!PersistFails \/ File!Restart
    PROVE  FileInv' /\ (File!Records!Next \/ UNCHANGED <<Store, told, seen>>)
<1>1. /\ chain \in Seq(Calls) /\ call \in [Calls -> CallStates] /\ Queued
      /\ disk \in Maps /\ entries \in Maps /\ told \in Counts
      /\ File!Idle \in CallStates
  BY DEF FileInv, FileTypes, File!Idle, CallStates, Counts
<1>2. ASSUME NEW c \in Calls, File!Arrive(c) PROVE FileInv' /\ UNCHANGED <<Store, told, seen>>
  <2>1. PICK q : q = [call[c] EXCEPT !.stage = "loading"]
    OBVIOUS
  <2>2. q \in CallStates /\ call' = [call EXCEPT ![c] = q]
    BY <1>1, <1>2, <2>1 DEF File!Arrive, CallStates
  <2>3. /\ load' = IF load = "none" THEN "reading" ELSE load
        /\ call[c].stage = "idle" /\ UNCHANGED <<disk, entries, chain, temp, told, seen>>
    BY <1>2 DEF File!Arrive, File!LoadStarted
  <2>4. /\ load' \in {"none", "reading", "loaded", "failed"}
        /\ load = "loaded" <=> load' = "loaded"
    BY <2>3 DEF FileInv, FileTypes
  <2>5. FileInv'
    BY <2>2, <2>3, <2>4, CallMoves
  <2> QED
    BY <2>3, <2>4, <2>5 DEF Store
<1>3. ASSUME NEW c \in Calls, File!LoadThrows(c)
      PROVE  FileInv' /\ UNCHANGED <<Store, told, seen>>
  <2>1. load \in {"none", "reading", "loaded", "failed"}
    BY DEF FileInv, FileTypes
  <2> QED
    BY <1>1, <1>3, <2>1, CallMoves DEF File!LoadThrows, Store
<1>4. ASSUME NEW c \in Calls, NEW k \in FileKeys, File!Answered(c, k)
      PROVE  FileInv' /\ File!Records!Answer(c, k)
  <2>1. load \in {"none", "reading", "loaded", "failed"}
    BY DEF FileInv, FileTypes
  <2>2. FileInv'
    BY <1>1, <1>4, <2>1, CallMoves DEF File!Answered, File!Ready
  <2>3. File!Records!Answer(c, k)
    BY <1>4 DEF File!Answered, File!Ready, File!Records!Answer
  <2> QED
    BY <2>2, <2>3
<1>5. CASE File!FileRead
  <2>1. /\ load = "reading" /\ load' = "loaded" /\ entries' = disk
        /\ UNCHANGED <<disk, chain, temp, call, told, seen>>
        /\ chain = <<>> /\ temp = <<>>
    BY <1>5 DEF File!FileRead, FileInv
  <2>2. Len(chain) = 0
    BY <2>1, EmptySeq
  <2>3. Queued' /\ Covers(disk, disk)
    BY <1>1, <2>1, <2>2 DEF Queued, Covers, Maps, Record
  <2> QED
    BY <2>1, <2>3 DEF FileInv, FileTypes, Store, Covers
<1>6. CASE File!FileUnreadable
  <2>1. /\ load = "reading" /\ load' = "failed"
        /\ UNCHANGED <<disk, entries, chain, temp, call, told, seen>>
    BY <1>6 DEF File!FileUnreadable
  <2> QED
    BY <2>1 DEF FileInv, FileTypes, Store, Covers, Has, Queued
<1>7. CASE File!WriteTemp
  <2>1. /\ chain # <<>> /\ temp' = <<entries>>
        /\ UNCHANGED <<disk, entries, load, chain, call, told, seen>>
        /\ load = "loaded"
    BY <1>7 DEF File!WriteTemp, FileInv
  <2>2. Covers(entries, disk) /\ Covers(entries, entries)
    BY <1>1, <2>1 DEF FileInv, Covers, Maps, Record
  <2>3. Has(entries, Head(chain))
    <3>1. 1 \in 1 .. Len(chain) /\ Head(chain) = chain[1]
      BY <1>1, <2>1, HeadTailProperties, EmptySeq, LenProperties
    <3> QED
      BY <1>1, <3>1 DEF Queued
  <2>4. \A m \in Maps : temp' = <<m>> => m = entries
    BY <2>1
  <2> QED
    BY <1>1, <2>1, <2>2, <2>3, <2>4 DEF FileInv, FileTypes, Store, Covers, Has, Queued
<1>8. CASE File!PersistFails
  <2>1. /\ chain # <<>> /\ temp' = <<>> /\ chain' = Tail(chain)
        /\ call' = [call EXCEPT ![Head(chain)] = File!Idle]
        /\ UNCHANGED <<disk, entries, load, told, seen>>
        /\ load = "loaded"
    BY <1>8 DEF File!PersistFails, File!NoFile, FileInv
  <2>2. Queued' /\ chain' \in Seq(Calls) /\ call' \in [Calls -> CallStates]
    BY <2>1, TaskLeaves
  <2> QED
    BY <2>1, <2>2 DEF FileInv, FileTypes, Store, Covers
<1>9. CASE File!Restart
  <2>1. /\ entries' = [k \in FileKeys |-> File!Absent] /\ load' = "none"
        /\ chain' = <<>> /\ temp' = <<>>
        /\ call' = [c \in Calls |-> File!Idle]
        /\ UNCHANGED <<disk, told, seen>>
    BY <1>9 DEF File!Restart, File!Empty, File!NoFile
  <2>2. entries' \in Maps
    BY <2>1 DEF File!Absent, Maps, Record
  <2>3. Len(<<>>) = 0 /\ <<>> \in Seq(Calls)
    BY EmptySeq
  <2>4. Queued'
    BY <2>1, <2>3 DEF Queued
  <2>5. FileInv'
    BY <1>1, <2>1, <2>2, <2>3, <2>4 DEF FileInv, FileTypes
  <2>6. ASSUME NEW k \in FileKeys
        PROVE  disk[k].n \in told[k] .. Store[k].n
    <3>1. told[k] \in Nat /\ disk[k].n \in Nat /\ entries[k].n \in Nat /\ told[k] <= disk[k].n
      BY <1>1 DEF FileInv, Counts, Maps, Record
    <3>2. load = "loaded" => disk[k].n <= entries[k].n
      BY DEF FileInv, Covers
    <3> QED
      BY <3>1, <3>2 DEF Store
  <2>7. File!Records!Crash
    BY <2>1, <2>6 DEF File!Records!Crash, Store
  <2> QED
    BY <2>5, <2>7 DEF File!Records!Next
<1> QED
  BY <1>2, <1>3, <1>4, <1>5, <1>6, <1>7, <1>8, <1>9 DEF File!Records!Next

LEMMA FileNext ==
    ASSUME FileInv, File!Next
    PROVE  FileInv' /\ (File!Records!Next \/ UNCHANGED <<Store, told, seen>>)
<1>1. ASSUME NEW c \in Calls, NEW k \in FileKeys, File!Set(c, k) \/ File!SetIfAbsent(c, k)
      PROVE  FileInv' /\ File!Records!Next
  <2>1. {k} \in SUBSET FileKeys /\ TRUE \in BOOLEAN /\ File!Mutate(c, {k}, TRUE)
    BY <1>1 DEF File!Set, File!SetIfAbsent
  <2> QED
    BY <2>1, FileMutates DEF File!Records!Next
<1>2. ASSUME NEW c \in Calls, NEW K \in SUBSET FileKeys, File!Remove(c, K)
      PROVE  FileInv' /\ File!Records!Next
  <2>1. FALSE \in BOOLEAN /\ File!Mutate(c, K, FALSE)
    BY <1>2 DEF File!Remove
  <2> QED
    BY <2>1, FileMutates DEF File!Records!Next
<1>3. CASE File!Rename
  BY <1>3, FileRenamed DEF File!Records!Next
<1> QED
  BY <1>1, <1>2, <1>3, FileRests DEF File!Next

\* The JSON file store is a durable map: a call that comes while the file is read waits, every
\* answer is of the map, and a crash or a failed write takes back only changes nobody was told
\* about.
THEOREM FileStoreIsDurable == EachStore => RecordsImplemented
<1>1. EachInit => FileInv /\ File!Records!Init
  BY FileInit DEF EachInit
<1>2. FileInv /\ [EachNext]_eachVars => FileInv' /\ [File!Records!Next]_<<Store, told, seen>>
  <2> SUFFICES ASSUME FileInv, [EachNext]_eachVars
               PROVE  FileInv' /\ (File!Records!Next \/ UNCHANGED <<Store, told, seen>>)
    OBVIOUS
  <2>1. File!Next \/ UNCHANGED fileVars
    BY DEF EachNext, eachVars, OnPostgres
  <2>2. CASE File!Next
    BY <2>2, FileNext
  <2>3. CASE UNCHANGED fileVars
    BY <2>3 DEF fileVars, Store, FileInv, FileTypes, Queued, Covers, Has
  <2> QED
    BY <2>1, <2>2, <2>3
<1>3. [File!Records!Next]_<<Store, told, seen>> <=> [File!Records!Next]_(File!Records!recordVars)
  BY DEF File!Records!recordVars, Store
<1> QED
  BY <1>1, <1>2, <1>3, PTL DEF EachStore, RecordsImplemented, File!RecordsImplemented,
                              File!Records!Spec

-----------------------------------------------------------------------------
(***************************************************************************)
(* The rate limiters                                                       *)
(***************************************************************************)
Everybody == Subjects \cup {"global"}
WindowAt(t) == t \div Window
EndAt(w) == (w + 1) * Window
TheWindows == 0 .. WindowAt(MaxTime)

\* Windows follow each other.
LEMMA WindowFacts ==
    /\ Window \in Nat \ {0}
    /\ \A w \in Nat : EndAt(w) \in Nat /\ EndAt(w) >= Window
    /\ \A w \in Nat : EndAt(w + 1) = EndAt(w) + Window
    /\ \A t \in Nat : /\ WindowAt(t) \in Nat
                      /\ t < EndAt(WindowAt(t)) /\ EndAt(WindowAt(t)) <= t + Window
<1>1. Window \in Nat \ {0}
  BY StoresAssumption
<1>2. ASSUME NEW w \in Nat
      PROVE  /\ (w + 1) * Window \in Nat /\ (w + 1) * Window >= Window
             /\ (w + 1 + 1) * Window = (w + 1) * Window + Window
  BY <1>1
<1>3. ASSUME NEW t \in Nat
      PROVE  /\ t \div Window \in Nat
             /\ t < ((t \div Window) + 1) * Window
             /\ ((t \div Window) + 1) * Window <= t + Window
  BY <1>1
<1> QED
  BY <1>1, <1>2, <1>3 DEF WindowAt, EndAt

LEMMA WindowOrder ==
    /\ \A v, w \in Nat : v < w => EndAt(v) + Window <= EndAt(w)
    /\ \A t, u \in Nat : t <= u => WindowAt(t) <= WindowAt(u)
    /\ \A t \in 0 .. MaxTime : WindowAt(t) \in TheWindows
    /\ WindowAt(MaxTime) \in Nat
<1>1. Window \in Nat \ {0}
  BY StoresAssumption
<1>2. ASSUME NEW v \in Nat, NEW w \in Nat, v < w PROVE EndAt(v) + Window <= EndAt(w)
  <2>1. (w + 1) * Window = (v + 1) * Window + (w - v) * Window
    BY <1>1
  <2>2. (w - v) * Window >= Window
    BY <1>1, <1>2
  <2> QED
    BY <1>1, <2>1, <2>2 DEF EndAt
<1>3. ASSUME NEW t \in Nat, NEW u \in Nat, t <= u, ~(WindowAt(t) <= WindowAt(u)) PROVE FALSE
  <2>1. EndAt(WindowAt(u)) + Window <= EndAt(WindowAt(t))
    BY <1>2, <1>3, WindowFacts
  <2>2. u < EndAt(WindowAt(u)) /\ EndAt(WindowAt(t)) <= t + Window
        /\ EndAt(WindowAt(u)) \in Nat /\ EndAt(WindowAt(t)) \in Nat
    BY WindowFacts
  <2> QED
    BY <1>1, <1>3, <2>1, <2>2
<1>4. ASSUME NEW t \in 0 .. MaxTime PROVE WindowAt(t) \in TheWindows
  <2>1. MaxTime \in Nat /\ t \in Nat /\ t <= MaxTime
    BY OperationAssumption
  <2>2. WindowAt(t) \in Nat /\ WindowAt(MaxTime) \in Nat /\ WindowAt(t) <= WindowAt(MaxTime)
    BY <1>3, <2>1, WindowFacts
  <2> QED
    BY <2>2 DEF TheWindows
<1>5. WindowAt(MaxTime) \in Nat
  BY OperationAssumption, WindowFacts
<1> QED
  BY <1>2, <1>3, <1>4, <1>5

Small(a, b) == IF a <= b THEN a ELSE b

CounterType == [count : Nat, expires : Nat]

\* A key whose counter was started a window after its own has let through what its first
\* counter did, too.
Late(c, w) == c.expires >= EndAt(w) + Window
Spent(c, w) == (IF Late(c, w) THEN PerIp ELSE 0) + Small(c.count, PerIp)

\* A counter of window w at time t.
CounterOK(c, w, t) ==
    /\ c.count = 0 => c.expires = 0
    /\ c.count > 0 => c.expires >= EndAt(w) /\ c.expires <= t + Window

CountsUp(c, d, t) ==
    d = IF c.expires <= t THEN [count |-> 1, expires |-> t + Window]
                          ELSE [count |-> c.count + 1, expires |-> c.expires]

LEMMA CountsUpType ==
    ASSUME NEW c \in CounterType, NEW t \in Nat, NEW d, CountsUp(c, d, t)
    PROVE  d \in CounterType
BY WindowFacts DEF CountsUp, CounterType

LEMMA SpentBounds ==
    ASSUME NEW c \in CounterType, NEW w \in Nat
    PROVE  /\ Spent(c, w) \in Nat /\ Spent(c, w) <= 2 * PerIp
           /\ ~Late(c, w) => Spent(c, w) <= PerIp
           /\ c.count = 0 /\ c.expires = 0 => Spent(c, w) = 0
<1>1. PerIp \in Nat /\ EndAt(w) \in Nat /\ Window \in Nat \ {0} /\ c.count \in Nat /\ c.expires \in Nat
  BY StoresAssumption, WindowFacts DEF CounterType
<1> QED
  BY <1>1 DEF Spent, Small, Late

\* One more request of window w is counted, soon after it came: what the key has spent grows
\* if the request passes, as its counter starts again once at most.
LEMMA Recounted ==
    ASSUME NEW c \in CounterType, NEW since \in Nat, NEW t \in Nat, since <= t, t <= since + Wait,
           NEW w, w = WindowAt(since), CounterOK(c, w, t),
           NEW d, CountsUp(c, d, t)
    PROVE  /\ d \in CounterType /\ CounterOK(d, w, t)
           /\ d.count <= c.count + 1
           /\ Spent(d, w) >= Spent(c, w) + (IF d.count <= PerIp THEN 1 ELSE 0)
<1>1. /\ PerIp \in Nat /\ Window \in Nat \ {0} /\ Wait \in Nat /\ Wait <= Window
      /\ c.count \in Nat /\ c.expires \in Nat
  BY StoresAssumption DEF CounterType
<1>2. w \in Nat /\ EndAt(w) \in Nat /\ since < EndAt(w) /\ EndAt(w) <= since + Window
  BY WindowFacts
<1>3. CASE c.expires <= t
  <2>1. d.count = 1 /\ d.expires = t + Window /\ d \in CounterType
    BY <1>1, <1>3 DEF CountsUp, CounterType
  <2>2. ~Late(c, w)
    BY <1>1, <1>2, <1>3 DEF Late
  <2>3. c.count > 0 => Late(d, w)
    BY <1>1, <1>2, <1>3, <2>1 DEF Late, CounterOK
  <2> QED
    BY <1>1, <1>2, <1>3, <2>1, <2>2, <2>3 DEF CounterOK, Spent, Small
<1>4. CASE ~(c.expires <= t)
  <2>1. d.count = c.count + 1 /\ d.expires = c.expires /\ d \in CounterType
    BY <1>1, <1>4 DEF CountsUp, CounterType
  <2>2. c.count > 0
    BY <1>1, <1>4 DEF CounterOK
  <2> QED
    BY <1>1, <1>2, <1>4, <2>1, <2>2 DEF CounterOK, Spent, Small, Late
<1> QED
  BY <1>3, <1>4

HandlerType == [at : {"idle", "subject", "global", "close"}, replica : Replicas \cup {"host", "none"},
                subject : Subjects \cup {"none"}, since : Nat, retry : Nat]

LimiterTypes ==
    /\ now \in 0 .. MaxTime
    /\ handler \in [Handlers -> HandlerType]
    /\ \A h \in Handlers : handler[h].at # "idle" =>
          handler[h].subject \in Subjects /\ handler[h].since <= now
    /\ passed \in [Subjects -> [TheWindows -> Nat]]
    /\ charged \in [TheWindows -> SUBSET Subjects]
    /\ \A w \in TheWindows : IsFiniteSet(charged[w])

Two(S) == \E a, b \in S : a # b

\* The requests of a subject that have passed and are counted for all in window w next.
Waits(q, w, s) == q.at = "global" /\ q.subject = s /\ WindowAt(q.since) = w
WaitingIn(f, w, s) == {h \in Handlers : Waits(f[h], w, s)}

LEMMA WaitingCounts ==
    ASSUME NEW f, NEW w, NEW s
    PROVE  IsFiniteSet(WaitingIn(f, w, s)) /\ Cardinality(WaitingIn(f, w, s)) \in Nat
<1>1. WaitingIn(f, w, s) \subseteq Handlers /\ IsFiniteSet(Handlers)
  BY StoresAssumption DEF WaitingIn
<1>2. IsFiniteSet(WaitingIn(f, w, s))
  BY <1>1, FS_Subset
<1> QED
  BY <1>2, FS_CardinalityType

One(P) == IF P THEN 1 ELSE 0

\* One handler moves.
LEMMA WaitingMoves ==
    ASSUME NEW f, NEW g, NEW h \in Handlers, NEW q, NEW w, NEW s,
           g[h] = q, \A i \in Handlers \ {h} : g[i] = f[i]
    PROVE  Cardinality(WaitingIn(g, w, s)) + One(Waits(f[h], w, s))
               = Cardinality(WaitingIn(f, w, s)) + One(Waits(q, w, s))
<1>3. PICK A, B, R : /\ A = WaitingIn(f, w, s) /\ B = WaitingIn(g, w, s)
                     /\ R = A \ {h}
  OBVIOUS
<1>4. R = B \ {h} /\ h \notin R
  BY <1>3 DEF WaitingIn
<1>5. IsFiniteSet(A) /\ IsFiniteSet(B) /\ IsFiniteSet(R) /\ Cardinality(R) \in Nat
  <2>1. IsFiniteSet(A) /\ IsFiniteSet(B)
    BY <1>3, WaitingCounts
  <2>2. IsFiniteSet(R)
    BY <2>1, <1>3, FS_Subset
  <2> QED
    BY <2>1, <2>2, FS_CardinalityType
<1>6. Cardinality(R \cup {h}) = Cardinality(R) + 1
  BY <1>4, <1>5, FS_AddElement
<1>7. /\ h \in A <=> Waits(f[h], w, s)
      /\ h \in B <=> Waits(q, w, s)
  BY <1>3 DEF WaitingIn
<1>8. Cardinality(A) = Cardinality(R) + One(Waits(f[h], w, s))
  <2>1. CASE h \in A
    <3>1. A = R \cup {h} /\ One(Waits(f[h], w, s)) = 1
      BY <1>3, <1>7, <2>1 DEF One
    <3> QED
      BY <1>6, <3>1
  <2>2. CASE h \notin A
    <3>1. A = R /\ One(Waits(f[h], w, s)) = 0
      BY <1>3, <1>7, <2>2 DEF One
    <3> QED
      BY <1>5, <3>1
  <2> QED
    BY <2>1, <2>2
<1>9. Cardinality(B) = Cardinality(R) + One(Waits(q, w, s))
  <2>1. CASE h \in B
    <3>1. B = R \cup {h} /\ One(Waits(q, w, s)) = 1
      BY <1>4, <1>7, <2>1 DEF One
    <3> QED
      BY <1>6, <3>1
  <2>2. CASE h \notin B
    <3>1. B = R /\ One(Waits(q, w, s)) = 0
      BY <1>4, <1>7, <2>2 DEF One
    <3> QED
      BY <1>5, <3>1
  <2> QED
    BY <2>1, <2>2
<1>10. One(Waits(f[h], w, s)) \in Nat /\ One(Waits(q, w, s)) \in Nat
  BY DEF One
<1> QED
  BY <1>3, <1>5, <1>8, <1>9, <1>10

-----------------------------------------------------------------------------
(***************************************************************************)
(* The limiter on Redis                                                    *)
(***************************************************************************)
\* What a subject may have passed that was counted for all in window w: until the window is
\* over, what its keys of this window and of the one before have spent.
Before(cs, w, s) == IF w = 0 THEN 0 ELSE Spent(cs[w - 1][s], w - 1)
Sole(cs, t, w, s) ==
    IF w < WindowAt(t) THEN 3 * PerIp ELSE Spent(cs[w][s], w) + Before(cs, w, s)

RedisInv ==
    /\ LimiterTypes
    /\ counters \in [TheWindows -> [Everybody -> CounterType]]
    /\ \A h \in Handlers : handler[h].at # "idle" => now <= handler[h].since + Wait
    /\ \A w \in TheWindows : \A k \in Everybody : CounterOK(counters[w][k], w, now)
    /\ \A w \in TheWindows : \A s \in Subjects : passed[s][w] <= Spent(counters[w][s], w)
    /\ \A w \in TheWindows : \A s \in Subjects : charged[w] \subseteq {s} =>
          counters[w]["global"].count + Cardinality(WaitingIn(handler, w, s))
              <= Sole(counters, now, w, s)
    /\ \A h \in Handlers : handler[h].at = "close" => Two(charged[WindowAt(handler[h].since)])

\* A window's bound for one subject, whether the window is over or not.
LEMMA SoleBounds ==
    ASSUME NEW cs \in [TheWindows -> [Everybody -> CounterType]], NEW t \in 0 .. MaxTime,
           \A w \in TheWindows : \A k \in Everybody : CounterOK(cs[w][k], w, t),
           NEW w \in TheWindows, NEW s \in Subjects
    PROVE  /\ Sole(cs, t, w, s) \in Nat
           /\ w <= WindowAt(t) => Sole(cs, t, w, s) <= 3 * PerIp
           /\ Spent(cs[w][s], w) \in Nat
<1>1. /\ PerIp \in Nat /\ Window \in Nat \ {0} /\ t \in Nat /\ t <= MaxTime /\ w \in Nat
      /\ cs[w][s] \in CounterType
  BY StoresAssumption, OperationAssumption DEF TheWindows, Everybody
<1>2. WindowAt(t) \in Nat /\ t < EndAt(WindowAt(t)) /\ EndAt(w) \in Nat
  BY <1>1, WindowFacts
<1>3. w = WindowAt(t) => ~Late(cs[w][s], w)
  <2>1. cs[w][s].count = 0 => cs[w][s].expires = 0
    BY DEF CounterOK, Everybody
  <2>2. cs[w][s].count > 0 => cs[w][s].expires <= t + Window
    BY DEF CounterOK, Everybody
  <2>3. cs[w][s].count \in Nat /\ cs[w][s].expires \in Nat
    BY <1>1 DEF CounterType
  <2>4. cs[w][s].expires <= t + Window
    BY <1>1, <2>1, <2>2, <2>3
  <2> QED
    BY <1>1, <1>2, <2>3, <2>4 DEF Late
<1>4. Spent(cs[w][s], w) \in Nat /\ (w = WindowAt(t) => Spent(cs[w][s], w) <= PerIp)
  BY <1>1, <1>3, SpentBounds
<1>5. Before(cs, w, s) \in Nat /\ Before(cs, w, s) <= 2 * PerIp
  <2>1. CASE w = 0
    BY <1>1, <2>1 DEF Before
  <2>2. CASE w # 0
    <3>1. w - 1 \in TheWindows /\ w - 1 \in Nat
      BY <1>1, <2>2, WindowOrder DEF TheWindows
    <3>2. cs[w - 1][s] \in CounterType
      BY <3>1 DEF Everybody
    <3> QED
      BY <2>2, <3>1, <3>2, SpentBounds DEF Before
  <2> QED
    BY <2>1, <2>2
<1> QED
  BY <1>1, <1>2, <1>4, <1>5 DEF Sole

\* Counting in Redis is what CountsUp says.
LEMMA RedisCounted ==
    ASSUME RedisInv, NEW v \in TheWindows, NEW k \in Everybody
    PROVE  CountsUp(counters[v][k], Redis!Counted(v, k), now)
<1>1. counters[v][k] \in CounterType /\ CounterOK(counters[v][k], v, now) /\ now \in Nat
  BY OperationAssumption DEF RedisInv, LimiterTypes
<1>2. PICK c : c = counters[v][k]
  OBVIOUS
<1>3. c.count \in Nat /\ c.expires \in Nat /\ (c.count = 0 => c.expires = 0)
  BY <1>1, <1>2 DEF CounterType, CounterOK
<1>4. CASE c.expires <= now
  <2>1. Redis!Counter(v, k).count = 0
    BY <1>2, <1>3, <1>4, <1>1 DEF Redis!Counter
  <2> QED
    BY <1>2, <1>4, <2>1 DEF Redis!Counted, CountsUp
<1>5. CASE ~(c.expires <= now)
  <2>1. Redis!Counter(v, k) = c /\ c.count # 0
    BY <1>2, <1>3, <1>5, <1>1 DEF Redis!Counter
  <2> QED
    BY <1>2, <1>5, <2>1 DEF Redis!Counted, CountsUp
<1> QED
  BY <1>4, <1>5

LEMMA RedisRetry == \A t, u \in Nat : Redis!Retry(t, u) \in Nat
<1> SUFFICES ASSUME NEW t \in Nat, NEW u \in Nat PROVE Redis!Retry(t, u) \in Nat
  OBVIOUS
<1>1. PICK m \in {1, u - t} : \A y \in {1, u - t} : m >= y
  <2>1. CASE u - t >= 1
    BY <2>1
  <2>2. CASE ~(u - t >= 1)
    BY <2>2
  <2> QED
    BY <2>1, <2>2
<1>2. Redis!Max({1, u - t}) \in {1, u - t} /\ \A y \in {1, u - t} : Redis!Max({1, u - t}) >= y
  BY <1>1 DEF Redis!Max
<1> QED
  BY <1>2 DEF Redis!Retry

IdleRecord == [at |-> "idle", replica |-> "none", subject |-> "none", since |-> 0, retry |-> 0]

LEMMA IdleHandler == IdleRecord \in HandlerType /\ IdleRecord.at = "idle" /\ Redis!Idle = IdleRecord /\ Local!Idle = IdleRecord
BY DEF IdleRecord, HandlerType, Redis!Idle, Local!Idle

\* A request of which the limit of its subject is asked, and one that is counted for all.
SubjectCounted(h, s, v, d, q) ==
    /\ CountsUp(counters[v][s], d, now)
    /\ counters' = [counters EXCEPT ![v][s] = d]
    /\ passed' = [passed EXCEPT ![s][v] = IF d.count <= PerIp THEN @ + 1 ELSE @]
    /\ handler' = [handler EXCEPT ![h] = q]
    /\ IF d.count <= PerIp THEN q.at = "global" /\ q.subject = s /\ q.since = now
                           ELSE q.at = "idle"

GlobalCounted(h, s, v, d, q) ==
    /\ CountsUp(counters[v]["global"], d, now)
    /\ counters' = [counters EXCEPT ![v]["global"] = d]
    /\ charged' = [charged EXCEPT ![v] = @ \cup {s}]
    /\ handler' = [handler EXCEPT ![h] = q]
    /\ IF d.count <= SharedGlobal THEN q.at = "idle"
       ELSE q.at = "close" /\ q.subject = s /\ q.since = handler[h].since

LEMMA RedisAsksSubject ==
    ASSUME RedisInv, NEW h \in Handlers, Redis!CountSubject(h),
           NEW s, s = handler[h].subject, NEW v, v = WindowAt(handler[h].since)
    PROVE  /\ handler[h].at = "subject" /\ s \in Subjects /\ v \in TheWindows
           /\ \E d \in CounterType, q \in HandlerType : SubjectCounted(h, s, v, d, q)
           /\ UNCHANGED <<now, charged>>
<1>1. /\ handler[h].at = "subject" /\ s \in Subjects /\ handler[h] \in HandlerType
      /\ handler[h].since \in 0 .. MaxTime /\ now \in Nat
  BY OperationAssumption DEF Redis!CountSubject, RedisInv, LimiterTypes, HandlerType
<1>2. v \in TheWindows
  BY <1>1, WindowOrder
<1>3. PICK d : d = Redis!Counted(v, s)
  OBVIOUS
<1>4. CountsUp(counters[v][s], d, now) /\ d \in CounterType
  <2>1. counters[v][s] \in CounterType /\ s \in Everybody
    BY <1>1, <1>2 DEF RedisInv, Everybody
  <2>2. CountsUp(counters[v][s], d, now)
    BY <1>2, <1>3, <2>1, RedisCounted
  <2> QED
    BY <1>1, <2>1, <2>2, CountsUpType
<1>5. /\ Redis!Consume(handler[h].since, s).counters = [counters EXCEPT ![v][s] = d]
      /\ Redis!Consume(handler[h].since, s).count = d.count
  BY <1>3 DEF Redis!Consume, Redis!WindowOf, WindowAt
<1>6. /\ counters' = [counters EXCEPT ![v][s] = d]
      /\ passed' = [passed EXCEPT ![s][v] = IF d.count <= PerIp THEN @ + 1 ELSE @]
      /\ UNCHANGED <<now, charged>>
  BY <1>5 DEF Redis!CountSubject, Redis!Record, Redis!Allowed, Redis!WindowOf, WindowAt
<1>7. PICK q : /\ handler' = [handler EXCEPT ![h] = q]
               /\ q = IF d.count <= PerIp THEN [handler[h] EXCEPT !.at = "global", !.since = now]
                                          ELSE IdleRecord
  BY <1>5, IdleHandler DEF Redis!CountSubject, Redis!CountedForAll, Redis!Allowed
<1>8. /\ q \in HandlerType
      /\ IF d.count <= PerIp THEN q.at = "global" /\ q.subject = s /\ q.since = now
                             ELSE q.at = "idle"
  BY <1>1, <1>7, IdleHandler DEF HandlerType
<1>9. SubjectCounted(h, s, v, d, q)
  BY <1>4, <1>6, <1>7, <1>8 DEF SubjectCounted
<1> QED
  BY <1>1, <1>2, <1>4, <1>6, <1>8, <1>9

LEMMA RedisAsksGlobal ==
    ASSUME RedisInv, NEW h \in Handlers, Redis!CountGlobal(h),
           NEW s, s = handler[h].subject, NEW v, v = WindowAt(handler[h].since)
    PROVE  /\ handler[h].at = "global" /\ s \in Subjects /\ v \in TheWindows
           /\ \E d \in CounterType, q \in HandlerType : GlobalCounted(h, s, v, d, q)
           /\ UNCHANGED <<now, passed>>
<1>1. /\ handler[h].at = "global" /\ s \in Subjects /\ handler[h] \in HandlerType
      /\ handler[h].since \in 0 .. MaxTime /\ now \in Nat
  BY OperationAssumption DEF Redis!CountGlobal, RedisInv, LimiterTypes, HandlerType
<1>2. v \in TheWindows
  BY <1>1, WindowOrder
<1>3. PICK d : d = Redis!Counted(v, "global")
  OBVIOUS
<1>4. CountsUp(counters[v]["global"], d, now) /\ d \in CounterType
  <2>1. counters[v]["global"] \in CounterType /\ "global" \in Everybody
    BY <1>2 DEF RedisInv, Everybody
  <2>2. CountsUp(counters[v]["global"], d, now)
    BY <1>2, <1>3, <2>1, RedisCounted
  <2> QED
    BY <1>1, <2>1, <2>2, CountsUpType
<1>5. d.expires \in Nat
  BY <1>4 DEF CounterType
<1>6. /\ Redis!Consume(handler[h].since, "global").counters = [counters EXCEPT ![v]["global"] = d]
      /\ Redis!Consume(handler[h].since, "global").count = d.count
      /\ Redis!Consume(handler[h].since, "global").retry = Redis!Retry(now, d.expires)
  BY <1>3 DEF Redis!Consume, Redis!WindowOf, WindowAt
<1>7. /\ counters' = [counters EXCEPT ![v]["global"] = d]
      /\ charged' = [charged EXCEPT ![v] = @ \cup {s}]
      /\ UNCHANGED <<now, passed>>
  BY <1>6 DEF Redis!CountGlobal, Redis!Record, Redis!AllSubjects, Redis!WindowOf, WindowAt
<1>8. PICK q : /\ handler' = [handler EXCEPT ![h] = q]
               /\ q = IF d.count <= SharedGlobal THEN IdleRecord
                      ELSE [handler[h] EXCEPT !.at = "close", !.retry = Redis!Retry(now, d.expires)]
  BY <1>6, IdleHandler DEF Redis!CountGlobal, Redis!Allowed, Redis!AllSubjects
<1>9. PICK m \in Nat : m = Redis!Retry(now, d.expires)
  BY <1>1, <1>5, RedisRetry
<1>10. /\ q \in HandlerType
       /\ IF d.count <= SharedGlobal THEN q.at = "idle"
          ELSE q.at = "close" /\ q.subject = s /\ q.since = handler[h].since
  BY <1>1, <1>8, <1>9, IdleHandler DEF HandlerType
<1>11. GlobalCounted(h, s, v, d, q)
  BY <1>4, <1>7, <1>8, <1>10 DEF GlobalCounted
<1> QED
  BY <1>1, <1>2, <1>4, <1>7, <1>10, <1>11

\* A request that is counted within Wait is counted in its window or in the next.
LEMMA NearWindow ==
    ASSUME NEW since \in Nat, NEW t \in Nat, since <= t, t <= since + Wait
    PROVE  WindowAt(since) = WindowAt(t) \/ WindowAt(since) + 1 = WindowAt(t)
<1>1. /\ Window \in Nat \ {0} /\ Wait \in Nat /\ Wait <= Window
  BY StoresAssumption
<1>2. PICK v \in Nat, w \in Nat : v = WindowAt(since) /\ w = WindowAt(t)
  BY WindowFacts
<1>3. v <= w
  BY <1>2, WindowOrder
<1>4. EndAt(v) \in Nat /\ since < EndAt(v) /\ EndAt(w) <= t + Window /\ EndAt(w) \in Nat
  BY <1>2, WindowFacts
<1>5. v + 1 < w => EndAt(v) + Window + Window <= EndAt(w)
  <2> SUFFICES ASSUME v + 1 < w PROVE EndAt(v) + Window + Window <= EndAt(w)
    OBVIOUS
  <2>1. EndAt(v + 1) = EndAt(v) + Window
    BY WindowFacts
  <2>2. PICK u \in Nat : u = v + 1
    OBVIOUS
  <2>3. EndAt(u) + Window <= EndAt(w)
    BY <2>2, WindowOrder
  <2> QED
    BY <2>1, <2>2, <2>3
<1>6. ~(v + 1 < w)
  BY <1>1, <1>4, <1>5
<1> QED
  BY <1>2, <1>3, <1>6

LEMMA HandlerMoves ==
    ASSUME LimiterTypes, NEW h \in Handlers, NEW q \in HandlerType,
           handler' = [handler EXCEPT ![h] = q], UNCHANGED now,
           q.at # "idle" => q.subject \in Subjects /\ q.since <= now
    PROVE  /\ now' \in 0 .. MaxTime
           /\ handler' \in [Handlers -> HandlerType]
           /\ \A i \in Handlers : handler'[i].at # "idle" =>
                 handler'[i].subject \in Subjects /\ handler'[i].since <= now'
           /\ handler'[h] = q /\ \A i \in Handlers \ {h} : handler'[i] = handler[i]
BY DEF LimiterTypes

\* The keys of one subject have spent more, and what may be counted for it with them.
LEMMA SoleGrows ==
    ASSUME NEW cs \in [TheWindows -> [Everybody -> CounterType]],
           NEW v \in TheWindows, NEW s \in Subjects, NEW d \in CounterType, NEW more \in Nat,
           Spent(d, v) >= Spent(cs[v][s], v) + more,
           NEW t \in 0 .. MaxTime, NEW w \in TheWindows, NEW r \in Subjects
    PROVE  LET ds == [cs EXCEPT ![v][s] = d]
           IN  /\ Sole(cs, t, w, r) \in Nat /\ Sole(ds, t, w, r) \in Nat
               /\ Sole(ds, t, w, r) >= Sole(cs, t, w, r)
               /\ r = s /\ w = WindowAt(t) /\ (v = w \/ v + 1 = w)
                     => Sole(ds, t, w, r) >= Sole(cs, t, w, r) + more
<1>1. PICK ds : ds = [cs EXCEPT ![v][s] = d]
  OBVIOUS
<1>2. /\ PerIp \in Nat /\ w \in Nat /\ v \in Nat /\ WindowAt(t) \in Nat
  <2>1. WindowAt(MaxTime) \in Nat /\ PerIp \in Nat /\ t \in Nat
    BY StoresAssumption, OperationAssumption, WindowOrder
  <2> QED
    BY <2>1, WindowFacts DEF TheWindows
<1>3. ds \in [TheWindows -> [Everybody -> CounterType]]
  BY <1>1 DEF Everybody
<1>4. \A u \in TheWindows : \A p \in Subjects : ds[u][p] = IF u = v /\ p = s THEN d ELSE cs[u][p]
  BY <1>1 DEF Everybody
<1>5. ASSUME NEW u \in TheWindows
      PROVE  /\ Spent(cs[u][r], u) \in Nat /\ Spent(ds[u][r], u) \in Nat
             /\ Spent(ds[u][r], u) >= Spent(cs[u][r], u) + (IF u = v /\ r = s THEN more ELSE 0)
  <2>1. u \in Nat /\ cs[u][r] \in CounterType /\ ds[u][r] \in CounterType
    <3>1. u \in Nat
      BY WindowOrder DEF TheWindows
    <3> QED
      BY <3>1, <1>3 DEF Everybody
  <2>2. Spent(cs[u][r], u) \in Nat /\ Spent(ds[u][r], u) \in Nat
    BY <2>1, SpentBounds
  <2> QED
    BY <1>4, <2>2
<1>6. /\ Before(cs, w, r) \in Nat /\ Before(ds, w, r) \in Nat
      /\ Before(ds, w, r) >= Before(cs, w, r) + (IF v + 1 = w /\ r = s THEN more ELSE 0)
  <2>1. CASE w = 0
    BY <1>2, <2>1 DEF Before
  <2>2. CASE w # 0
    <3>1. w - 1 \in TheWindows
      BY <1>2, <2>2, WindowOrder DEF TheWindows
    <3>2. (w - 1 = v) <=> (v + 1 = w)
      BY <1>2
    <3> QED
      BY <1>5, <2>2, <3>1, <3>2 DEF Before
  <2> QED
    BY <2>1, <2>2
<1>7. CASE w < WindowAt(t)
  <2>1. Sole(cs, t, w, r) = 3 * PerIp /\ Sole(ds, t, w, r) = 3 * PerIp /\ w # WindowAt(t)
    BY <1>2, <1>7 DEF Sole
  <2> QED
    BY <1>1, <1>2, <2>1
<1>8. CASE ~(w < WindowAt(t))
  <2>1. /\ Sole(cs, t, w, r) = Spent(cs[w][r], w) + Before(cs, w, r)
        /\ Sole(ds, t, w, r) = Spent(ds[w][r], w) + Before(ds, w, r)
    BY <1>8 DEF Sole
  <2>2. /\ Spent(cs[w][r], w) \in Nat /\ Spent(ds[w][r], w) \in Nat
        /\ Spent(ds[w][r], w) >= Spent(cs[w][r], w) + (IF w = v /\ r = s THEN more ELSE 0)
    BY <1>5
  <2>3. /\ Sole(cs, t, w, r) \in Nat /\ Sole(ds, t, w, r) \in Nat
        /\ Sole(ds, t, w, r) >= Sole(cs, t, w, r)
        /\ r = s /\ (v = w \/ v + 1 = w) => Sole(ds, t, w, r) >= Sole(cs, t, w, r) + more
    BY <1>2, <1>6, <2>1, <2>2
  <2> QED
    BY <1>1, <2>3
<1> QED
  BY <1>7, <1>8

LEMMA RedisSubjectStep ==
    ASSUME RedisInv, NEW h \in Handlers, Redis!CountSubject(h)
    PROVE  RedisInv'
<1>1. PICK s, v, c : /\ s = handler[h].subject /\ v = WindowAt(handler[h].since)
                     /\ c = counters[v][s]
  OBVIOUS
<1>2. /\ handler[h].at = "subject" /\ s \in Subjects /\ v \in TheWindows
      /\ UNCHANGED <<now, charged>>
  BY <1>1, RedisAsksSubject
<1>d. PICK d \in CounterType, q \in HandlerType : SubjectCounted(h, s, v, d, q)
  BY <1>1, RedisAsksSubject
<1>3. /\ CountsUp(counters[v][s], d, now)
      /\ counters' = [counters EXCEPT ![v][s] = d]
      /\ passed' = [passed EXCEPT ![s][v] = IF d.count <= PerIp THEN @ + 1 ELSE @]
      /\ handler' = [handler EXCEPT ![h] = q]
      /\ IF d.count <= PerIp THEN q.at = "global" /\ q.subject = s /\ q.since = now
                             ELSE q.at = "idle"
  BY <1>d DEF SubjectCounted
<1>4. /\ LimiterTypes /\ now \in Nat /\ now \in 0 .. MaxTime /\ c \in CounterType /\ s \in Everybody
      /\ handler \in [Handlers -> HandlerType]
      /\ handler[h].since \in Nat /\ handler[h].since <= now /\ now <= handler[h].since + Wait
      /\ CounterOK(c, v, now) /\ PerIp \in Nat /\ s # "global"
  BY <1>1, <1>2, OperationAssumption, StoresAssumption
     DEF RedisInv, LimiterTypes, HandlerType, Everybody
<1>5. /\ CounterOK(d, v, now)
      /\ Spent(d, v) >= Spent(c, v) + One(d.count <= PerIp)
  BY <1>1, <1>3, <1>4, Recounted DEF One
<1>6. q.at # "idle" => q.subject \in Subjects /\ q.since <= now
  BY <1>2, <1>3, <1>4
<1>7. /\ handler' \in [Handlers -> HandlerType] /\ now' \in 0 .. MaxTime
      /\ \A i \in Handlers : handler'[i].at # "idle" =>
            handler'[i].subject \in Subjects /\ handler'[i].since <= now'
      /\ handler'[h] = q /\ \A i \in Handlers \ {h} : handler'[i] = handler[i]
  BY <1>2, <1>3, <1>4, <1>6, HandlerMoves
<1>8. /\ counters' \in [TheWindows -> [Everybody -> CounterType]]
      /\ \A w \in TheWindows : \A k \in Everybody :
            counters'[w][k] = IF w = v /\ k = s THEN d ELSE counters[w][k]
  BY <1>2, <1>3, <1>4 DEF RedisInv
<1>9. /\ passed' \in [Subjects -> [TheWindows -> Nat]]
      /\ \A w \in TheWindows : \A r \in Subjects :
            passed'[r][w] = passed[r][w] + One(w = v /\ r = s /\ d.count <= PerIp)
  <2>1. passed \in [Subjects -> [TheWindows -> Nat]]
    BY <1>4 DEF LimiterTypes
  <2>2. PICK n \in Nat : n = IF d.count <= PerIp THEN passed[s][v] + 1 ELSE passed[s][v]
    BY <1>2, <2>1
  <2>3. passed' = [passed EXCEPT ![s][v] = n]
    BY <1>3, <2>2
  <2>4. passed' \in [Subjects -> [TheWindows -> Nat]]
    BY <1>2, <2>1, <2>3
  <2>5. ASSUME NEW w \in TheWindows, NEW r \in Subjects
        PROVE  passed'[r][w] = passed[r][w] + One(w = v /\ r = s /\ d.count <= PerIp)
    <3>1. passed'[r][w] = IF w = v /\ r = s THEN n ELSE passed[r][w]
      BY <1>2, <2>1, <2>3
    <3>2. passed[r][w] \in Nat
      BY <2>1
    <3> QED
      BY <2>2, <3>1, <3>2 DEF One
  <2> QED
    BY <2>4, <2>5
<1>10. LimiterTypes'
  BY <1>2, <1>7, <1>9, <1>4 DEF LimiterTypes
<1>11. \A i \in Handlers : handler'[i].at # "idle" => now' <= handler'[i].since + Wait
  <2>1. q.at # "idle" => now <= q.since + Wait
    BY <1>3, <1>4, StoresAssumption
  <2> QED
    BY <1>2, <1>7, <2>1 DEF RedisInv
<1>12. \A w \in TheWindows : \A k \in Everybody : CounterOK(counters'[w][k], w, now')
  BY <1>2, <1>5, <1>8 DEF RedisInv
<1>13. ASSUME NEW w \in TheWindows, NEW r \in Subjects
       PROVE  passed'[r][w] <= Spent(counters'[w][r], w)
  <2>1. passed[r][w] <= Spent(counters[w][r], w) /\ passed[r][w] \in Nat
    BY <1>4 DEF RedisInv, LimiterTypes
  <2>2. Spent(counters[w][r], w) \in Nat /\ Spent(counters'[w][r], w) \in Nat
    BY <1>2, <1>4, <1>8, <1>12, SoleBounds DEF RedisInv
  <2>3. CASE w = v /\ r = s
    BY <1>1, <1>5, <1>8, <1>9, <2>1, <2>2, <2>3, <1>4 DEF One
  <2>4. CASE ~(w = v /\ r = s)
    <3>1. counters'[w][r] = counters[w][r]
      BY <1>8, <2>4 DEF Everybody
    <3> QED
      BY <1>9, <2>1, <2>4, <3>1 DEF One
  <2> QED
    BY <2>3, <2>4
<1>14. ASSUME NEW w \in TheWindows, NEW r \in Subjects, charged'[w] \subseteq {r}
       PROVE  counters'[w]["global"].count + Cardinality(WaitingIn(handler', w, r))
                  <= Sole(counters', now', w, r)
  <2>1. /\ counters[w]["global"].count + Cardinality(WaitingIn(handler, w, r))
               <= Sole(counters, now, w, r)
        /\ counters[w]["global"].count \in Nat
        /\ counters'[w]["global"] = counters[w]["global"]
    BY <1>2, <1>4, <1>8, <1>14 DEF RedisInv, Everybody, CounterType
  <2>2. ~Waits(handler[h], w, r)
    BY <1>2 DEF Waits
  <2>3. /\ Cardinality(WaitingIn(handler', w, r))
              = Cardinality(WaitingIn(handler, w, r)) + One(Waits(q, w, r))
        /\ Cardinality(WaitingIn(handler, w, r)) \in Nat
        /\ Cardinality(WaitingIn(handler', w, r)) \in Nat
    <3>1. Cardinality(WaitingIn(handler', w, r)) + One(Waits(handler[h], w, r))
              = Cardinality(WaitingIn(handler, w, r)) + One(Waits(q, w, r))
      BY <1>7, WaitingMoves
    <3>2. /\ Cardinality(WaitingIn(handler, w, r)) \in Nat
          /\ Cardinality(WaitingIn(handler', w, r)) \in Nat
      BY WaitingCounts
    <3> QED
      BY <1>3, <2>2, <3>1, <3>2 DEF One
  <2>4. Waits(q, w, r) => d.count <= PerIp /\ r = s /\ w = WindowAt(now)
    BY <1>3 DEF Waits
  <2>5. v = WindowAt(now) \/ v + 1 = WindowAt(now)
    BY <1>1, <1>4, NearWindow
  <2>6. /\ Sole(counters, now, w, r) \in Nat /\ Sole(counters', now, w, r) \in Nat
        /\ Sole(counters', now, w, r) >= Sole(counters, now, w, r)
        /\ r = s /\ w = WindowAt(now) /\ (v = w \/ v + 1 = w)
              => Sole(counters', now, w, r) >= Sole(counters, now, w, r) + One(d.count <= PerIp)
    <3>1. One(d.count <= PerIp) \in Nat /\ counters \in [TheWindows -> [Everybody -> CounterType]]
      BY DEF One, RedisInv
    <3> QED
      BY <1>1, <1>2, <1>3, <1>4, <1>5, <3>1, SoleGrows
  <2> QED
    BY <1>2, <2>1, <2>3, <2>4, <2>5, <2>6 DEF One
<1>15. \A i \in Handlers :
           handler'[i].at = "close" => Two(charged'[WindowAt(handler'[i].since)])
  BY <1>2, <1>3, <1>7 DEF RedisInv
<1> QED
  BY <1>8, <1>10, <1>11, <1>12, <1>13, <1>14, <1>15 DEF RedisInv

LEMMA RedisGlobalStep ==
    ASSUME RedisInv, NEW h \in Handlers, Redis!CountGlobal(h)
    PROVE  RedisInv'
<1>1. PICK s, v, c : /\ s = handler[h].subject /\ v = WindowAt(handler[h].since)
                     /\ c = counters[v]["global"]
  OBVIOUS
<1>2. /\ handler[h].at = "global" /\ s \in Subjects /\ v \in TheWindows
      /\ UNCHANGED <<now, passed>>
  BY <1>1, RedisAsksGlobal
<1>d. PICK d \in CounterType, q \in HandlerType : GlobalCounted(h, s, v, d, q)
  BY <1>1, RedisAsksGlobal
<1>3. /\ CountsUp(counters[v]["global"], d, now)
      /\ counters' = [counters EXCEPT ![v]["global"] = d]
      /\ charged' = [charged EXCEPT ![v] = @ \cup {s}]
      /\ handler' = [handler EXCEPT ![h] = q]
      /\ IF d.count <= SharedGlobal THEN q.at = "idle"
         ELSE q.at = "close" /\ q.subject = s /\ q.since = handler[h].since
  BY <1>d DEF GlobalCounted
<1>4. /\ LimiterTypes /\ now \in Nat /\ now \in 0 .. MaxTime /\ c \in CounterType
      /\ "global" \in Everybody
      /\ handler \in [Handlers -> HandlerType]
      /\ handler[h].since \in Nat /\ handler[h].since <= now /\ now <= handler[h].since + Wait
      /\ CounterOK(c, v, now) /\ PerIp \in Nat /\ s # "global"
      /\ SharedGlobal \in Nat /\ SharedGlobal >= 3 * PerIp
      /\ c.count \in Nat /\ d.count \in Nat
      /\ v <= WindowAt(now)
  <2>1. /\ LimiterTypes /\ now \in Nat /\ now \in 0 .. MaxTime /\ c \in CounterType
        /\ "global" \in Everybody
        /\ handler \in [Handlers -> HandlerType]
        /\ handler[h].since \in Nat /\ handler[h].since <= now /\ now <= handler[h].since + Wait
        /\ CounterOK(c, v, now)
    BY <1>1, <1>2, OperationAssumption DEF RedisInv, LimiterTypes, HandlerType, Everybody
  <2>2. v <= WindowAt(now)
    BY <1>1, <2>1, WindowOrder
  <2>3. c.count \in Nat /\ d.count \in Nat
    BY <2>1 DEF CounterType
  <2> QED
    BY <1>2, <2>1, <2>2, <2>3, StoresAssumption
<1>5. CounterOK(d, v, now) /\ d.count <= c.count + 1
  BY <1>1, <1>3, <1>4, Recounted
<1>6. q.at # "idle" => q.subject \in Subjects /\ q.since <= now
  BY <1>2, <1>3, <1>4
<1>7. /\ handler' \in [Handlers -> HandlerType] /\ now' \in 0 .. MaxTime
      /\ \A i \in Handlers : handler'[i].at # "idle" =>
            handler'[i].subject \in Subjects /\ handler'[i].since <= now'
      /\ handler'[h] = q /\ \A i \in Handlers \ {h} : handler'[i] = handler[i]
  BY <1>2, <1>3, <1>4, <1>6, HandlerMoves
<1>8. /\ counters' \in [TheWindows -> [Everybody -> CounterType]]
      /\ \A w \in TheWindows : \A k \in Everybody :
            counters'[w][k] = IF w = v /\ k = "global" THEN d ELSE counters[w][k]
  BY <1>2, <1>3, <1>4 DEF RedisInv
<1>9. /\ charged' \in [TheWindows -> SUBSET Subjects]
      /\ \A w \in TheWindows : charged'[w] = IF w = v THEN charged[w] \cup {s} ELSE charged[w]
      /\ \A w \in TheWindows : IsFiniteSet(charged'[w])
  <2>1. charged \in [TheWindows -> SUBSET Subjects] /\ IsFiniteSet(charged[v])
    BY <1>2, <1>4 DEF LimiterTypes
  <2>2. IsFiniteSet(charged[v] \cup {s})
    BY <2>1, FS_AddElement
  <2>3. /\ charged' \in [TheWindows -> SUBSET Subjects]
        /\ \A w \in TheWindows : charged'[w] = IF w = v THEN charged[w] \cup {s} ELSE charged[w]
    BY <1>2, <1>3, <2>1
  <2> QED
    BY <1>4, <2>2, <2>3 DEF LimiterTypes
<1>10. LimiterTypes'
  BY <1>2, <1>4, <1>7, <1>9 DEF LimiterTypes
<1>11. \A i \in Handlers : handler'[i].at # "idle" => now' <= handler'[i].since + Wait
  BY <1>2, <1>3, <1>4, <1>7 DEF RedisInv
<1>12. \A w \in TheWindows : \A k \in Everybody : CounterOK(counters'[w][k], w, now')
  BY <1>2, <1>5, <1>8 DEF RedisInv
<1>13. ASSUME NEW w \in TheWindows, NEW r \in Subjects
       PROVE  /\ counters'[w][r] = counters[w][r]
              /\ Sole(counters', now', w, r) = Sole(counters, now, w, r)
  <2>1. r # "global" /\ r \in Everybody
    BY StoresAssumption DEF Everybody
  <2>2. \A u \in TheWindows : counters'[u][r] = counters[u][r]
    BY <1>8, <2>1
  <2>3. w # 0 => w - 1 \in TheWindows
    BY WindowOrder DEF TheWindows
  <2> QED
    BY <1>2, <2>2, <2>3 DEF Sole, Before
<1>14. \A w \in TheWindows : \A r \in Subjects : passed'[r][w] <= Spent(counters'[w][r], w)
  BY <1>2, <1>13 DEF RedisInv
<1>15. ASSUME NEW w \in TheWindows, NEW r \in Subjects, charged[w] \subseteq {r}
       PROVE  /\ counters[w]["global"].count + Cardinality(WaitingIn(handler, w, r))
                     <= Sole(counters, now, w, r)
              /\ Cardinality(WaitingIn(handler', w, r)) + One(Waits(handler[h], w, r))
                     = Cardinality(WaitingIn(handler, w, r))
              /\ Cardinality(WaitingIn(handler, w, r)) \in Nat
              /\ Cardinality(WaitingIn(handler', w, r)) \in Nat
  <2>1. counters[w]["global"].count + Cardinality(WaitingIn(handler, w, r))
            <= Sole(counters, now, w, r)
    BY <1>15 DEF RedisInv
  <2>2. Cardinality(WaitingIn(handler', w, r)) + One(Waits(handler[h], w, r))
            = Cardinality(WaitingIn(handler, w, r)) + One(Waits(q, w, r))
    BY <1>7, WaitingMoves
  <2>3. One(Waits(q, w, r)) = 0
    BY <1>3 DEF Waits, One
  <2>4. /\ Cardinality(WaitingIn(handler, w, r)) \in Nat
        /\ Cardinality(WaitingIn(handler', w, r)) \in Nat
    BY WaitingCounts
  <2>5. One(Waits(handler[h], w, r)) \in Nat
    BY DEF One
  <2> QED
    BY <2>1, <2>2, <2>3, <2>4, <2>5
<1>16. Waits(handler[h], v, s)
  BY <1>1, <1>2 DEF Waits
<1>17. ASSUME NEW w \in TheWindows, NEW r \in Subjects, charged'[w] \subseteq {r}
       PROVE  counters'[w]["global"].count + Cardinality(WaitingIn(handler', w, r))
                  <= Sole(counters', now', w, r)
  <2>1. charged[w] \subseteq {r} /\ (w = v => r = s)
    BY <1>9, <1>17
  <2>2. counters[w]["global"].count \in Nat
    BY <1>4 DEF RedisInv, CounterType
  <2>3. Sole(counters, now, w, r) \in Nat
    BY <1>4, SoleBounds DEF RedisInv
  <2>4. CASE w = v
    <3>1. One(Waits(handler[h], w, r)) = 1
      BY <1>16, <2>1, <2>4 DEF One
    <3>2. counters'[w]["global"].count <= counters[w]["global"].count + 1
          /\ counters'[w]["global"].count \in Nat
      BY <1>1, <1>4, <1>5, <1>8, <2>4
    <3> QED
      BY <1>13, <1>15, <2>1, <2>2, <2>3, <3>1, <3>2
  <2>5. CASE w # v
    <3>1. counters'[w]["global"] = counters[w]["global"]
      BY <1>4, <1>8, <2>5
    <3>2. One(Waits(handler[h], w, r)) \in Nat
      BY DEF One
    <3> QED
      BY <1>13, <1>15, <2>1, <2>2, <2>3, <3>1, <3>2
  <2> QED
    BY <2>4, <2>5
<1>18. q.at = "close" => Two(charged'[v])
  <2> SUFFICES ASSUME q.at = "close", ~Two(charged'[v]) PROVE FALSE
    OBVIOUS
  <2>1. charged'[v] \subseteq {s}
    BY <1>2, <1>9 DEF Two
  <2>2. charged[v] \subseteq {s}
    BY <1>2, <1>9, <2>1
  <2>3. /\ c.count + Cardinality(WaitingIn(handler, v, s)) <= Sole(counters, now, v, s)
        /\ Cardinality(WaitingIn(handler', v, s)) + 1 = Cardinality(WaitingIn(handler, v, s))
        /\ Cardinality(WaitingIn(handler, v, s)) \in Nat
        /\ Cardinality(WaitingIn(handler', v, s)) \in Nat
    <3>1. One(Waits(handler[h], v, s)) = 1
      BY <1>16 DEF One
    <3> QED
      BY <1>1, <1>2, <1>15, <2>2, <3>1
  <2>4. Sole(counters, now, v, s) \in Nat /\ Sole(counters, now, v, s) <= 3 * PerIp
    BY <1>2, <1>4, SoleBounds DEF RedisInv
  <2>5. d.count > SharedGlobal
    BY <1>3, <1>4
  <2> QED
    BY <1>4, <1>5, <2>3, <2>4, <2>5
<1>19. \A i \in Handlers :
           handler'[i].at = "close" => Two(charged'[WindowAt(handler'[i].since)])
  <2>1. ASSUME NEW w \in TheWindows, Two(charged[w]) PROVE Two(charged'[w])
    BY <1>9, <2>1 DEF Two
  <2>2. \A i \in Handlers : handler[i].at # "idle" => WindowAt(handler[i].since) \in TheWindows
    <3> SUFFICES ASSUME NEW i \in Handlers, handler[i].at # "idle"
                 PROVE  WindowAt(handler[i].since) \in TheWindows
      OBVIOUS
    <3>1. handler[i].since \in Nat /\ handler[i].since <= now /\ MaxTime \in Nat
      BY <1>4, OperationAssumption DEF LimiterTypes, HandlerType
    <3>2. handler[i].since \in 0 .. MaxTime
      BY <1>4, <3>1
    <3> QED
      BY <3>2, WindowOrder
  <2>3. ASSUME NEW i \in Handlers, handler'[i].at = "close"
        PROVE  Two(charged'[WindowAt(handler'[i].since)])
    <3>1. CASE i = h
      <4>1. q.at = "close" /\ WindowAt(q.since) = v
        BY <1>1, <1>3, <1>7, <2>3, <3>1
      <4> QED
        BY <1>7, <1>18, <3>1, <4>1
    <3>2. CASE i # h
      BY <1>7, <2>1, <2>2, <2>3, <3>2 DEF RedisInv
    <3> QED
      BY <3>1, <3>2
  <2> QED
    BY <2>3
<1> QED
  BY <1>8, <1>10, <1>11, <1>12, <1>14, <1>17, <1>19 DEF RedisInv

\* A handler takes a request or is done with one: nothing waits that did not.
TakesOrLeaves(h, q) ==
    /\ handler' = [handler EXCEPT ![h] = q]
    /\ q.at = "idle" \/ (q.at = "subject" /\ q.subject \in Subjects /\ q.since = now)

LEMMA RedisHandlerStep ==
    ASSUME RedisInv, NEW h \in Handlers, NEW q \in HandlerType, TakesOrLeaves(h, q),
           UNCHANGED <<now, counters, passed, charged>>
    PROVE  RedisInv'
<1>1. /\ LimiterTypes /\ now \in Nat /\ now \in 0 .. MaxTime
      /\ handler \in [Handlers -> HandlerType] /\ Wait \in Nat
      /\ handler' = [handler EXCEPT ![h] = q]
      /\ q.at = "idle" \/ (q.at = "subject" /\ q.subject \in Subjects /\ q.since = now)
  BY OperationAssumption, StoresAssumption DEF RedisInv, LimiterTypes, TakesOrLeaves
<1>c. q.at # "idle" => q.subject \in Subjects /\ q.since <= now
  BY <1>1
<1>2. /\ handler' \in [Handlers -> HandlerType] /\ now' \in 0 .. MaxTime
      /\ \A i \in Handlers : handler'[i].at # "idle" =>
            handler'[i].subject \in Subjects /\ handler'[i].since <= now'
      /\ handler'[h] = q /\ \A i \in Handlers \ {h} : handler'[i] = handler[i]
  BY <1>1, <1>c, HandlerMoves
<1>3. LimiterTypes'
  BY <1>1, <1>2 DEF LimiterTypes
<1>4. \A i \in Handlers : handler'[i].at # "idle" => now' <= handler'[i].since + Wait
  BY <1>1, <1>2 DEF RedisInv
<1>5. ASSUME NEW w \in TheWindows, NEW r \in Subjects
      PROVE  /\ Cardinality(WaitingIn(handler', w, r)) <= Cardinality(WaitingIn(handler, w, r))
             /\ Cardinality(WaitingIn(handler, w, r)) \in Nat
             /\ Cardinality(WaitingIn(handler', w, r)) \in Nat
  <2>1. Cardinality(WaitingIn(handler', w, r)) + One(Waits(handler[h], w, r))
            = Cardinality(WaitingIn(handler, w, r)) + One(Waits(q, w, r))
    BY <1>2, WaitingMoves
  <2>2. One(Waits(q, w, r)) = 0 /\ One(Waits(handler[h], w, r)) \in Nat
    BY <1>1 DEF Waits, One
  <2>3. /\ Cardinality(WaitingIn(handler, w, r)) \in Nat
        /\ Cardinality(WaitingIn(handler', w, r)) \in Nat
    BY WaitingCounts
  <2> QED
    BY <2>1, <2>2, <2>3
<1>6. ASSUME NEW w \in TheWindows, NEW r \in Subjects, charged'[w] \subseteq {r}
      PROVE  counters'[w]["global"].count + Cardinality(WaitingIn(handler', w, r))
                 <= Sole(counters', now', w, r)
  <2>1. counters[w]["global"].count + Cardinality(WaitingIn(handler, w, r))
            <= Sole(counters, now, w, r)
    BY <1>6 DEF RedisInv
  <2>2. counters[w]["global"].count \in Nat
    BY DEF RedisInv, CounterType, Everybody
  <2>3. Sole(counters, now, w, r) \in Nat
    BY <1>1, SoleBounds DEF RedisInv
  <2>4. counters' = counters /\ now' = now
    OBVIOUS
  <2>5. PICK m, n : m = Cardinality(WaitingIn(handler, w, r)) /\ n = Cardinality(WaitingIn(handler', w, r))
    OBVIOUS
  <2>6. m \in Nat /\ n \in Nat /\ n <= m
    BY <1>5, <2>5
  <2> QED
    BY <2>1, <2>2, <2>3, <2>4, <2>5, <2>6
<1>7. \A i \in Handlers :
          handler'[i].at = "close" => Two(charged'[WindowAt(handler'[i].since)])
  <2>1. q.at # "close"
    BY <1>1
  <2> QED
    BY <1>2, <2>1 DEF RedisInv
<1> QED
  BY <1>3, <1>4, <1>6, <1>7 DEF RedisInv

\* Time passes while every query is young: a window that is over keeps its bound.
LEMMA RedisTick ==
    ASSUME RedisInv, Redis!Tick
    PROVE  RedisInv'
<1>1. /\ LimiterTypes /\ now \in Nat /\ now' = now + 1 /\ now' \in 0 .. MaxTime
      /\ now \in 0 .. MaxTime
      /\ UNCHANGED <<counters, handler, passed, charged>>
      /\ PerIp \in Nat /\ Wait \in Nat
  BY OperationAssumption, StoresAssumption DEF RedisInv, LimiterTypes, Redis!Tick
<1>2. LimiterTypes'
  <2>1. ASSUME NEW h \in Handlers, handler[h].at # "idle"
        PROVE  handler[h].subject \in Subjects /\ handler[h].since <= now + 1
    <3>1. handler[h].since \in Nat
      BY <1>1 DEF LimiterTypes, HandlerType
    <3> QED
      BY <1>1, <2>1, <3>1 DEF LimiterTypes
  <2> QED
    BY <1>1, <2>1 DEF LimiterTypes
<1>3. ASSUME NEW h \in Handlers, handler[h].at # "idle" PROVE now + 1 <= handler[h].since + Wait
  <2>1. handler[h].since \in Nat
    BY <1>1 DEF LimiterTypes, HandlerType
  <2>2. now < handler[h].since + Wait
    BY <1>3, IdleHandler DEF Redis!Tick, Redis!Patience
  <2> QED
    BY <1>1, <2>1, <2>2
<1>4. ASSUME NEW w \in TheWindows, NEW k \in Everybody PROVE CounterOK(counters[w][k], w, now + 1)
  <2>1. counters[w][k] \in CounterType /\ CounterOK(counters[w][k], w, now)
    BY DEF RedisInv
  <2> QED
    BY <1>1, <2>1, WindowFacts DEF CounterOK, CounterType
<1>5. ASSUME NEW w \in TheWindows, NEW r \in Subjects
      PROVE  /\ Sole(counters, now, w, r) \in Nat /\ Sole(counters, now + 1, w, r) \in Nat
             /\ Sole(counters, now, w, r) <= Sole(counters, now + 1, w, r)
  <2>1. /\ Sole(counters, now, w, r) \in Nat
        /\ w <= WindowAt(now) => Sole(counters, now, w, r) <= 3 * PerIp
    BY <1>1, SoleBounds DEF RedisInv
  <2>2. now + 1 \in 0 .. MaxTime /\ now + 1 \in Nat
    BY <1>1
  <2>3. PICK u \in Nat : u = now + 1
    BY <2>2
  <2>4. Sole(counters, u, w, r) \in Nat
    <3>1. \A x \in TheWindows : \A k \in Everybody : CounterOK(counters[x][k], x, u)
      BY <1>4, <2>3
    <3> QED
      BY <2>2, <2>3, <3>1, SoleBounds DEF RedisInv
  <2>5. /\ WindowAt(now) \in Nat /\ WindowAt(u) \in Nat /\ WindowAt(now) <= WindowAt(u)
        /\ w \in Nat
    BY <1>1, <2>3, WindowFacts, WindowOrder DEF TheWindows
  <2>6. CASE w < WindowAt(u)
    <3>1. Sole(counters, u, w, r) = 3 * PerIp
      BY <2>6 DEF Sole
    <3>2. w <= WindowAt(now) \/ ~(w < WindowAt(now) \/ w = WindowAt(now))
      BY <2>5
    <3>3. w <= WindowAt(now)
      <4> SUFFICES ASSUME WindowAt(now) < w PROVE FALSE
        BY <2>5
      <4>1. /\ EndAt(WindowAt(now)) + Window <= EndAt(w) /\ EndAt(w) + Window <= EndAt(WindowAt(u))
        BY <2>5, <2>6, WindowOrder
      <4>2. now < EndAt(WindowAt(now)) /\ EndAt(WindowAt(u)) <= u + Window
        BY <1>1, <2>3, WindowFacts
      <4>3. EndAt(WindowAt(now)) \in Nat /\ EndAt(w) \in Nat /\ EndAt(WindowAt(u)) \in Nat
            /\ Window \in Nat \ {0}
        BY <2>5, WindowFacts
      <4> QED
        BY <1>1, <2>3, <4>1, <4>2, <4>3
    <3>4. Sole(counters, now, w, r) <= 3 * PerIp
      BY <2>1, <3>3
    <3> QED
      BY <1>1, <2>1, <2>3, <2>4, <3>1, <3>4
  <2>7. CASE ~(w < WindowAt(u))
    <3>1. ~(w < WindowAt(now))
      BY <2>5, <2>7
    <3>2. Sole(counters, u, w, r) = Sole(counters, now, w, r)
      BY <2>7, <3>1 DEF Sole
    <3> QED
      BY <2>1, <2>3, <3>2
  <2> QED
    BY <2>6, <2>7
<1>6. ASSUME NEW w \in TheWindows, NEW r \in Subjects, charged[w] \subseteq {r}
      PROVE  counters[w]["global"].count + Cardinality(WaitingIn(handler, w, r))
                 <= Sole(counters, now + 1, w, r)
  <2>1. counters[w]["global"].count + Cardinality(WaitingIn(handler, w, r))
            <= Sole(counters, now, w, r)
    BY <1>6 DEF RedisInv
  <2>2. counters[w]["global"].count \in Nat /\ Cardinality(WaitingIn(handler, w, r)) \in Nat
    BY WaitingCounts DEF RedisInv, CounterType, Everybody
  <2> QED
    BY <1>5, <2>1, <2>2
<1> QED
  BY <1>1, <1>2, <1>3, <1>4, <1>6 DEF RedisInv

LEMMA RedisNext ==
    ASSUME RedisInv, Redis!Next
    PROVE  RedisInv'
<1>1. ASSUME NEW h \in Handlers, NEW r \in Replicas, NEW s \in Subjects, Redis!Arrive(h, r, s)
      PROVE  RedisInv'
  <2>1. /\ handler \in [Handlers -> HandlerType] /\ now \in Nat
        /\ UNCHANGED <<now, counters, passed, charged>>
    BY <1>1, OperationAssumption DEF RedisInv, LimiterTypes, Redis!Arrive
  <2>2. PICK q \in HandlerType : TakesOrLeaves(h, q)
    <3>1. CASE handler' = handler
      <4>1. handler' = [handler EXCEPT ![h] = IdleRecord]
        BY <1>1, <2>1, <3>1, IdleHandler DEF Redis!Arrive
      <4> QED
        BY <4>1, IdleHandler DEF TakesOrLeaves
    <3>2. CASE handler' # handler
      <4>1. handler' = [handler EXCEPT ![h] = [at |-> "subject", replica |-> r, subject |-> s,
                                               since |-> now, retry |-> 0]]
        BY <1>1, <3>2 DEF Redis!Arrive
      <4>2. [at |-> "subject", replica |-> r, subject |-> s, since |-> now, retry |-> 0]
                \in HandlerType
        BY <2>1 DEF HandlerType
      <4> QED
        BY <4>1, <4>2 DEF TakesOrLeaves
    <3> QED
      BY <3>1, <3>2
  <2> QED
    BY <2>1, <2>2, RedisHandlerStep
<1>2. ASSUME NEW h \in Handlers, Redis!Close(h) PROVE RedisInv'
  <2>1. /\ UNCHANGED <<now, counters, passed, charged>>
        /\ handler' = [handler EXCEPT ![h] = IdleRecord]
    BY <1>2, IdleHandler DEF Redis!Close
  <2>2. TakesOrLeaves(h, IdleRecord)
    BY <2>1, IdleHandler DEF TakesOrLeaves
  <2> QED
    BY <2>1, <2>2, IdleHandler, RedisHandlerStep
<1> QED
  BY <1>1, <1>2, RedisSubjectStep, RedisGlobalStep, RedisTick DEF Redis!Next

\* Nothing is counted at first.
LEMMA RatesInit ==
    ASSUME now = 0, Redis!Init \/ Local!Init
    PROVE  /\ LimiterTypes /\ handler = [h \in Handlers |-> IdleRecord]
           /\ passed = [s \in Subjects |-> [w \in TheWindows |-> 0]]
           /\ charged = [w \in TheWindows |-> {}] /\ items = {} /\ evicted = FALSE
           /\ \A w \in TheWindows : \A s \in Subjects : WaitingIn(handler, w, s) = {}
<1>1. Redis!Windows = TheWindows /\ Local!Windows = TheWindows
  BY DEF Redis!Windows, Local!Windows, Redis!WindowOf, Local!WindowOf, TheWindows, WindowAt
<1>2. /\ handler = [h \in Handlers |-> IdleRecord]
      /\ passed = [s \in Subjects |-> [w \in TheWindows |-> 0]]
      /\ charged = [w \in TheWindows |-> {}] /\ items = {} /\ evicted = FALSE
  BY <1>1, IdleHandler DEF Redis!Init, Local!Init
<1>3. /\ now \in 0 .. MaxTime /\ handler \in [Handlers -> HandlerType]
      /\ passed \in [Subjects -> [TheWindows -> Nat]]
      /\ charged \in [TheWindows -> SUBSET Subjects]
  BY <1>2, IdleHandler, OperationAssumption
<1>4. IsFiniteSet({})
  BY FS_EmptySet
<1>5. \A w \in TheWindows : IsFiniteSet(charged[w])
  BY <1>2, <1>4
<1>6. \A h \in Handlers : handler[h].at = "idle"
  BY <1>2, IdleHandler
<1>7. \A w \in TheWindows : \A s \in Subjects : WaitingIn(handler, w, s) = {}
  BY <1>6 DEF WaitingIn, Waits
<1> QED
  BY <1>2, <1>3, <1>5, <1>6, <1>7 DEF LimiterTypes

LEMMA RedisInit ==
    ASSUME now = 0, Redis!Init
    PROVE  RedisInv
<1>1. /\ LimiterTypes /\ now \in Nat /\ now \in 0 .. MaxTime
      /\ \A h \in Handlers : handler[h].at = "idle"
  BY OperationAssumption, RatesInit, IdleHandler DEF LimiterTypes
<1>2. PICK c : c = [count |-> 0, expires |-> 0]
  OBVIOUS
<1>3. counters = [w \in TheWindows |-> [k \in Everybody |-> c]]
  BY <1>2 DEF Redis!Init, Redis!Windows, Redis!WindowOf, TheWindows, WindowAt, Redis!Keys,
             Redis!AllSubjects, Everybody
<1>4. /\ c \in CounterType /\ c.count = 0 /\ \A w \in TheWindows : CounterOK(c, w, now)
  BY <1>2 DEF CounterType, CounterOK
<1>5. /\ counters \in [TheWindows -> [Everybody -> CounterType]]
      /\ \A w \in TheWindows : \A k \in Everybody : counters[w][k] = c
  BY <1>3, <1>4
<1>6. \A w \in TheWindows : \A k \in Everybody : CounterOK(counters[w][k], w, now)
  BY <1>4, <1>5
<1>7. ASSUME NEW w \in TheWindows, NEW s \in Subjects
      PROVE  /\ passed[s][w] <= Spent(counters[w][s], w)
             /\ counters[w]["global"].count + Cardinality(WaitingIn(handler, w, s))
                    <= Sole(counters, now, w, s)
  <2>1. Sole(counters, now, w, s) \in Nat /\ Spent(counters[w][s], w) \in Nat
    BY <1>1, <1>5, <1>6, SoleBounds
  <2>2. passed[s][w] = 0
    BY RatesInit
  <2>3. Cardinality({}) = 0
    BY FS_EmptySet
  <2>4. Cardinality(WaitingIn(handler, w, s)) = 0
    BY <2>3, RatesInit
  <2>5. counters[w]["global"].count = 0
    BY <1>4, <1>5 DEF Everybody
  <2> QED
    BY <2>1, <2>2, <2>4, <2>5
<1> QED
  BY <1>1, <1>5, <1>6, <1>7 DEF RedisInv

-----------------------------------------------------------------------------
(***************************************************************************)
(* The limiter in one process                                              *)
(***************************************************************************)
LivesIn(es, t, k) == {e \in es : e.key = k /\ t < e.resetAt}

\* One entry for a key, which ends within a window from now.
Entries(es, t) ==
    /\ \A e \in es : /\ e.key \in Everybody /\ e.count \in Nat \ {0}
                     /\ e.resetAt \in Nat /\ e.resetAt <= t + Window
    /\ \A e, f \in es : e.key = f.key => e = f

\* What a subject has passed of the requests of this window, and how many of them wait: the
\* entry it has is the first of the window unless it ends after it.
SubjectBound(es, t, f, p, s) ==
    /\ LivesIn(es, t, s) = {} => p <= PerIp /\ Cardinality(WaitingIn(f, WindowAt(t), s)) = 0
    /\ \A e \in LivesIn(es, t, s) :
          /\ p <= Small(e.count, PerIp) + (IF e.resetAt >= EndAt(WindowAt(t)) THEN PerIp ELSE 0)
          /\ Cardinality(WaitingIn(f, WindowAt(t), s)) <= Small(e.count, PerIp)

\* The entry for all was counted up by this subject only.
Alone(ch, g, s) == \A v \in TheWindows : g.resetAt < EndAt(v) + Window => ch[v] \subseteq {s}

\* Then it has the requests of the subject's entry and, if that ends later, of one before it.
GlobalBound(es, t, f, g, s) ==
    /\ LivesIn(es, t, s) = {} => g.count <= PerIp
    /\ \A e \in LivesIn(es, t, s) :
          g.count + Cardinality(WaitingIn(f, WindowAt(t), s))
              <= Small(e.count, PerIp) + (IF e.resetAt < g.resetAt THEN 0 ELSE PerIp)

Recent(ch, w) == UNION {ch[v] : v \in {u \in TheWindows : u = w \/ u + 1 = w}}

LocalInv ==
    /\ LimiterTypes
    /\ Entries(items, now)
    /\ \A h \in Handlers : handler[h].at # "idle" => handler[h].since = now
    /\ \A w \in TheWindows : w > WindowAt(now) =>
          charged[w] = {} /\ \A s \in Subjects : passed[s][w] = 0
    /\ ~evicted =>
          /\ \A w \in TheWindows : \A s \in Subjects : passed[s][w] <= 2 * PerIp
          /\ \A s \in Subjects :
                SubjectBound(items, now, handler, passed[s][WindowAt(now)], s)
          /\ \A s \in Subjects : \A g \in LivesIn(items, now, "global") :
                Alone(charged, g, s) => GlobalBound(items, now, handler, g, s)
          /\ \A h \in Handlers : handler[h].at = "close" => Two(Recent(charged, WindowAt(now)))

\* One more request in the map of the process, and what is left of the map.
Tallied(k, d) ==
    /\ d.key = k /\ d.count \in Nat \ {0} /\ d.resetAt \in Nat
    /\ now < d.resetAt /\ d.resetAt <= now + Window
    /\ LivesIn(items, now, k) = {} => d.count = 1 /\ d.resetAt = now + Window
    /\ \A e \in LivesIn(items, now, k) : d.count = e.count + 1 /\ d.resetAt = e.resetAt
    /\ Entries(items', now)
    /\ ~evicted' => /\ ~evicted
                    /\ LivesIn(items', now, k) = {d}
                    /\ \A j \in Everybody \ {k} : LivesIn(items', now, j) = LivesIn(items, now, j)

LEMMA LocalRetry == \A t, u \in Nat : Local!Retry(t, u) \in Nat
<1> SUFFICES ASSUME NEW t \in Nat, NEW u \in Nat PROVE Local!Retry(t, u) \in Nat
  OBVIOUS
<1>1. PICK m \in {1, u - t} : \A y \in {1, u - t} : m >= y
  <2>1. CASE u - t >= 1
    BY <2>1
  <2>2. CASE ~(u - t >= 1)
    BY <2>2
  <2> QED
    BY <2>1, <2>2
<1>2. Local!Max({1, u - t}) \in {1, u - t} /\ \A y \in {1, u - t} : Local!Max({1, u - t}) >= y
  BY <1>1 DEF Local!Max
<1> QED
  BY <1>2 DEF Local!Retry

LEMMA LocalTally ==
    ASSUME Entries(items, now), now \in Nat, NEW k \in Everybody, NEW t,
           Local!Record(Local!Consume(t, k))
    PROVE  \E d : /\ d.count = Local!Consume(t, k).count /\ Local!Consume(t, k).retry \in Nat
                  /\ Tallied(k, d)
<1>1. PICK d, es, kept : /\ d = Local!Hit(items, k) /\ es = Local!Put(items, d)
                         /\ kept = Local!Trim(es)
  OBVIOUS
<1>2. /\ Local!Consume(t, k).count = d.count
      /\ Local!Consume(t, k).retry = Local!Retry(now, d.resetAt)
      /\ items' = kept
      /\ evicted' = (evicted \/ \E e \in es \ kept : now < e.resetAt)
  BY <1>1 DEF Local!Consume, Local!Record, Local!Live
<1>3. Window \in Nat \ {0}
  BY StoresAssumption
<1>4. {e \in Local!Of(items, k) : Local!Live(e)} = LivesIn(items, now, k)
  BY DEF Local!Of, Local!Live, LivesIn
<1>5. /\ d.key = k
      /\ LivesIn(items, now, k) = {} => d.count = 1 /\ d.resetAt = now + Window
      /\ LivesIn(items, now, k) # {} =>
            /\ d.count = (CHOOSE e \in LivesIn(items, now, k) : TRUE).count + 1
            /\ d.resetAt = (CHOOSE e \in LivesIn(items, now, k) : TRUE).resetAt
  BY <1>1, <1>4 DEF Local!Hit
<1>6. ASSUME NEW e \in LivesIn(items, now, k)
      PROVE  /\ d.count = e.count + 1 /\ d.resetAt = e.resetAt
             /\ e.count \in Nat /\ e.resetAt \in Nat /\ now < e.resetAt /\ e.resetAt <= now + Window
  <2>1. (CHOOSE x \in LivesIn(items, now, k) : TRUE) \in LivesIn(items, now, k)
    OBVIOUS
  <2>2. (CHOOSE x \in LivesIn(items, now, k) : TRUE) = e
    BY <2>1 DEF LivesIn, Entries
  <2> QED
    BY <1>5, <2>2 DEF LivesIn, Entries
<1>7. /\ d.count \in Nat \ {0} /\ d.resetAt \in Nat
      /\ now < d.resetAt /\ d.resetAt <= now + Window
  <2>1. CASE LivesIn(items, now, k) = {}
    BY <1>3, <1>5, <2>1
  <2>2. CASE LivesIn(items, now, k) # {}
    BY <1>6, <2>2
  <2> QED
    BY <2>1, <2>2
<1>8. es = {e \in items : e.key # k} \cup {d}
  BY <1>1, <1>5 DEF Local!Put, Local!Of
<1>9. Entries(es, now)
  BY <1>5, <1>7, <1>8 DEF Entries
<1>10. kept \subseteq es
  BY <1>1 DEF Local!Trim
<1>11. Entries(items', now)
  BY <1>2, <1>9, <1>10 DEF Entries
<1>12. ASSUME ~evicted'
       PROVE  /\ ~evicted
              /\ LivesIn(items', now, k) = {d}
              /\ \A j \in Everybody \ {k} : LivesIn(items', now, j) = LivesIn(items, now, j)
  <2>1. ~evicted /\ \A e \in es : now < e.resetAt => e \in kept
    BY <1>2, <1>12
  <2>2. \A j : LivesIn(items', now, j) = LivesIn(es, now, j)
    BY <1>2, <1>10, <2>1 DEF LivesIn
  <2>3. LivesIn(es, now, k) = {d}
    BY <1>5, <1>7, <1>8 DEF LivesIn
  <2>4. \A j \in Everybody \ {k} : LivesIn(es, now, j) = LivesIn(items, now, j)
    BY <1>5, <1>8 DEF LivesIn
  <2> QED
    BY <2>1, <2>2, <2>3, <2>4
<1>13. Local!Retry(now, d.resetAt) \in Nat
  BY <1>7, LocalRetry
<1> QED
  BY <1>2, <1>5, <1>6, <1>7, <1>11, <1>12, <1>13 DEF Tallied

SubjectTallied(h, s, v, d, q) ==
    /\ Tallied(s, d)
    /\ passed' = [passed EXCEPT ![s][v] = IF d.count <= PerIp THEN @ + 1 ELSE @]
    /\ handler' = [handler EXCEPT ![h] = q]
    /\ IF d.count <= PerIp THEN q.at = "global" /\ q.subject = s /\ q.since = now
                           ELSE q.at = "idle"

GlobalTallied(h, s, v, d, q) ==
    /\ Tallied("global", d)
    /\ charged' = [charged EXCEPT ![v] = @ \cup {s}]
    /\ handler' = [handler EXCEPT ![h] = q]
    /\ IF d.count <= OwnGlobal THEN q.at = "idle"
       ELSE q.at = "close" /\ q.subject = s /\ q.since = now

LEMMA LocalAsksSubject ==
    ASSUME LocalInv, NEW h \in Handlers, Local!CountSubject(h),
           NEW s, s = handler[h].subject, NEW v, v = WindowAt(now)
    PROVE  /\ handler[h].at = "subject" /\ s \in Subjects /\ v \in TheWindows
           /\ \E d : \E q \in HandlerType : SubjectTallied(h, s, v, d, q)
           /\ UNCHANGED <<now, charged>>
<1>1. /\ handler[h].at = "subject" /\ s \in Subjects /\ handler[h] \in HandlerType
      /\ handler[h].since = now /\ now \in Nat /\ now \in 0 .. MaxTime /\ Entries(items, now)
  BY OperationAssumption DEF Local!CountSubject, LocalInv, LimiterTypes, HandlerType
<1>2. v \in TheWindows /\ s \in Everybody
  BY <1>1, WindowOrder DEF Everybody
<1>3. Local!Record(Local!Consume(now, s))
  BY <1>1 DEF Local!CountSubject
<1>4. PICK d : d.count = Local!Consume(now, s).count /\ Tallied(s, d)
  BY <1>1, <1>2, <1>3, LocalTally
<1>5. /\ passed' = [passed EXCEPT ![s][v] = IF d.count <= PerIp THEN @ + 1 ELSE @]
      /\ UNCHANGED <<now, charged>>
  BY <1>1, <1>4 DEF Local!CountSubject, Local!Allowed, Local!WindowOf, WindowAt
<1>6. PICK q : /\ handler' = [handler EXCEPT ![h] = q]
               /\ q = IF d.count <= PerIp THEN [handler[h] EXCEPT !.at = "global", !.since = now]
                                          ELSE IdleRecord
  BY <1>1, <1>4, IdleHandler DEF Local!CountSubject, Local!CountedForAll, Local!Allowed
<1>7. /\ q \in HandlerType
      /\ IF d.count <= PerIp THEN q.at = "global" /\ q.subject = s /\ q.since = now
                             ELSE q.at = "idle"
  BY <1>1, <1>6, IdleHandler DEF HandlerType
<1>8. SubjectTallied(h, s, v, d, q)
  BY <1>4, <1>5, <1>6, <1>7 DEF SubjectTallied
<1> QED
  BY <1>1, <1>2, <1>5, <1>7, <1>8

LEMMA LocalAsksGlobal ==
    ASSUME LocalInv, NEW h \in Handlers, Local!CountGlobal(h),
           NEW s, s = handler[h].subject, NEW v, v = WindowAt(now)
    PROVE  /\ handler[h].at = "global" /\ s \in Subjects /\ v \in TheWindows
           /\ \E d : \E q \in HandlerType : GlobalTallied(h, s, v, d, q)
           /\ UNCHANGED <<now, passed>>
<1>1. /\ handler[h].at = "global" /\ s \in Subjects /\ handler[h] \in HandlerType
      /\ handler[h].since = now /\ now \in Nat /\ now \in 0 .. MaxTime /\ Entries(items, now)
      /\ "global" \in Everybody
  BY OperationAssumption DEF Local!CountGlobal, LocalInv, LimiterTypes, HandlerType, Everybody
<1>2. v \in TheWindows
  BY <1>1, WindowOrder
<1>3. Local!Record(Local!Consume(now, "global"))
  BY <1>1 DEF Local!CountGlobal, Local!AllSubjects
<1>4. PICK d : /\ d.count = Local!Consume(now, "global").count
               /\ Local!Consume(now, "global").retry \in Nat
               /\ Tallied("global", d)
  BY <1>1, <1>3, LocalTally
<1>5. /\ charged' = [charged EXCEPT ![v] = @ \cup {s}]
      /\ UNCHANGED <<now, passed>>
  BY <1>1 DEF Local!CountGlobal, Local!WindowOf, WindowAt
<1>6. PICK n, q :
          /\ n \in Nat
          /\ handler' = [handler EXCEPT ![h] = q]
          /\ q = IF d.count <= OwnGlobal THEN IdleRecord
                 ELSE [handler[h] EXCEPT !.at = "close", !.retry = n]
  BY <1>1, <1>4, IdleHandler DEF Local!CountGlobal, Local!Allowed, Local!AllSubjects
<1>7. /\ q \in HandlerType
      /\ IF d.count <= OwnGlobal THEN q.at = "idle"
         ELSE q.at = "close" /\ q.subject = s /\ q.since = now
  BY <1>1, <1>6, IdleHandler DEF HandlerType
<1>8. GlobalTallied(h, s, v, d, q)
  BY <1>4, <1>5, <1>6, <1>7 DEF GlobalTallied
<1> QED
  BY <1>1, <1>2, <1>5, <1>7, <1>8

LEMMA SmallGrows ==
    /\ PerIp \in Nat
    /\ \A a \in Nat : /\ Small(a, PerIp) \in Nat /\ Small(a, PerIp) <= PerIp
                      /\ Small(a + 1, PerIp) = Small(a, PerIp) + One(a + 1 <= PerIp)
    /\ Small(1, PerIp) = One(1 <= PerIp)
BY StoresAssumption DEF Small, One

LEMMA LocalSubjectStep ==
    ASSUME LocalInv, NEW h \in Handlers, Local!CountSubject(h)
    PROVE  LocalInv'
<1>1. PICK s, v : s = handler[h].subject /\ v = WindowAt(now)
  OBVIOUS
<1>2. /\ handler[h].at = "subject" /\ s \in Subjects /\ v \in TheWindows
      /\ UNCHANGED <<now, charged>>
  BY <1>1, LocalAsksSubject
<1>d. PICK d : \E q \in HandlerType : SubjectTallied(h, s, v, d, q)
  BY <1>1, LocalAsksSubject
<1>q. PICK q \in HandlerType : SubjectTallied(h, s, v, d, q)
  BY <1>d
<1>3. /\ Tallied(s, d)
      /\ passed' = [passed EXCEPT ![s][v] = IF d.count <= PerIp THEN @ + 1 ELSE @]
      /\ handler' = [handler EXCEPT ![h] = q]
      /\ IF d.count <= PerIp THEN q.at = "global" /\ q.subject = s /\ q.since = now
                             ELSE q.at = "idle"
  BY <1>q DEF SubjectTallied
<1>4. /\ LimiterTypes /\ now \in Nat /\ now \in 0 .. MaxTime /\ s \in Everybody
      /\ handler \in [Handlers -> HandlerType] /\ PerIp \in Nat /\ Window \in Nat \ {0}
      /\ "global" \notin Subjects /\ v \in Nat /\ "global" \in Everybody /\ Subjects \subseteq Everybody
      /\ EndAt(v) \in Nat /\ EndAt(v) <= now + Window
  <2>1. LimiterTypes /\ now \in Nat /\ now \in 0 .. MaxTime /\ handler \in [Handlers -> HandlerType]
    BY OperationAssumption DEF LocalInv, LimiterTypes
  <2>2. v \in Nat /\ EndAt(v) \in Nat /\ EndAt(v) <= now + Window
    BY <1>1, <2>1, WindowFacts
  <2> QED
    BY <1>2, <2>1, <2>2, StoresAssumption DEF Everybody
<1>5. PICK one \in {0, 1} : one = One(d.count <= PerIp)
  BY DEF One
<1>6. q.at # "idle" => q.subject \in Subjects /\ q.since <= now
  BY <1>2, <1>3, <1>4
<1>7. /\ handler' \in [Handlers -> HandlerType] /\ now' \in 0 .. MaxTime
      /\ \A i \in Handlers : handler'[i].at # "idle" =>
            handler'[i].subject \in Subjects /\ handler'[i].since <= now'
      /\ handler'[h] = q /\ \A i \in Handlers \ {h} : handler'[i] = handler[i]
  BY <1>2, <1>3, <1>4, <1>6, HandlerMoves
<1>8. /\ passed' \in [Subjects -> [TheWindows -> Nat]]
      /\ \A w \in TheWindows : \A r \in Subjects :
            /\ passed[r][w] \in Nat
            /\ passed'[r][w] = IF w = v /\ r = s THEN passed[r][w] + one ELSE passed[r][w]
  <2>1. passed \in [Subjects -> [TheWindows -> Nat]]
    BY <1>4 DEF LimiterTypes
  <2>2. PICK n \in Nat : n = passed[s][v] + one
    BY <1>2, <2>1
  <2>3. passed' = [passed EXCEPT ![s][v] = n]
    <3>1. (IF d.count <= PerIp THEN passed[s][v] + 1 ELSE passed[s][v]) = n
      BY <1>2, <1>5, <2>1, <2>2 DEF One
    <3> QED
      BY <1>3, <3>1
  <2> QED
    BY <1>2, <2>1, <2>2, <2>3
<1>9. LimiterTypes'
  BY <1>2, <1>4, <1>7, <1>8 DEF LimiterTypes
<1>10. /\ d.key = s /\ d.count \in Nat \ {0} /\ d.resetAt \in Nat
       /\ now < d.resetAt /\ d.resetAt <= now + Window
       /\ LivesIn(items, now, s) = {} => d.count = 1 /\ d.resetAt = now + Window
       /\ \A e \in LivesIn(items, now, s) : d.count = e.count + 1 /\ d.resetAt = e.resetAt
       /\ Entries(items', now')
  BY <1>2, <1>3 DEF Tallied
<1>11. \A i \in Handlers : handler'[i].at # "idle" => handler'[i].since = now'
  BY <1>2, <1>3, <1>7 DEF LocalInv
<1>12. \A w \in TheWindows : w > WindowAt(now') =>
           charged'[w] = {} /\ \A r \in Subjects : passed'[r][w] = 0
  BY <1>1, <1>2, <1>4, <1>8 DEF LocalInv
<1>13. ASSUME NEW r \in Subjects
       PROVE  /\ Cardinality(WaitingIn(handler, v, r)) \in Nat
              /\ Cardinality(WaitingIn(handler', v, r))
                     = Cardinality(WaitingIn(handler, v, r)) + (IF r = s THEN one ELSE 0)
  <2>1. Cardinality(WaitingIn(handler', v, r)) + One(Waits(handler[h], v, r))
            = Cardinality(WaitingIn(handler, v, r)) + One(Waits(q, v, r))
    BY <1>7, WaitingMoves
  <2>2. One(Waits(handler[h], v, r)) = 0
    BY <1>2 DEF Waits, One
  <2>3. One(Waits(q, v, r)) = IF r = s THEN one ELSE 0
    BY <1>1, <1>3, <1>5 DEF Waits, One
  <2>4. /\ Cardinality(WaitingIn(handler, v, r)) \in Nat
        /\ Cardinality(WaitingIn(handler', v, r)) \in Nat
    BY WaitingCounts
  <2> QED
    BY <2>1, <2>2, <2>3, <2>4
<1>14. ASSUME ~evicted'
       PROVE  /\ ~evicted
              /\ LivesIn(items', now, s) = {d}
              /\ \A j \in Everybody \ {s} : LivesIn(items', now, j) = LivesIn(items, now, j)
  BY <1>3, <1>14 DEF Tallied
<1>15. ASSUME ~evicted', NEW r \in Subjects
       PROVE  SubjectBound(items', now, handler', passed'[r][v], r)
  <2>1. SubjectBound(items, now, handler, passed[r][v], r)
    BY <1>1, <1>14, <1>15 DEF LocalInv
  <2>2. CASE r # s
    <3>1. /\ LivesIn(items', now, r) = LivesIn(items, now, r) /\ passed'[r][v] = passed[r][v]
          /\ Cardinality(WaitingIn(handler', v, r)) = Cardinality(WaitingIn(handler, v, r))
      BY <1>2, <1>4, <1>8, <1>13, <1>14, <1>15, <2>2
    <3> QED
      BY <1>1, <2>1, <3>1 DEF SubjectBound
  <2>3. CASE r = s
    <3>1. PICK p, m : p = passed[s][v] /\ m = Cardinality(WaitingIn(handler, v, s))
      OBVIOUS
    <3>2. /\ p \in Nat /\ passed'[r][v] = p + one
          /\ m \in Nat /\ Cardinality(WaitingIn(handler', v, r)) = m + one
      BY <1>2, <1>8, <1>13, <2>3, <3>1
    <3>3. /\ p + one <= Small(d.count, PerIp) + (IF d.resetAt >= EndAt(v) THEN PerIp ELSE 0)
          /\ m + one <= Small(d.count, PerIp)
      <4>1. CASE LivesIn(items, now, s) = {}
        <5>1. d.count = 1 /\ d.resetAt >= EndAt(v)
          BY <1>4, <1>10, <4>1
        <5>2. p <= PerIp /\ m = 0
          BY <1>1, <2>1, <2>3, <3>1, <4>1 DEF SubjectBound
        <5>3. Small(1, PerIp) = one
          BY <1>5, <5>1, SmallGrows
        <5> QED
          BY <1>4, <3>2, <5>1, <5>2, <5>3
      <4>2. ASSUME NEW e \in LivesIn(items, now, s)
            PROVE  /\ p + one <= Small(d.count, PerIp) + (IF d.resetAt >= EndAt(v) THEN PerIp ELSE 0)
                   /\ m + one <= Small(d.count, PerIp)
        <5>1. d.count = e.count + 1 /\ d.resetAt = e.resetAt /\ e.count \in Nat
          BY <1>10, <4>2 DEF LocalInv, Entries, LivesIn
        <5>2. /\ p <= Small(e.count, PerIp) + (IF e.resetAt >= EndAt(v) THEN PerIp ELSE 0)
              /\ m <= Small(e.count, PerIp)
          BY <1>1, <2>1, <2>3, <3>1, <4>2 DEF SubjectBound
        <5>3. Small(e.count, PerIp) \in Nat /\ Small(d.count, PerIp) = Small(e.count, PerIp) + one
          BY <1>5, <5>1, SmallGrows
        <5> QED
          BY <1>4, <3>2, <5>1, <5>2, <5>3
      <4> QED
        BY <4>1, <4>2
    <3>4. LivesIn(items', now, r) = {d}
      BY <1>14, <1>15, <2>3
    <3> QED
      BY <1>1, <3>2, <3>3, <3>4 DEF SubjectBound
  <2> QED
    BY <2>2, <2>3
<1>16. ASSUME ~evicted', NEW r \in Subjects, NEW w \in TheWindows
       PROVE  passed'[r][w] <= 2 * PerIp
  <2>1. passed[r][w] <= 2 * PerIp
    BY <1>14, <1>16 DEF LocalInv
  <2>2. CASE w = v /\ r = s
    <3>1. passed'[s][v] <= Small(d.count, PerIp) + (IF d.resetAt >= EndAt(v) THEN PerIp ELSE 0)
      BY <1>1, <1>2, <1>14, <1>15, <1>16 DEF SubjectBound
    <3>2. Small(d.count, PerIp) \in Nat /\ Small(d.count, PerIp) <= PerIp /\ passed'[s][v] \in Nat
      BY <1>2, <1>8, <1>10, SmallGrows
    <3> QED
      BY <1>4, <2>2, <3>1, <3>2
  <2> QED
    BY <1>8, <2>1, <2>2
<1>17. ASSUME ~evicted', NEW r \in Subjects, NEW g \in LivesIn(items', now, "global"),
              Alone(charged, g, r)
       PROVE  GlobalBound(items', now, handler', g, r)
  <2>1. g \in LivesIn(items, now, "global")
    BY <1>2, <1>4, <1>14, <1>17
  <2>2. GlobalBound(items, now, handler, g, r)
    BY <1>14, <1>17, <2>1 DEF LocalInv
  <2>3. g.count \in Nat /\ g.resetAt \in Nat /\ g.resetAt <= now + Window
    BY <2>1 DEF LivesIn, LocalInv, Entries
  <2>4. CASE r # s
    <3>1. /\ LivesIn(items', now, r) = LivesIn(items, now, r)
          /\ Cardinality(WaitingIn(handler', v, r)) = Cardinality(WaitingIn(handler, v, r))
      BY <1>4, <1>13, <1>14, <1>17, <2>4
    <3> QED
      BY <1>1, <2>2, <3>1 DEF GlobalBound
  <2>5. CASE r = s
    <3>1. PICK m : m = Cardinality(WaitingIn(handler, v, s))
      OBVIOUS
    <3>2. m \in Nat /\ Cardinality(WaitingIn(handler', v, r)) = m + one
      BY <1>2, <1>13, <2>5, <3>1
    <3>3. g.count + m + one
              <= Small(d.count, PerIp) + (IF d.resetAt < g.resetAt THEN 0 ELSE PerIp)
      <4>1. CASE LivesIn(items, now, s) = {}
        <5>1. d.count = 1 /\ ~(d.resetAt < g.resetAt)
          BY <1>4, <1>10, <2>3, <4>1
        <5>2. g.count <= PerIp
          BY <2>2, <2>5, <4>1 DEF GlobalBound
        <5>3. m = 0
          <6>1. SubjectBound(items, now, handler, passed[s][v], s)
            BY <1>1, <1>2, <1>14, <1>17 DEF LocalInv
          <6> QED
            BY <1>1, <3>1, <4>1, <6>1 DEF SubjectBound
        <5>4. Small(1, PerIp) = one
          BY <1>5, <5>1, SmallGrows
        <5> QED
          BY <1>4, <2>3, <5>1, <5>2, <5>3, <5>4
      <4>2. ASSUME NEW e \in LivesIn(items, now, s)
            PROVE  g.count + m + one
                      <= Small(d.count, PerIp) + (IF d.resetAt < g.resetAt THEN 0 ELSE PerIp)
        <5>1. d.count = e.count + 1 /\ d.resetAt = e.resetAt /\ e.count \in Nat
          BY <1>10, <4>2 DEF LocalInv, Entries, LivesIn
        <5>2. g.count + m <= Small(e.count, PerIp) + (IF e.resetAt < g.resetAt THEN 0 ELSE PerIp)
          BY <1>1, <2>2, <2>5, <3>1, <4>2 DEF GlobalBound
        <5>3. Small(e.count, PerIp) \in Nat /\ Small(d.count, PerIp) = Small(e.count, PerIp) + one
          BY <1>5, <5>1, SmallGrows
        <5> QED
          BY <1>4, <2>3, <3>2, <5>1, <5>2, <5>3
      <4> QED
        BY <4>1, <4>2
    <3>4. LivesIn(items', now, r) = {d}
      BY <1>14, <1>17, <2>5
    <3> QED
      BY <1>1, <2>3, <3>2, <3>3, <3>4 DEF GlobalBound
  <2> QED
    BY <2>4, <2>5
<1>18. ASSUME ~evicted', NEW i \in Handlers, handler'[i].at = "close"
       PROVE  Two(Recent(charged, v))
  <2>1. handler[i].at = "close"
    BY <1>3, <1>7, <1>18
  <2> QED
    BY <1>1, <1>14, <1>18, <2>1 DEF LocalInv
<1> QED
  BY <1>1, <1>2, <1>9, <1>10, <1>11, <1>12, <1>15, <1>16, <1>17, <1>18 DEF LocalInv

LEMMA LocalGlobalStep ==
    ASSUME LocalInv, NEW h \in Handlers, Local!CountGlobal(h)
    PROVE  LocalInv'
<1>1. PICK s, v : s = handler[h].subject /\ v = WindowAt(now)
  OBVIOUS
<1>2. /\ handler[h].at = "global" /\ s \in Subjects /\ v \in TheWindows
      /\ UNCHANGED <<now, passed>>
  BY <1>1, LocalAsksGlobal
<1>d. PICK d : \E q \in HandlerType : GlobalTallied(h, s, v, d, q)
  BY <1>1, LocalAsksGlobal
<1>q. PICK q \in HandlerType : GlobalTallied(h, s, v, d, q)
  BY <1>d
<1>3. /\ Tallied("global", d)
      /\ charged' = [charged EXCEPT ![v] = @ \cup {s}]
      /\ handler' = [handler EXCEPT ![h] = q]
      /\ IF d.count <= OwnGlobal THEN q.at = "idle"
         ELSE q.at = "close" /\ q.subject = s /\ q.since = now
  BY <1>q DEF GlobalTallied
<1>4. /\ LimiterTypes /\ now \in Nat /\ now \in 0 .. MaxTime
      /\ handler \in [Handlers -> HandlerType] /\ PerIp \in Nat /\ Window \in Nat \ {0}
      /\ OwnGlobal \in Nat /\ OwnGlobal >= 2 * PerIp
      /\ "global" \notin Subjects /\ v \in Nat /\ "global" \in Everybody /\ Subjects \subseteq Everybody
      /\ EndAt(v) \in Nat /\ now < EndAt(v) /\ EndAt(v) <= now + Window
  <2>1. LimiterTypes /\ now \in Nat /\ now \in 0 .. MaxTime /\ handler \in [Handlers -> HandlerType]
    BY OperationAssumption DEF LocalInv, LimiterTypes
  <2>2. v \in Nat /\ EndAt(v) \in Nat /\ now < EndAt(v) /\ EndAt(v) <= now + Window
    BY <1>1, <2>1, WindowFacts
  <2> QED
    BY <1>2, <2>1, <2>2, StoresAssumption DEF Everybody
<1>6. q.at # "idle" => q.subject \in Subjects /\ q.since <= now
  BY <1>2, <1>3, <1>4
<1>7. /\ handler' \in [Handlers -> HandlerType] /\ now' \in 0 .. MaxTime
      /\ \A i \in Handlers : handler'[i].at # "idle" =>
            handler'[i].subject \in Subjects /\ handler'[i].since <= now'
      /\ handler'[h] = q /\ \A i \in Handlers \ {h} : handler'[i] = handler[i]
  BY <1>2, <1>3, <1>4, <1>6, HandlerMoves
<1>8. /\ charged' \in [TheWindows -> SUBSET Subjects]
      /\ \A w \in TheWindows : charged'[w] = IF w = v THEN charged[w] \cup {s} ELSE charged[w]
      /\ \A w \in TheWindows : IsFiniteSet(charged'[w])
  <2>1. charged \in [TheWindows -> SUBSET Subjects] /\ IsFiniteSet(charged[v])
    BY <1>2, <1>4 DEF LimiterTypes
  <2>2. IsFiniteSet(charged[v] \cup {s})
    BY <2>1, FS_AddElement
  <2>3. /\ charged' \in [TheWindows -> SUBSET Subjects]
        /\ \A w \in TheWindows : charged'[w] = IF w = v THEN charged[w] \cup {s} ELSE charged[w]
    BY <1>2, <1>3, <2>1
  <2> QED
    BY <1>4, <2>2, <2>3 DEF LimiterTypes
<1>9. LimiterTypes'
  BY <1>2, <1>4, <1>7, <1>8 DEF LimiterTypes
<1>10. /\ d.key = "global" /\ d.count \in Nat \ {0} /\ d.resetAt \in Nat
       /\ now < d.resetAt /\ d.resetAt <= now + Window
       /\ LivesIn(items, now, "global") = {} => d.count = 1 /\ d.resetAt = now + Window
       /\ \A e \in LivesIn(items, now, "global") : d.count = e.count + 1 /\ d.resetAt = e.resetAt
       /\ Entries(items', now')
  BY <1>2, <1>3 DEF Tallied
<1>11. \A i \in Handlers : handler'[i].at # "idle" => handler'[i].since = now'
  BY <1>2, <1>3, <1>7 DEF LocalInv
<1>12. \A w \in TheWindows : w > WindowAt(now') =>
           charged'[w] = {} /\ \A r \in Subjects : passed'[r][w] = 0
  BY <1>1, <1>2, <1>4, <1>8 DEF LocalInv
<1>13. ASSUME NEW r \in Subjects
       PROVE  /\ Cardinality(WaitingIn(handler, v, r)) \in Nat
              /\ Cardinality(WaitingIn(handler', v, r)) \in Nat
              /\ Cardinality(WaitingIn(handler', v, r)) <= Cardinality(WaitingIn(handler, v, r))
              /\ r = s => Cardinality(WaitingIn(handler', v, r)) + 1
                              = Cardinality(WaitingIn(handler, v, r))
  <2>1. Cardinality(WaitingIn(handler', v, r)) + One(Waits(handler[h], v, r))
            = Cardinality(WaitingIn(handler, v, r)) + One(Waits(q, v, r))
    BY <1>7, WaitingMoves
  <2>2. One(Waits(q, v, r)) = 0
    BY <1>3 DEF Waits, One
  <2>3. One(Waits(handler[h], v, r)) \in Nat /\ (r = s => One(Waits(handler[h], v, r)) = 1)
    <3>1. handler[h].since = now
      BY <1>2 DEF LocalInv
    <3> QED
      BY <1>1, <1>2, <3>1 DEF Waits, One
  <2>4. /\ Cardinality(WaitingIn(handler, v, r)) \in Nat
        /\ Cardinality(WaitingIn(handler', v, r)) \in Nat
    BY WaitingCounts
  <2> QED
    BY <2>1, <2>2, <2>3, <2>4
<1>14. ASSUME ~evicted'
       PROVE  /\ ~evicted
              /\ LivesIn(items', now, "global") = {d}
              /\ \A r \in Subjects : LivesIn(items', now, r) = LivesIn(items, now, r)
  BY <1>3, <1>4, <1>14 DEF Tallied
<1>15. ASSUME ~evicted', NEW r \in Subjects
       PROVE  /\ SubjectBound(items, now, handler, passed[r][v], r)
              /\ SubjectBound(items', now, handler', passed[r][v], r)
  <2>1. SubjectBound(items, now, handler, passed[r][v], r)
    BY <1>1, <1>14, <1>15 DEF LocalInv
  <2>2. LivesIn(items', now, r) = LivesIn(items, now, r)
    BY <1>14, <1>15
  <2>3. PICK m, n : /\ m = Cardinality(WaitingIn(handler, v, r)) /\ n = Cardinality(WaitingIn(handler', v, r))
    OBVIOUS
  <2>4. m \in Nat /\ n \in Nat /\ n <= m
    BY <1>13, <2>3
  <2>5. LivesIn(items', now, r) = {} => passed[r][v] <= PerIp /\ n = 0
    BY <1>1, <2>1, <2>2, <2>3, <2>4 DEF SubjectBound
  <2>6. ASSUME NEW e \in LivesIn(items', now, r)
        PROVE  /\ passed[r][v] <= Small(e.count, PerIp) + (IF e.resetAt >= EndAt(v) THEN PerIp ELSE 0)
               /\ n <= Small(e.count, PerIp)
    <3>1. /\ passed[r][v] <= Small(e.count, PerIp) + (IF e.resetAt >= EndAt(v) THEN PerIp ELSE 0)
          /\ m <= Small(e.count, PerIp)
      BY <1>1, <2>1, <2>2, <2>3, <2>6 DEF SubjectBound
    <3>2. Small(e.count, PerIp) \in Nat
      <4>1. e.count \in Nat
        BY <2>2, <2>6 DEF LivesIn, LocalInv, Entries
      <4> QED
        BY <4>1, SmallGrows
    <3> QED
      BY <2>4, <3>1, <3>2
  <2> QED
    BY <1>1, <2>1, <2>3, <2>5, <2>6 DEF SubjectBound
<1>16. ASSUME ~evicted', NEW r \in Subjects, NEW g \in LivesIn(items', now, "global"),
              Alone(charged', g, r)
       PROVE  GlobalBound(items', now, handler', g, r) /\ LivesIn(items', now, r) # {}
  <2>1. g = d
    BY <1>14, <1>16
  <2>2. d.resetAt < EndAt(v) + Window
    BY <1>4, <1>10
  <2>3. r = s
    <3>1. charged'[v] \subseteq {r}
      BY <1>2, <1>16, <2>1, <2>2 DEF Alone
    <3> QED
      BY <1>2, <1>8, <3>1
  <2>4. PICK m, n : /\ m = Cardinality(WaitingIn(handler, v, s)) /\ n = Cardinality(WaitingIn(handler', v, s))
    OBVIOUS
  <2>5. m \in Nat /\ n \in Nat /\ n + 1 = m
    BY <1>2, <1>13, <2>4
  <2>6. LivesIn(items', now, s) = LivesIn(items, now, s) /\ LivesIn(items, now, s) # {}
    <3>1. SubjectBound(items, now, handler, passed[s][v], s)
      BY <1>2, <1>15, <1>16
    <3>2. m # 0
      BY <2>5
    <3> QED
      BY <1>1, <1>2, <1>14, <1>16, <2>4, <3>1, <3>2 DEF SubjectBound
  <2>7. ASSUME NEW e \in LivesIn(items, now, s)
        PROVE  d.count + n <= Small(e.count, PerIp) + (IF e.resetAt < d.resetAt THEN 0 ELSE PerIp)
    <3>1. e.count \in Nat /\ e.resetAt \in Nat
      BY <2>7 DEF LivesIn, LocalInv, Entries
    <3>2. Small(e.count, PerIp) \in Nat
      BY <3>1, SmallGrows
    <3>3. CASE LivesIn(items, now, "global") = {}
      <4>1. d.count = 1
        BY <1>10, <3>3
      <4>2. m <= Small(e.count, PerIp)
        <5>1. SubjectBound(items, now, handler, passed[s][v], s)
          BY <1>2, <1>15, <1>16
        <5> QED
          BY <1>1, <2>4, <2>7, <5>1 DEF SubjectBound
      <4> QED
        BY <1>4, <2>5, <3>2, <4>1, <4>2
    <3>4. ASSUME NEW f \in LivesIn(items, now, "global")
          PROVE  d.count + n <= Small(e.count, PerIp) + (IF e.resetAt < d.resetAt THEN 0 ELSE PerIp)
      <4>1. d.count = f.count + 1 /\ d.resetAt = f.resetAt /\ f.count \in Nat
        BY <1>10, <3>4 DEF LivesIn, LocalInv, Entries
      <4>2. Alone(charged, f, s)
        <5>1. \A w \in TheWindows : charged[w] \subseteq charged'[w]
          BY <1>8
        <5> QED
          BY <1>16, <2>1, <2>3, <4>1, <5>1 DEF Alone
      <4>3. GlobalBound(items, now, handler, f, s)
        BY <1>2, <1>14, <1>16, <3>4, <4>2 DEF LocalInv
      <4>4. f.count + m <= Small(e.count, PerIp) + (IF e.resetAt < f.resetAt THEN 0 ELSE PerIp)
        BY <1>1, <2>4, <2>7, <4>3 DEF GlobalBound
      <4> QED
        BY <1>4, <2>5, <3>2, <4>1, <4>4
    <3> QED
      BY <3>3, <3>4
  <2> QED
    BY <1>1, <2>1, <2>3, <2>4, <2>6, <2>7 DEF GlobalBound
<1>17. ASSUME ~evicted', q.at = "close"
       PROVE  Two(Recent(charged', v))
  <2> SUFFICES ASSUME ~Two(Recent(charged', v)) PROVE FALSE
    OBVIOUS
  <2>1. s \in Recent(charged', v)
    BY <1>2, <1>8 DEF Recent
  <2>2. \A u \in TheWindows : u = v \/ u + 1 = v => charged'[u] \subseteq {s}
    BY <2>1 DEF Two, Recent
  <2>3. ASSUME NEW u \in TheWindows, d.resetAt < EndAt(u) + Window
        PROVE  charged'[u] \subseteq {s}
    <3>1. u \in Nat /\ EndAt(u) \in Nat
      BY WindowOrder, WindowFacts DEF TheWindows
    <3>2. CASE u > v
      BY <1>1, <1>2, <1>12, <3>2
    <3>3. CASE u = v \/ u + 1 = v
      BY <2>2, <3>3
    <3>4. ASSUME u + 1 < v PROVE FALSE
      <4>1. PICK x \in Nat : x = u + 1
        BY <3>1
      <4>2. EndAt(x) = EndAt(u) + Window /\ EndAt(x) + Window <= EndAt(v)
        <5>1. EndAt(x) = EndAt(u) + Window
          BY <3>1, <4>1, WindowFacts
        <5>2. EndAt(x) + Window <= EndAt(v)
          BY <1>4, <3>4, <4>1, WindowOrder
        <5> QED
          BY <5>1, <5>2
      <4> QED
        BY <1>4, <1>10, <2>3, <3>1, <4>2
    <3> QED
      BY <1>4, <3>1, <3>2, <3>3, <3>4
  <2>4. Alone(charged', d, s)
    BY <2>3 DEF Alone
  <2>5. d \in LivesIn(items', now, "global")
    BY <1>14, <1>17
  <2>6. GlobalBound(items', now, handler', d, s) /\ LivesIn(items', now, s) # {}
    BY <1>2, <1>16, <1>17, <2>4, <2>5
  <2>7. PICK e \in LivesIn(items', now, s) : TRUE
    BY <2>6
  <2>8. d.count + Cardinality(WaitingIn(handler', v, s))
            <= Small(e.count, PerIp) + (IF e.resetAt < d.resetAt THEN 0 ELSE PerIp)
    BY <1>1, <2>6 DEF GlobalBound
  <2>9. Small(e.count, PerIp) \in Nat /\ Small(e.count, PerIp) <= PerIp
    <3>1. e.count \in Nat
      BY <1>2, <1>10 DEF LivesIn, Entries
    <3> QED
      BY <3>1, SmallGrows
  <2>10. ~(d.count <= OwnGlobal)
    BY <1>3, <1>17
  <2>11. Cardinality(WaitingIn(handler', v, s)) \in Nat
    BY <1>2, <1>13
  <2> QED
    BY <1>4, <1>10, <2>8, <2>9, <2>10, <2>11
<1>18. ASSUME ~evicted', NEW i \in Handlers, handler'[i].at = "close"
       PROVE  Two(Recent(charged', v))
  <2>1. CASE i = h
    BY <1>7, <1>17, <1>18, <2>1
  <2>2. CASE i # h
    <3>1. Two(Recent(charged, v))
      BY <1>1, <1>7, <1>14, <1>18, <2>2 DEF LocalInv
    <3>2. Recent(charged, v) \subseteq Recent(charged', v)
      BY <1>8 DEF Recent
    <3> QED
      BY <3>1, <3>2 DEF Two
  <2> QED
    BY <2>1, <2>2
<1>19. ASSUME ~evicted', NEW r \in Subjects, NEW w \in TheWindows
       PROVE  passed'[r][w] <= 2 * PerIp
  BY <1>2, <1>14, <1>19 DEF LocalInv
<1> QED
  BY <1>1, <1>2, <1>9, <1>10, <1>11, <1>12, <1>15, <1>16, <1>18, <1>19 DEF LocalInv

LEMMA LocalHandlerStep ==
    ASSUME LocalInv, NEW h \in Handlers, NEW q \in HandlerType, TakesOrLeaves(h, q),
           UNCHANGED <<now, items, passed, charged, evicted>>
    PROVE  LocalInv'
<1>1. /\ LimiterTypes /\ now \in Nat /\ now \in 0 .. MaxTime
      /\ handler \in [Handlers -> HandlerType]
      /\ handler' = [handler EXCEPT ![h] = q]
      /\ q.at = "idle" \/ (q.at = "subject" /\ q.subject \in Subjects /\ q.since = now)
  BY OperationAssumption DEF LocalInv, LimiterTypes, TakesOrLeaves
<1>2. q.at # "idle" => q.subject \in Subjects /\ q.since <= now
  BY <1>1
<1>3. /\ handler' \in [Handlers -> HandlerType] /\ now' \in 0 .. MaxTime
      /\ \A i \in Handlers : handler'[i].at # "idle" =>
            handler'[i].subject \in Subjects /\ handler'[i].since <= now'
      /\ handler'[h] = q /\ \A i \in Handlers \ {h} : handler'[i] = handler[i]
  BY <1>1, <1>2, HandlerMoves
<1>4. LimiterTypes'
  BY <1>1, <1>3 DEF LimiterTypes
<1>5. \A i \in Handlers : handler'[i].at # "idle" => handler'[i].since = now'
  BY <1>1, <1>3 DEF LocalInv
<1>6. PICK v : v = WindowAt(now)
  OBVIOUS
<1>7. ASSUME NEW r \in Subjects
      PROVE  /\ Cardinality(WaitingIn(handler, v, r)) \in Nat
             /\ Cardinality(WaitingIn(handler', v, r)) \in Nat
             /\ Cardinality(WaitingIn(handler', v, r)) <= Cardinality(WaitingIn(handler, v, r))
  <2>1. Cardinality(WaitingIn(handler', v, r)) + One(Waits(handler[h], v, r))
            = Cardinality(WaitingIn(handler, v, r)) + One(Waits(q, v, r))
    BY <1>3, WaitingMoves
  <2>2. One(Waits(q, v, r)) = 0 /\ One(Waits(handler[h], v, r)) \in Nat
    BY <1>1 DEF Waits, One
  <2>3. /\ Cardinality(WaitingIn(handler, v, r)) \in Nat
        /\ Cardinality(WaitingIn(handler', v, r)) \in Nat
    BY WaitingCounts
  <2> QED
    BY <2>1, <2>2, <2>3
<1>8. /\ \A e \in items : e.count \in Nat
      /\ \A n \in Nat : Small(n, PerIp) \in Nat
      /\ PerIp \in Nat
  BY SmallGrows DEF LocalInv, Entries
<1>9. ASSUME ~evicted, NEW r \in Subjects
      PROVE  SubjectBound(items, now, handler', passed[r][v], r)
  <2>1. SubjectBound(items, now, handler, passed[r][v], r)
    BY <1>6, <1>9 DEF LocalInv
  <2>2. PICK m, n : /\ m = Cardinality(WaitingIn(handler, v, r)) /\ n = Cardinality(WaitingIn(handler', v, r))
    OBVIOUS
  <2>3. m \in Nat /\ n \in Nat /\ n <= m
    BY <1>7, <2>2
  <2>4. \A e \in LivesIn(items, now, r) : Small(e.count, PerIp) \in Nat
    BY <1>8 DEF LivesIn
  <2>5. /\ LivesIn(items, now, r) = {} => m = 0
        /\ \A e \in LivesIn(items, now, r) : m <= Small(e.count, PerIp)
    BY <1>6, <2>1, <2>2 DEF SubjectBound
  <2>6. /\ LivesIn(items, now, r) = {} => n = 0
        /\ \A e \in LivesIn(items, now, r) : n <= Small(e.count, PerIp)
    BY <2>3, <2>4, <2>5
  <2> QED
    BY <1>6, <2>1, <2>2, <2>6 DEF SubjectBound
<1>10. ASSUME ~evicted, NEW r \in Subjects, NEW g \in LivesIn(items, now, "global"),
              Alone(charged, g, r)
       PROVE  GlobalBound(items, now, handler', g, r)
  <2>1. GlobalBound(items, now, handler, g, r)
    BY <1>10 DEF LocalInv
  <2>2. PICK m, n : /\ m = Cardinality(WaitingIn(handler, v, r)) /\ n = Cardinality(WaitingIn(handler', v, r))
    OBVIOUS
  <2>3. m \in Nat /\ n \in Nat /\ n <= m /\ g.count \in Nat
    BY <1>7, <1>8, <2>2 DEF LivesIn
  <2>4. ASSUME NEW e \in LivesIn(items, now, r)
        PROVE  g.count + n <= Small(e.count, PerIp) + (IF e.resetAt < g.resetAt THEN 0 ELSE PerIp)
    <3>1. g.count + m <= Small(e.count, PerIp) + (IF e.resetAt < g.resetAt THEN 0 ELSE PerIp)
      BY <1>6, <2>1, <2>2, <2>4 DEF GlobalBound
    <3>2. Small(e.count, PerIp) \in Nat
      BY <1>8, <2>4 DEF LivesIn
    <3> QED
      BY <1>8, <2>3, <3>1, <3>2
  <2> QED
    BY <1>6, <2>1, <2>2, <2>4 DEF GlobalBound
<1>11. ASSUME ~evicted, NEW i \in Handlers, handler'[i].at = "close"
       PROVE  Two(Recent(charged, v))
  <2>1. handler[i].at = "close"
    BY <1>1, <1>3, <1>11
  <2> QED
    BY <1>6, <1>11, <2>1 DEF LocalInv
<1> QED
  BY <1>4, <1>5, <1>6, <1>9, <1>10, <1>11 DEF LocalInv

\* Time passes only between requests: an entry may end, or the window.
LEMMA LocalTick ==
    ASSUME LocalInv, Local!Tick
    PROVE  LocalInv'
<1>1. /\ LimiterTypes /\ now \in Nat /\ now' = now + 1 /\ now' \in 0 .. MaxTime
      /\ now \in 0 .. MaxTime
      /\ UNCHANGED <<items, handler, passed, charged, evicted>>
      /\ PerIp \in Nat /\ Window \in Nat \ {0}
  BY OperationAssumption, StoresAssumption DEF LocalInv, LimiterTypes, Local!Tick
<1>2. PICK t \in 0 .. MaxTime, v \in Nat, w \in Nat :
          /\ t = now + 1 /\ t \in Nat /\ v = WindowAt(now) /\ w = WindowAt(t)
  BY <1>1, WindowFacts
<1>3. v <= w /\ v \in TheWindows /\ w \in TheWindows
  BY <1>1, <1>2, WindowOrder
<1>4. \A h \in Handlers : handler[h].at = "idle"
  <2> SUFFICES ASSUME NEW h \in Handlers, handler[h].at # "idle" PROVE FALSE
    OBVIOUS
  <2>1. handler[h].since = now
    BY DEF LocalInv
  <2>2. now < handler[h].since + 0
    BY IdleHandler DEF Local!Tick, Local!Patience
  <2> QED
    BY <1>1, <2>1, <2>2
<1>5. LimiterTypes'
  BY <1>1, <1>4 DEF LimiterTypes
<1>6. Entries(items, t)
  <2>1. \A e \in items : e.resetAt \in Nat /\ e.resetAt <= now + Window
    BY DEF LocalInv, Entries
  <2>2. \A e \in items : e.resetAt <= t + Window
    BY <1>1, <1>2, <2>1
  <2> QED
    BY <2>2 DEF LocalInv, Entries
<1>7. \A u \in TheWindows : u > w => charged[u] = {} /\ \A s \in Subjects : passed[s][u] = 0
  <2>1. \A u \in TheWindows : u \in Nat
    BY WindowOrder DEF TheWindows
  <2> QED
    BY <1>2, <1>3, <2>1 DEF LocalInv
<1>8. \A x \in TheWindows : \A s \in Subjects : Cardinality(WaitingIn(handler, x, s)) = 0
  <2>1. \A x \in TheWindows : \A s \in Subjects : WaitingIn(handler, x, s) = {}
    BY <1>4 DEF WaitingIn, Waits
  <2>2. Cardinality({}) = 0
    BY FS_EmptySet
  <2> QED
    BY <2>1, <2>2
<1>9. \A k : LivesIn(items, t, k) \subseteq LivesIn(items, now, k)
  <2>1. \A e \in items : t < e.resetAt => now < e.resetAt
    <3>1. \A e \in items : e.resetAt \in Nat
      BY DEF LocalInv, Entries
    <3> QED
      BY <1>1, <1>2, <3>1
  <2> QED
    BY <2>1 DEF LivesIn
<1>10. ASSUME NEW k, NEW e \in LivesIn(items, now, k)
       PROVE  /\ e.count \in Nat \ {0} /\ e.resetAt \in Nat
              /\ Small(e.count, PerIp) \in Nat /\ Small(e.count, PerIp) <= PerIp
              /\ e \notin LivesIn(items, t, k) => e.resetAt <= t
  <2>1. e.count \in Nat \ {0} /\ e.resetAt \in Nat
    BY <1>10 DEF LocalInv, Entries, LivesIn
  <2>2. Small(e.count, PerIp) \in Nat /\ Small(e.count, PerIp) <= PerIp
    BY <2>1, SmallGrows
  <2>3. e \notin LivesIn(items, t, k) => e.resetAt <= t
    BY <1>2, <1>10, <2>1 DEF LivesIn
  <2> QED
    BY <2>1, <2>2, <2>3
<1>11. ASSUME ~evicted, NEW s \in Subjects
       PROVE  SubjectBound(items, t, handler, passed[s][w], s)
  <2>1. SubjectBound(items, now, handler, passed[s][v], s)
    BY <1>2, <1>11 DEF LocalInv
  <2>2. Cardinality(WaitingIn(handler, w, s)) = 0 /\ passed[s][w] \in Nat
    BY <1>1, <1>3, <1>8 DEF LimiterTypes
  <2>3. CASE w # v
    <3>1. passed[s][w] = 0
      BY <1>2, <1>3, <2>3 DEF LocalInv
    <3>2. \A e \in LivesIn(items, t, s) : Small(e.count, PerIp) \in Nat
      BY <1>9, <1>10
    <3> QED
      BY <1>1, <1>2, <2>2, <3>1, <3>2 DEF SubjectBound
  <2>4. CASE w = v
    <3>1. LivesIn(items, t, s) = {} => passed[s][w] <= PerIp
      <4>1. CASE LivesIn(items, now, s) = {}
        BY <2>1, <2>4, <4>1 DEF SubjectBound
      <4>2. ASSUME NEW e \in LivesIn(items, now, s), LivesIn(items, t, s) = {}
            PROVE  passed[s][w] <= PerIp
        <5>1. e.resetAt <= t /\ e.resetAt \in Nat /\ Small(e.count, PerIp) \in Nat
              /\ Small(e.count, PerIp) <= PerIp
          BY <1>10, <4>2
        <5>2. t < EndAt(v) /\ EndAt(v) \in Nat
          BY <1>2, <2>4, WindowFacts
        <5>3. passed[s][v] <= Small(e.count, PerIp)
                  + (IF e.resetAt >= EndAt(v) THEN PerIp ELSE 0)
          BY <1>2, <2>1, <4>2 DEF SubjectBound
        <5> QED
          BY <1>1, <1>2, <2>2, <2>4, <5>1, <5>2, <5>3
      <4> QED
        BY <4>1, <4>2
    <3>2. ASSUME NEW e \in LivesIn(items, t, s)
          PROVE  /\ passed[s][w] <= Small(e.count, PerIp)
                        + (IF e.resetAt >= EndAt(w) THEN PerIp ELSE 0)
                 /\ Small(e.count, PerIp) \in Nat
      <4>1. e \in LivesIn(items, now, s)
        BY <1>9, <3>2
      <4> QED
        BY <1>2, <1>10, <2>1, <2>4, <4>1 DEF SubjectBound
    <3> QED
      BY <1>2, <2>2, <3>1, <3>2 DEF SubjectBound
  <2> QED
    BY <2>3, <2>4
<1>12. ASSUME ~evicted, NEW s \in Subjects, NEW g \in LivesIn(items, t, "global"),
              Alone(charged, g, s)
       PROVE  GlobalBound(items, t, handler, g, s)
  <2>1. g \in LivesIn(items, now, "global") /\ t < g.resetAt
    BY <1>9, <1>12 DEF LivesIn
  <2>2. GlobalBound(items, now, handler, g, s)
    BY <1>12, <2>1 DEF LocalInv
  <2>3. /\ Cardinality(WaitingIn(handler, w, s)) = 0 /\ Cardinality(WaitingIn(handler, v, s)) = 0
        /\ g.count \in Nat /\ g.resetAt \in Nat
    BY <1>3, <1>8, <1>10, <2>1
  <2>4. ASSUME NEW e \in LivesIn(items, now, s)
        PROVE  g.count <= Small(e.count, PerIp) + (IF e.resetAt < g.resetAt THEN 0 ELSE PerIp)
    <3>1. g.count + Cardinality(WaitingIn(handler, v, s))
              <= Small(e.count, PerIp) + (IF e.resetAt < g.resetAt THEN 0 ELSE PerIp)
      BY <1>2, <2>2, <2>4 DEF GlobalBound
    <3> QED
      BY <2>3, <3>1
  <2>5. LivesIn(items, t, s) = {} => g.count <= PerIp
    <3>1. CASE LivesIn(items, now, s) = {}
      BY <2>2, <3>1 DEF GlobalBound
    <3>2. ASSUME NEW e \in LivesIn(items, now, s), LivesIn(items, t, s) = {}
          PROVE  g.count <= PerIp
      <4>1. e.resetAt <= t /\ e.resetAt \in Nat /\ Small(e.count, PerIp) \in Nat
            /\ Small(e.count, PerIp) <= PerIp
        BY <1>10, <3>2
      <4>2. e.resetAt < g.resetAt
        BY <1>2, <2>1, <2>3, <4>1
      <4>3. g.count <= Small(e.count, PerIp) + 0
        BY <2>4, <3>2, <4>2
      <4> QED
        BY <1>1, <2>3, <4>1, <4>3
    <3> QED
      BY <3>1, <3>2
  <2>6. ASSUME NEW e \in LivesIn(items, t, s)
        PROVE  g.count + Cardinality(WaitingIn(handler, w, s))
                   <= Small(e.count, PerIp) + (IF e.resetAt < g.resetAt THEN 0 ELSE PerIp)
    <3>1. e \in LivesIn(items, now, s)
      BY <1>9, <2>6
    <3> QED
      BY <2>3, <2>4, <3>1
  <2> QED
    BY <1>2, <2>5, <2>6 DEF GlobalBound
<1>13. \A h \in Handlers : handler[h].at # "close"
  BY <1>4
<1> QED
  BY <1>1, <1>2, <1>4, <1>5, <1>6, <1>7, <1>11, <1>12, <1>13 DEF LocalInv

LEMMA LocalNext ==
    ASSUME LocalInv, Local!Next
    PROVE  LocalInv'
<1>1. ASSUME NEW h \in Handlers, NEW r \in {"host"}, NEW s \in Subjects, Local!Arrive(h, r, s)
      PROVE  LocalInv'
  <2>1. /\ handler \in [Handlers -> HandlerType] /\ now \in Nat
        /\ UNCHANGED <<now, items, passed, charged, evicted>>
    BY <1>1, OperationAssumption DEF LocalInv, LimiterTypes, Local!Arrive
  <2>2. PICK q \in HandlerType : TakesOrLeaves(h, q)
    <3>1. CASE handler' = handler
      <4>1. handler' = [handler EXCEPT ![h] = IdleRecord]
        BY <1>1, <2>1, <3>1, IdleHandler DEF Local!Arrive
      <4> QED
        BY <4>1, IdleHandler DEF TakesOrLeaves
    <3>2. CASE handler' # handler
      <4>1. handler' = [handler EXCEPT ![h] = [at |-> "subject", replica |-> r, subject |-> s,
                                               since |-> now, retry |-> 0]]
        BY <1>1, <3>2 DEF Local!Arrive
      <4>2. [at |-> "subject", replica |-> r, subject |-> s, since |-> now, retry |-> 0]
                \in HandlerType
        BY <2>1 DEF HandlerType
      <4> QED
        BY <4>1, <4>2 DEF TakesOrLeaves
    <3> QED
      BY <3>1, <3>2
  <2> QED
    BY <2>1, <2>2, LocalHandlerStep
<1>2. ASSUME NEW h \in Handlers, Local!Close(h) PROVE LocalInv'
  <2>1. /\ UNCHANGED <<now, items, passed, charged, evicted>>
        /\ handler' = [handler EXCEPT ![h] = IdleRecord]
    BY <1>2, IdleHandler DEF Local!Close
  <2>2. TakesOrLeaves(h, IdleRecord)
    BY <2>1, IdleHandler DEF TakesOrLeaves
  <2> QED
    BY <2>1, <2>2, IdleHandler, LocalHandlerStep
<1> QED
  BY <1>1, <1>2, LocalSubjectStep, LocalGlobalStep, LocalTick DEF Local!Next

LEMMA LocalInit ==
    ASSUME now = 0, Local!Init
    PROVE  LocalInv
<1>1. /\ LimiterTypes /\ now \in Nat /\ now \in 0 .. MaxTime /\ items = {}
      /\ \A h \in Handlers : handler[h].at = "idle"
      /\ \A w \in TheWindows : charged[w] = {} /\ \A s \in Subjects : passed[s][w] = 0
      /\ PerIp \in Nat
  BY OperationAssumption, StoresAssumption, RatesInit, IdleHandler DEF LimiterTypes
<1>2. WindowAt(now) \in TheWindows
  BY <1>1, WindowOrder
<1>3. Entries(items, now)
  BY <1>1 DEF Entries
<1>4. Cardinality({}) = 0
  BY FS_EmptySet
<1>5. ASSUME NEW s \in Subjects
      PROVE  SubjectBound(items, now, handler, passed[s][WindowAt(now)], s)
  <2>1. passed[s][WindowAt(now)] = 0
    BY <1>1, <1>2
  <2>2. WaitingIn(handler, WindowAt(now), s) = {} /\ LivesIn(items, now, s) = {}
    BY <1>1 DEF WaitingIn, Waits, LivesIn
  <2>3. Cardinality(WaitingIn(handler, WindowAt(now), s)) = 0
    BY <1>4, <2>2
  <2> QED
    BY <1>1, <2>1, <2>2, <2>3 DEF SubjectBound
<1>6. LivesIn(items, now, "global") = {}
  BY <1>1 DEF LivesIn
<1>7. \A w \in TheWindows : \A s \in Subjects : passed[s][w] <= 2 * PerIp
  BY <1>1
<1> QED
  BY <1>1, <1>3, <1>5, <1>6, <1>7 DEF LocalInv

-----------------------------------------------------------------------------
(***************************************************************************)
(* What the limiters promise                                               *)
(***************************************************************************)
RatesInv ==
    /\ part = "Redis limiter" => RedisInv
    /\ part = "local limiter" => LocalInv
    /\ part \notin {"Redis limiter", "local limiter"} =>
          \A s \in Subjects : \A w \in TheWindows : passed[s][w] = 0

LEMMA RatesInitially == EachInit => RatesInv
<1> SUFFICES ASSUME EachInit PROVE RatesInv
  OBVIOUS
<1>1. now = 0
  BY DEF EachInit, Init
<1>2. CASE part = "Redis limiter"
  BY <1>1, <1>2, RedisInit DEF EachInit, RatesInv
<1>3. CASE part = "local limiter"
  BY <1>1, <1>3, LocalInit DEF EachInit, RatesInv
<1>4. CASE part \notin {"Redis limiter", "local limiter"}
  <2>1. passed = [s \in Subjects |-> [w \in TheWindows |-> 0]]
    BY <1>1, <1>4, RatesInit DEF EachInit
  <2> QED
    BY <1>4, <2>1 DEF RatesInv
<1> QED
  BY <1>2, <1>3, <1>4

LEMMA RatesKept == RatesInv /\ [EachNext]_eachVars => RatesInv'
<1> SUFFICES ASSUME RatesInv, [EachNext]_eachVars PROVE RatesInv'
  OBVIOUS
<1>1. UNCHANGED part
  BY DEF EachNext, eachVars
<1>2. CASE part = "Redis limiter"
  <2>1. Redis!Next \/ UNCHANGED <<now, rateVars>>
    BY <1>2 DEF EachNext, eachVars, OnPostgres
  <2>2. RedisInv
    BY <1>2 DEF RatesInv
  <2>3. CASE Redis!Next
    BY <1>1, <1>2, <2>2, <2>3, RedisNext DEF RatesInv
  <2>4. CASE UNCHANGED <<now, rateVars>>
    <3>1. RedisInv'
      BY <2>2, <2>4 DEF rateVars, RedisInv, LimiterTypes
    <3> QED
      BY <1>1, <1>2, <3>1 DEF RatesInv
  <2> QED
    BY <2>1, <2>3, <2>4
<1>3. CASE part = "local limiter"
  <2>1. Local!Next \/ UNCHANGED <<now, rateVars>>
    BY <1>3 DEF EachNext, eachVars, OnPostgres
  <2>2. LocalInv
    BY <1>3 DEF RatesInv
  <2>3. CASE Local!Next
    BY <1>1, <1>3, <2>2, <2>3, LocalNext DEF RatesInv
  <2>4. CASE UNCHANGED <<now, rateVars>>
    <3>1. LocalInv'
      BY <2>2, <2>4 DEF rateVars, LocalInv, LimiterTypes
    <3> QED
      BY <1>1, <1>3, <3>1 DEF RatesInv
  <2> QED
    BY <2>1, <2>3, <2>4
<1>4. CASE part \notin {"Redis limiter", "local limiter"}
  <2>1. UNCHANGED passed
    BY <1>4 DEF EachNext, eachVars, OnPostgres, rateVars
  <2> QED
    BY <1>1, <1>4, <2>1 DEF RatesInv
<1> QED
  BY <1>2, <1>3, <1>4

\* Of the requests of one window at most twice the limit of their subject passes.
THEOREM PassesTwice == EachStore => []AtMostTwice
<1>1. RatesInv => AtMostTwice
  <2> SUFFICES ASSUME RatesInv, ~evicted, NEW s \in Subjects, NEW w \in TheWindows
               PROVE  passed[s][w] <= 2 * PerIp
    BY DEF AtMostTwice, Redis!AtMostTwice, Redis!Windows, Redis!WindowOf, TheWindows, WindowAt
  <2>1. PerIp \in Nat /\ w \in Nat
    BY StoresAssumption, WindowOrder DEF TheWindows
  <2>2. CASE part = "Redis limiter"
    <3>1. passed[s][w] <= Spent(counters[w][s], w) /\ passed[s][w] \in Nat
      BY <2>2 DEF RatesInv, RedisInv, LimiterTypes
    <3>2. counters[w][s] \in CounterType
      BY <2>2 DEF RatesInv, RedisInv, Everybody
    <3>3. Spent(counters[w][s], w) \in Nat /\ Spent(counters[w][s], w) <= 2 * PerIp
      BY <2>1, <3>2, SpentBounds
    <3> QED
      BY <2>1, <3>1, <3>3
  <2>3. CASE part = "local limiter"
    BY <2>3 DEF RatesInv, LocalInv
  <2>4. CASE part \notin {"Redis limiter", "local limiter"}
    <3>1. passed[s][w] = 0
      BY <2>4 DEF RatesInv
    <3> QED
      BY <2>1, <3>1
  <2> QED
    BY <2>2, <2>3, <2>4
<1> QED
  BY <1>1, RatesInitially, RatesKept, PTL DEF EachStore

LEMMA Crowd ==
    ASSUME NEW S, IsFiniteSet(S), Two(S)
    PROVE  Cardinality(S) > 1
<1>1. PICK a \in S, b \in S : a # b
  BY DEF Two
<1>2. /\ IsFiniteSet({a}) /\ Cardinality({a}) = 1
  BY FS_Singleton
<1>3. IsFiniteSet({a, b}) /\ Cardinality({a, b}) = 2
  <2>1. {a, b} = {a} \cup {b} /\ b \notin {a}
    BY <1>1
  <2>2. Cardinality({a} \cup {b}) = Cardinality({a}) + 1 /\ IsFiniteSet({a} \cup {b})
    BY <1>2, <2>1, FS_AddElement
  <2> QED
    BY <1>2, <2>1, <2>2
<1>4. Cardinality({a, b}) <= Cardinality(S)
  BY <1>1, FS_Subset
<1>5. Cardinality(S) \in Nat
  BY FS_CardinalityType
<1> QED
  BY <1>3, <1>4, <1>5

\* One subject alone cannot make a replica close the route for all: the requests that its own
\* limit lets through, also the late ones, do not come to the limit for all.
THEOREM RouteStaysOpen == EachStore => []OneSubjectCannotClose
<1>1. RatesInv => OneSubjectCannotClose
  <2> SUFFICES ASSUME RatesInv PROVE OneSubjectCannotClose
    OBVIOUS
  <2>1. part = "Redis limiter" => Redis!OneSubjectCannotClose
    <3> SUFFICES ASSUME RedisInv, NEW h \in Handlers, handler[h].at = "close",
                        NEW w, w = WindowAt(handler[h].since)
                 PROVE  Cardinality(UNION {charged[v] : v \in {w}}) > 1
      BY DEF RatesInv, Redis!OneSubjectCannotClose, Redis!WindowOf, WindowAt,
             Redis!Cardinality, Cardinality, Redis!IsFiniteSet, IsFiniteSet
    <3>1. w \in TheWindows
      <4>1. handler[h].since \in Nat /\ handler[h].since <= now /\ now \in Nat /\ now <= MaxTime
        BY OperationAssumption DEF RedisInv, LimiterTypes, HandlerType
      <4>2. handler[h].since \in 0 .. MaxTime
        BY <4>1, OperationAssumption
      <4> QED
        BY <4>2, WindowOrder
    <3>2. IsFiniteSet(charged[w]) /\ Two(charged[w])
      BY <3>1 DEF RedisInv, LimiterTypes
    <3>3. Cardinality(charged[w]) > 1
      BY <3>2, Crowd
    <3>4. UNION {charged[v] : v \in {w}} = charged[w]
      OBVIOUS
    <3> QED
      BY <3>3, <3>4
  <2>2. part = "local limiter" => Local!OneSubjectCannotClose
    <3> SUFFICES ASSUME LocalInv, ~evicted, NEW h \in Handlers, handler[h].at = "close",
                        NEW w, w = WindowAt(handler[h].since)
                 PROVE  Cardinality(UNION {charged[v] : v \in IF w > 0 THEN {w - 1, w} ELSE {w}}) > 1
      BY DEF RatesInv, Local!OneSubjectCannotClose, Local!WindowOf, WindowAt,
             Local!Cardinality, Cardinality, Local!IsFiniteSet, IsFiniteSet
    <3>1. w = WindowAt(now) /\ w \in TheWindows /\ w \in Nat
      <4>1. handler[h].since = now /\ now \in 0 .. MaxTime
        BY DEF LocalInv, LimiterTypes
      <4> QED
        BY <4>1, WindowOrder DEF TheWindows
    <3>2. Two(Recent(charged, w))
      BY <3>1 DEF LocalInv
    <3>3. PICK S : S = UNION {charged[v] : v \in IF w > 0 THEN {w - 1, w} ELSE {w}}
      OBVIOUS
    <3>4. \A v \in TheWindows : IsFiniteSet(charged[v])
      BY DEF LocalInv, LimiterTypes
    <3>5. CASE w > 0
      <4>1. w - 1 \in TheWindows
        BY <3>1, <3>5, WindowOrder DEF TheWindows
      <4>2. S = charged[w - 1] \cup charged[w]
        BY <3>3, <3>5
      <4>3. IsFiniteSet(S)
        BY <3>1, <3>4, <4>1, <4>2, FS_Union
      <4>4. Recent(charged, w) \subseteq S
        <5>1. \A u \in TheWindows : u + 1 = w => u = w - 1
          BY <3>1, WindowOrder DEF TheWindows
        <5> QED
          BY <4>2, <5>1 DEF Recent
      <4> QED
        BY <3>2, <3>3, <4>3, <4>4, Crowd DEF Two
    <3>6. CASE ~(w > 0)
      <4>1. S = charged[w]
        BY <3>3, <3>6
      <4>2. \A u \in TheWindows : u + 1 # w
        BY <3>1, <3>6, WindowOrder DEF TheWindows
      <4>3. Recent(charged, w) \subseteq S
        BY <4>1, <4>2 DEF Recent
      <4> QED
        BY <3>1, <3>2, <3>3, <3>4, <4>1, <4>3, Crowd DEF Two
    <3> QED
      BY <3>5, <3>6
  <2> QED
    BY <2>1, <2>2 DEF OneSubjectCannotClose
<1> QED
  BY <1>1, RatesInitially, RatesKept, PTL DEF EachStore
=============================================================================
