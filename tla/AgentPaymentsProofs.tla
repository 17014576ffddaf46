------------------------ MODULE AgentPaymentsProofs ------------------------
(***************************************************************************)
(* Theorems of AgentPayments: a transaction is turned into value once at   *)
(* most, nothing is spent for nothing, a key settles once while it is in   *)
(* force, and every session's money is accounted for, for any              *)
(* transactions, calls, spellings, amounts and times.                      *)
(***************************************************************************)
EXTENDS AgentPayments, Integers, Functions, FiniteSetTheorems, TLAPS

\* What a call of c may carry.
Carries(c, v) ==
  \/ v = Idle
  \/ c \in Openers /\ v \in [pc : {"open"}, name : Names, req : Requests]
  \/ c \in Closers /\ v \in [pc : {"close"}, sid : Sids]
  \/ c \in Settlers
     /\ v \in [pc : {"settle"}, body : BodyType, key : Keys \cup {None}]
  \/ c \in Verifiers /\ v \in [pc : {"legacy", "log"}, name : Names]

CallsTyped == DOMAIN call = Calls /\ \A c \in Calls : Carries(c, call[c])

\* The part of TypeOK the arguments below need
Typed ==
  /\ consumed \in [Names -> Purposes \cup {"no"}]
  /\ granted \in [Txids -> Nat]
  /\ CallsTyped

Taken(t) == consumed[<<t, "lower">>] # "no"

Logging(c) == call[c].pc = "log"

\* A transaction turned into value has its tombstone, and so has one that the
\* older endpoint has consumed and not answered for yet; of those there is one.
GrantInv ==
  /\ Typed
  /\ \A t \in Txids : granted[t] <= 1 /\ (granted[t] = 1 => Taken(t))
  /\ \A c \in Calls : Logging(c) =>
       Taken(call[c].name[1]) /\ granted[call[c].name[1]] = 0
  /\ \A c, d \in Calls :
       Logging(c) /\ Logging(d) /\ call[c].name[1] = call[d].name[1] => c = d

-----------------------------------------------------------------------------
(* Names and calls.                                                        *)

\* Every spelling of a transaction is lowered to the same name.
LEMMA NameFacts ==
  ASSUME NEW n \in Names
  PROVE  /\ n[1] \in Txids /\ Lower(n) = <<n[1], "lower">>
         /\ Lower(n) \in Names /\ Lower(n)[1] = n[1]
BY DEF Names, Lower

\* A call that moves to what its endpoint may carry leaves all calls typed.
LEMMA GotoTyped ==
  ASSUME CallsTyped, NEW c \in Calls, NEW v, Carries(c, v), Goto(c, v)
  PROVE  /\ CallsTyped' /\ call'[c] = v
         /\ \A d \in Calls \ {c} : call'[d] = call[d]
<1>1. DOMAIN call' = Calls
  BY DEF CallsTyped, Goto
<1>2. call'[c] = v /\ \A d \in Calls \ {c} : call'[d] = call[d]
  BY DEF CallsTyped, Goto
<1>3. \A d \in Calls : Carries(d, call'[d])
  BY <1>2 DEF CallsTyped
<1> QED  BY <1>1, <1>2, <1>3 DEF CallsTyped

\* A call that is about to log is one of the older endpoint, with a name.
LEMMA LoggingFacts ==
  ASSUME CallsTyped, NEW c \in Calls, call[c].pc \in {"legacy", "log"}
  PROVE  c \in Verifiers /\ call[c].name \in Names
BY DEF CallsTyped, Carries, Idle

LEMMA OpenFacts ==
  ASSUME CallsTyped, NEW c \in Calls, call[c].pc = "open"
  PROVE  call[c].name \in Names /\ call[c].req \in Requests
BY DEF CallsTyped, Carries, Idle

LEMMA SettleFacts ==
  ASSUME CallsTyped, NEW c \in Calls, call[c].pc = "settle"
  PROVE  call[c].body.name \in Names /\ call[c].key \in Keys \cup {None}
BY DEF CallsTyped, Carries, Idle, BodyType

LEMMA ParsedTyped ==
  ASSUME NEW b \in Bodies
  PROVE  Parsed(b) \in BodyType
<1>1. b \in [name : Names, price : Nat \ {0}, cost : Nat]
  BY BodiesAssumption
<1>2. Lower(b.name) \in Names
  BY <1>1, NameFacts
<1> QED  BY <1>1, <1>2 DEF Parsed, BodyType

LEMMA IdleCarried == \A c \in Calls : Carries(c, Idle)
BY DEF Carries

-----------------------------------------------------------------------------
(* What a step may do to calls, tombstones and answers.                    *)

\* Nothing is consumed or answered, and no call starts to log.
LEMMA Quiet ==
  ASSUME GrantInv, CallsTyped', UNCHANGED <<consumed, granted>>,
         \A c \in Calls : Logging(c)' => call'[c] = call[c]
  PROVE  GrantInv'
<1>1. Typed'
  BY DEF GrantInv, Typed
<1>2. \A c \in Calls : Logging(c)' => Logging(c)
  BY DEF Logging
<1>3. \A t \in Txids : granted'[t] <= 1 /\ (granted'[t] = 1 => Taken(t)')
  BY DEF GrantInv, Taken
<1>4. \A c \in Calls : (Logging(c) =>
        Taken(call[c].name[1]) /\ granted[call[c].name[1]] = 0)'
  BY <1>2 DEF GrantInv, Taken
<1>5. \A c, d \in Calls :
        Logging(c)' /\ Logging(d)' /\ call'[c].name[1] = call'[d].name[1] => c = d
  BY <1>2 DEF GrantInv
<1> QED  BY <1>1, <1>3, <1>4, <1>5 DEF GrantInv

\* A transaction without a tombstone is consumed and turned into value in one
\* step, by a call that then is idle.
LEMMA Turned ==
  ASSUME GrantInv, CallsTyped', NEW n \in Names, NEW p \in Purposes,
         NotConsumed(n), Consume(n, p),
         granted' = [granted EXCEPT ![n[1]] = @ + 1],
         \A c \in Calls : Logging(c)' => call'[c] = call[c]
  PROVE  GrantInv'
<1> DEFINE x == n[1]
<1>1. x \in Txids /\ <<x, "lower">> \in Names
  BY NameFacts
<1>2. /\ consumed' = [consumed EXCEPT ![<<x, "lower">>] = p]
      /\ consumed[<<x, "lower">>] = "no" /\ p # "no"
  BY NameFacts DEF NotConsumed, Consume, Purposes
<1>3. ~Taken(x) /\ granted[x] = 0
  BY <1>1, <1>2 DEF GrantInv, Typed, Taken
<1>4. \A t \in Txids \ {x} : granted'[t] = granted[t] /\ (Taken(t)' <=> Taken(t))
  BY <1>1, <1>2 DEF GrantInv, Typed, Taken, Names
<1>5. granted'[x] = 1 /\ Taken(x)'
  BY <1>1, <1>2, <1>3 DEF GrantInv, Typed, Taken
<1>6. Typed'
  BY <1>1, <1>2 DEF GrantInv, Typed
<1>7. \A t \in Txids : granted'[t] <= 1 /\ (granted'[t] = 1 => Taken(t)')
  BY <1>4, <1>5 DEF GrantInv
<1>8. \A c \in Calls : Logging(c)' =>
        Logging(c) /\ call'[c] = call[c] /\ call[c].name[1] \in Txids \ {x}
  <2> TAKE c \in Calls
  <2> HAVE Logging(c)'
  <2>1. Logging(c) /\ call'[c] = call[c]
    BY DEF Logging
  <2>2. call[c].name[1] \in Txids
    BY <2>1, LoggingFacts, NameFacts DEF GrantInv, Typed, Logging
  <2>3. Taken(call[c].name[1])
    BY <2>1 DEF GrantInv
  <2> QED  BY <2>1, <2>2, <2>3, <1>3
<1>9. \A c \in Calls : (Logging(c) =>
        Taken(call[c].name[1]) /\ granted[call[c].name[1]] = 0)'
  BY <1>8, <1>4 DEF GrantInv
<1>10. \A c, d \in Calls :
        Logging(c)' /\ Logging(d)' /\ call'[c].name[1] = call'[d].name[1] => c = d
  BY <1>8 DEF GrantInv
<1> QED  BY <1>6, <1>7, <1>9, <1>10 DEF GrantInv

-----------------------------------------------------------------------------
(* The steps, by endpoint.                                                 *)

LEMMA ReadSteps ==
  ASSUME GrantInv, NEW c \in Calls, NEW v,
         Goto(c, v), Carries(c, v), v.pc # "log", UNCHANGED <<consumed, granted>>
  PROVE  GrantInv'
<1>1. /\ CallsTyped' /\ call'[c] = v
      /\ \A d \in Calls \ {c} : call'[d] = call[d]
  BY GotoTyped DEF GrantInv, Typed
<1>2. \A d \in Calls : Logging(d)' => call'[d] = call[d]
  BY <1>1 DEF Logging
<1> QED  BY <1>1, <1>2, Quiet

LEMMA OpenReadStep ==
  ASSUME GrantInv, NEW c \in Openers, NEW n \in Names, NEW r \in Requests,
         OpenRead(c, n, r)
  PROVE  GrantInv'
<1> DEFINE v == [pc |-> "open", name |-> n, req |-> r]
<1>1. c \in Calls /\ Goto(c, v) /\ UNCHANGED <<consumed, granted>>
  BY DEF OpenRead, Calls, tables, history
<1>2. Carries(c, v) /\ v.pc # "log"
  BY DEF Carries
<1> QED  BY <1>1, <1>2, ReadSteps

LEMMA CloseReadStep ==
  ASSUME GrantInv, NEW c \in Closers, NEW s \in Sids, CloseRead(c, s)
  PROVE  GrantInv'
<1> DEFINE v == [pc |-> "close", sid |-> s]
<1>1. c \in Calls /\ Goto(c, v) /\ UNCHANGED <<consumed, granted>>
  BY DEF CloseRead, Calls, tables, history
<1>2. Carries(c, v) /\ v.pc # "log"
  BY DEF Carries
<1> QED  BY <1>1, <1>2, ReadSteps

LEMMA SettleReadStep ==
  ASSUME GrantInv, NEW c \in Settlers, NEW b \in Bodies, NEW k \in Keys \cup {None},
         SettleRead(c, b, k)
  PROVE  GrantInv'
<1> DEFINE v == [pc |-> "settle", body |-> Parsed(b), key |-> k]
<1>1. c \in Calls /\ Goto(c, v) /\ UNCHANGED <<consumed, granted>>
  BY DEF SettleRead, Calls, tables, history
<1>2. Carries(c, v) /\ v.pc # "log"
  BY ParsedTyped DEF Carries
<1> QED  BY <1>1, <1>2, ReadSteps

LEMMA LegacyReadStep ==
  ASSUME GrantInv, NEW c \in Verifiers, NEW a \in Asks, LegacyRead(c, a)
  PROVE  GrantInv'
<1> DEFINE v == [pc |-> "legacy", name |-> a.name]
<1>1. c \in Calls /\ Goto(c, v) /\ UNCHANGED <<consumed, granted>>
  BY DEF LegacyRead, Calls, tables, history
<1>2. a.name \in Names
  BY BodiesAssumption
<1>3. Carries(c, v) /\ v.pc # "log"
  BY <1>2 DEF Carries
<1> QED  BY <1>1, <1>3, ReadSteps

LEMMA EndSteps ==
  ASSUME GrantInv, NEW c \in Calls, CloseWrite(c) \/ Refused(c)
  PROVE  GrantInv'
<1>1. Goto(c, Idle) /\ UNCHANGED <<consumed, granted>>
  BY DEF CloseWrite, Refused, tables, history
<1>2. Idle.pc # "log"
  BY DEF Idle
<1> QED  BY <1>1, <1>2, IdleCarried, ReadSteps

LEMMA RestartStep ==
  ASSUME GrantInv, Restart
  PROVE  GrantInv'
<1>1. call' = [c \in Calls |-> Idle] /\ UNCHANGED <<consumed, granted>>
  BY DEF Restart, tables, history
<1>2. CallsTyped'
  BY <1>1, IdleCarried DEF CallsTyped
<1>3. \A c \in Calls : ~Logging(c)'
  BY <1>1 DEF Logging, Idle
<1> QED  BY <1>1, <1>2, <1>3, Quiet

LEMMA OtherStep ==
  ASSUME GrantInv, UNCHANGED <<consumed, granted, call>>
  PROVE  GrantInv'
<1>1. CallsTyped'
  BY DEF GrantInv, Typed, CallsTyped
<1> QED  BY <1>1, Quiet

LEMMA OpenCommitStep ==
  ASSUME GrantInv, NEW c \in Calls, OpenCommit(c)
  PROVE  GrantInv'
<1> DEFINE n == call[c].name
<1>1. /\ NotConsumed(n) /\ Consume(n, "session")
      /\ granted' = [granted EXCEPT ![n[1]] = @ + 1] /\ Goto(c, Idle)
  BY DEF OpenCommit
<1>2. n \in Names
  BY OpenFacts DEF GrantInv, Typed, OpenCommit
<1>3. /\ CallsTyped' /\ call'[c] = Idle
      /\ \A d \in Calls \ {c} : call'[d] = call[d]
  BY <1>1, GotoTyped, IdleCarried DEF GrantInv, Typed
<1>4. \A d \in Calls : Logging(d)' => call'[d] = call[d]
  BY <1>3 DEF Logging, Idle
<1>5. "session" \in Purposes
  BY DEF Purposes
<1> HIDE DEF n
<1> QED  BY <1>1, <1>2, <1>3, <1>4, <1>5, Turned

LEMMA SettleCommitStep ==
  ASSUME GrantInv, NEW c \in Calls, SettleCommit(c)
  PROVE  GrantInv'
<1> DEFINE n == call[c].body.name
<1>1. /\ NotConsumed(n) /\ Consume(n, "x402")
      /\ granted' = [granted EXCEPT ![n[1]] = @ + 1] /\ Goto(c, Idle)
  BY DEF SettleCommit
<1>2. n \in Names
  BY SettleFacts DEF GrantInv, Typed, SettleCommit
<1>3. /\ CallsTyped' /\ call'[c] = Idle
      /\ \A d \in Calls \ {c} : call'[d] = call[d]
  BY <1>1, GotoTyped, IdleCarried DEF GrantInv, Typed
<1>4. \A d \in Calls : Logging(d)' => call'[d] = call[d]
  BY <1>3 DEF Logging, Idle
<1>5. "x402" \in Purposes
  BY DEF Purposes
<1> HIDE DEF n
<1> QED  BY <1>1, <1>2, <1>3, <1>4, <1>5, Turned

\* The older endpoint consumes first,
LEMMA LegacyConsumeStep ==
  ASSUME GrantInv, NEW c \in Calls, LegacyConsume(c)
  PROVE  GrantInv'
<1> DEFINE n == call[c].name
           x == n[1]
           v == [call[c] EXCEPT !.pc = "log"]
<1>1. /\ consumed[Lower(n)] = "no"
      /\ consumed' = [consumed EXCEPT ![Lower(n)] = "legacy-x402"]
      /\ Goto(c, v) /\ granted' = granted /\ call[c].pc = "legacy"
  BY DEF LegacyConsume, NotConsumed, Consume, history
<1>2. c \in Verifiers /\ n \in Names
  BY <1>1, LoggingFacts DEF GrantInv, Typed
<1>3. x \in Txids /\ Lower(n) = <<x, "lower">> /\ <<x, "lower">> \in Names
  BY <1>2, NameFacts
<1>4. call[c] \in [pc : {"legacy", "log"}, name : Names]
  BY <1>1 DEF GrantInv, Typed, CallsTyped, Carries, Idle
<1>5. v \in [pc : {"legacy", "log"}, name : Names] /\ v.name = n
  BY <1>4
<1>6. Carries(c, v)
  BY <1>2, <1>5 DEF Carries
<1>7. /\ CallsTyped' /\ call'[c].name = n
      /\ \A d \in Calls \ {c} : call'[d] = call[d]
  BY <1>1, <1>5, <1>6, GotoTyped DEF GrantInv, Typed
<1>8. ~Taken(x) /\ granted[x] = 0
  BY <1>1, <1>3 DEF GrantInv, Typed, Taken
<1>9. \A t \in Txids : t # x => consumed'[<<t, "lower">>] = consumed[<<t, "lower">>]
  BY <1>1, <1>3 DEF GrantInv, Typed, Names
<1>10. consumed'[<<x, "lower">>] # "no"
  BY <1>1, <1>3 DEF GrantInv, Typed
<1>11. Typed'
  BY <1>1, <1>3, <1>7 DEF GrantInv, Typed, Purposes
<1>12. \A t \in Txids : granted'[t] <= 1 /\ (granted'[t] = 1 => consumed'[<<t, "lower">>] # "no")
  BY <1>1, <1>9, <1>10 DEF GrantInv, Taken
<1>13. \A d \in Calls \ {c} : Logging(d)' =>
         Logging(d) /\ call'[d] = call[d] /\ call[d].name[1] \in Txids \ {x}
  <2> TAKE d \in Calls \ {c}
  <2> HAVE Logging(d)'
  <2>1. Logging(d) /\ call'[d] = call[d]
    BY <1>7 DEF Logging
  <2>2. call[d].name[1] \in Txids
    BY <2>1, LoggingFacts, NameFacts DEF GrantInv, Typed, Logging
  <2>3. Taken(call[d].name[1])
    BY <2>1 DEF GrantInv
  <2> QED  BY <2>1, <2>2, <2>3, <1>8
<1>14. \A d \in Calls : Logging(d)' =>
         /\ consumed'[<<call'[d].name[1], "lower">>] # "no"
         /\ granted'[call'[d].name[1]] = 0
  <2> TAKE d \in Calls
  <2> HAVE Logging(d)'
  <2>1. CASE d = c
    BY <2>1, <1>1, <1>7, <1>8, <1>10
  <2>2. CASE d # c
    BY <2>2, <1>1, <1>9, <1>13 DEF GrantInv, Taken
  <2> QED  BY <2>1, <2>2
<1>15. \A d, e \in Calls :
         Logging(d)' /\ Logging(e)' /\ call'[d].name[1] = call'[e].name[1] => d = e
  BY <1>7, <1>13 DEF GrantInv
<1> QED  BY <1>11, <1>12, <1>14, <1>15 DEF GrantInv, Taken

\* and answers then, once.
LEMMA LegacyLogStep ==
  ASSUME GrantInv, NEW c \in Calls, LegacyLog(c)
  PROVE  GrantInv'
<1> DEFINE n == call[c].name
           x == n[1]
<1>1. /\ Logging(c) /\ Goto(c, Idle) /\ consumed' = consumed
      /\ granted' = [granted EXCEPT ![x] = @ + 1]
  BY DEF LegacyLog, Logging
<1>2. x \in Txids
  BY <1>1, LoggingFacts, NameFacts DEF GrantInv, Typed, Logging
<1>3. Taken(x) /\ granted[x] = 0
  BY <1>1 DEF GrantInv
<1>4. /\ CallsTyped' /\ call'[c] = Idle
      /\ \A d \in Calls \ {c} : call'[d] = call[d]
  BY <1>1, GotoTyped, IdleCarried DEF GrantInv, Typed
<1>5. granted'[x] = 1 /\ \A t \in Txids \ {x} : granted'[t] = granted[t]
  BY <1>1, <1>2, <1>3 DEF GrantInv, Typed
<1>6. Typed'
  BY <1>1, <1>2, <1>4 DEF GrantInv, Typed
<1>7. \A t \in Txids : granted'[t] <= 1 /\ (granted'[t] = 1 => consumed'[<<t, "lower">>] # "no")
  <2> TAKE t \in Txids
  <2>1. CASE t = x
    BY <2>1, <1>1, <1>3, <1>5 DEF Taken
  <2>2. CASE t # x
    <3>1. granted'[t] = granted[t]
      BY <2>2, <1>5
    <3>2. granted[t] <= 1 /\ (granted[t] = 1 => Taken(t))
      BY DEF GrantInv
    <3> QED  BY <3>1, <3>2, <1>1 DEF Taken
  <2> QED  BY <2>1, <2>2
<1>8. \A d \in Calls : Logging(d)' => d # c /\ Logging(d) /\ call'[d] = call[d]
  BY <1>4 DEF Logging, Idle
<1>9. \A d \in Calls : Logging(d)' => call[d].name[1] \in Txids \ {x}
  <2> TAKE d \in Calls
  <2> HAVE Logging(d)'
  <2>1. d # c /\ Logging(d)
    BY <1>8
  <2>2. call[d].name[1] \in Txids
    BY <2>1, LoggingFacts, NameFacts DEF GrantInv, Typed, Logging
  <2>3. call[d].name[1] # x
    BY <2>1, <1>1 DEF GrantInv
  <2> QED  BY <2>2, <2>3
<1>10. \A d \in Calls : Logging(d)' =>
         /\ consumed'[<<call'[d].name[1], "lower">>] # "no"
         /\ granted'[call'[d].name[1]] = 0
  BY <1>1, <1>5, <1>8, <1>9 DEF GrantInv, Taken
<1>11. \A d, e \in Calls :
         Logging(d)' /\ Logging(e)' /\ call'[d].name[1] = call'[e].name[1] => d = e
  BY <1>8 DEF GrantInv
<1> QED  BY <1>6, <1>7, <1>10, <1>11 DEF GrantInv, Taken

LEMMA InitGrant == Init => GrantInv
<1> SUFFICES ASSUME Init PROVE GrantInv
  OBVIOUS
<1>1. CallsTyped /\ \A c \in Calls : ~Logging(c)
  BY DEF Init, CallsTyped, Carries, Logging, Idle
<1>2. consumed \in [Names -> Purposes \cup {"no"}] /\ granted \in [Txids -> Nat]
  BY DEF Init
<1>3. \A t \in Txids : granted[t] = 0
  BY DEF Init
<1> QED  BY <1>1, <1>2, <1>3 DEF GrantInv, Typed

LEMMA NextGrant == GrantInv /\ [Next]_vars => GrantInv'
<1> SUFFICES ASSUME GrantInv, [Next]_vars PROVE GrantInv'
  OBVIOUS
<1>1. ASSUME NEW c \in Openers, NEW n \in Names, NEW r \in Requests, OpenRead(c, n, r)
      PROVE  GrantInv'
  BY <1>1, OpenReadStep
<1>2. ASSUME NEW c \in Openers, OpenCommit(c) PROVE GrantInv'
  BY <1>2, OpenCommitStep DEF Calls
<1>3. ASSUME NEW c \in Closers, NEW s \in Sids, CloseRead(c, s) PROVE GrantInv'
  BY <1>3, CloseReadStep
<1>4. ASSUME NEW c \in Closers, CloseWrite(c) PROVE GrantInv'
  BY <1>4, EndSteps DEF Calls
<1>5. ASSUME NEW c \in Settlers, NEW b \in Bodies, NEW k \in Keys \cup {None},
             SettleRead(c, b, k)
      PROVE  GrantInv'
  BY <1>5, SettleReadStep
<1>6. ASSUME NEW c \in Settlers, SettleCommit(c) PROVE GrantInv'
  BY <1>6, SettleCommitStep DEF Calls
<1>7. ASSUME NEW c \in Verifiers, NEW a \in Asks, LegacyRead(c, a) PROVE GrantInv'
  BY <1>7, LegacyReadStep
<1>8. ASSUME NEW c \in Verifiers, LegacyConsume(c) PROVE GrantInv'
  BY <1>8, LegacyConsumeStep DEF Calls
<1>9. ASSUME NEW c \in Verifiers, LegacyLog(c) PROVE GrantInv'
  BY <1>9, LegacyLogStep DEF Calls
<1>10. ASSUME NEW c \in Calls, Refused(c) PROVE GrantInv'
  BY <1>10, EndSteps
<1>11. CASE Restart
  BY <1>11, RestartStep
<1>12. ASSUME NEW s \in Sids, NEW rid \in Rids, NEW amount \in Amounts,
              Validate(s, rid, amount)
       PROVE  GrantInv'
  <2>1. UNCHANGED <<consumed, granted, call>>
    BY <1>12 DEF Validate, Charge
  <2> QED  BY <2>1, OtherStep
<1>13. ASSUME NEW r \in Requests, Prepare(r) PROVE GrantInv'
  <2>1. UNCHANGED <<consumed, granted, call>>
    BY <1>13 DEF Prepare, history
  <2> QED  BY <2>1, OtherStep
<1>14. ASSUME NEW b \in Bodies, VerifyV2(b) PROVE GrantInv'
  <2>1. UNCHANGED <<consumed, granted, call>>
    BY <1>14 DEF VerifyV2, history
  <2> QED  BY <2>1, OtherStep
<1>15. CASE PurgeCharges \/ PurgeKeys \/ PurgeSessions \/ PurgeRequests
  <2>1. UNCHANGED <<consumed, granted, call>>
    BY <1>15 DEF PurgeCharges, PurgeKeys, PurgeSessions, PurgeRequests, history
  <2> QED  BY <2>1, OtherStep
<1>16. CASE Tick \/ UNCHANGED vars
  <2>1. UNCHANGED <<consumed, granted, call>>
    BY <1>16 DEF Tick, vars, tables, history
  <2> QED  BY <2>1, OtherStep
<1> QED
  BY <1>1, <1>2, <1>3, <1>4, <1>5, <1>6, <1>7, <1>8, <1>9, <1>10, <1>11, <1>12,
     <1>13, <1>14, <1>15, <1>16 DEF Next

LEMMA GrantAlways == Spec => []GrantInv
BY InitGrant, NextGrant, PTL DEF Spec

\* However many calls present a transaction, in whichever spelling and to
\* whichever endpoint, it is turned into value once at most: the rows of
\* payment_consumptions are never deleted and are keyed by the lowered txid.
THEOREM GrantedAtMostOnce == Spec => []GrantedOnce
<1>1. GrantInv => GrantedOnce
  BY DEF GrantInv, GrantedOnce
<1> QED  BY <1>1, GrantAlways, PTL

-----------------------------------------------------------------------------
(* Nothing is spent for nothing.                                           *)

\* Requests, answers with a session and tombstones, and what they imply
SpentInv == GrantInv /\ DOMAIN requests = Requests /\ NothingBurnt

\* Only three steps write a tombstone or use a request; the others at most
\* make a request pending, purge it, or answer.
LEMMA SpendSteps ==
  ASSUME SpentInv, [Next]_vars
  PROVE  \/ \E c \in Openers : OpenCommit(c)
         \/ \E c \in Settlers : SettleCommit(c)
         \/ \E c \in Verifiers : LegacyConsume(c) \/ LegacyLog(c)
         \/ \E r \in Requests : Prepare(r)
         \/ PurgeRequests
         \/ UNCHANGED <<requests, consumed, granted, opened>>
BY DEF Next, vars, tables, history, OpenRead, Validate, Charge, CloseRead,
   CloseWrite, VerifyV2, SettleRead, LegacyRead, Refused, PurgeCharges,
   PurgeKeys, PurgeSessions, Restart, Tick

\* A step that turns a transaction into value as it consumes it keeps the
\* second half of NothingBurnt.
LEMMA SpentTogether ==
  ASSUME Typed, NothingBurnt, NEW n \in Names, NEW p, Consume(n, p),
         granted' = [granted EXCEPT ![n[1]] = @ + 1]
  PROVE  \A m \in Names : consumed'[m] \in {"session", "x402"} => granted'[m[1]] > 0
<1> TAKE m \in Names
<1> HAVE consumed'[m] \in {"session", "x402"}
<1>1. /\ m[1] \in Txids /\ n[1] \in Txids /\ Lower(n) \in Names
      /\ Lower(n)[1] = n[1]
  BY NameFacts
<1>2. granted[m[1]] \in Nat /\ granted[n[1]] \in Nat
  BY <1>1 DEF Typed
<1>3. CASE m[1] = n[1]
  BY <1>3, <1>1, <1>2 DEF Typed
<1>4. CASE m[1] # n[1]
  <2>1. m # Lower(n)
    BY <1>4, <1>1
  <2>2. consumed'[m] = consumed[m]
    BY <2>1, <1>1 DEF Typed, Consume
  <2>3. granted'[m[1]] = granted[m[1]]
    BY <1>4, <1>1 DEF Typed
  <2> QED  BY <2>2, <2>3 DEF NothingBurnt
<1> QED  BY <1>3, <1>4

LEMMA NextSpent == SpentInv /\ [Next]_vars => SpentInv'
<1> SUFFICES ASSUME SpentInv, [Next]_vars PROVE SpentInv'
  OBVIOUS
<1>1. GrantInv'
  BY NextGrant DEF SpentInv
<1> USE DEF SpentInv
<1>2. ASSUME NEW c \in Openers, OpenCommit(c) PROVE SpentInv'
  <2> DEFINE n == call[c].name
             r == call[c].req
  <2>1. n \in Names /\ r \in Requests
    BY <1>2, OpenFacts DEF GrantInv, Typed, OpenCommit, Calls
  <2>2. /\ requests' = [requests EXCEPT ![r].status = "used"]
        /\ opened' = opened \cup {r} /\ Consume(n, "session")
        /\ granted' = [granted EXCEPT ![n[1]] = @ + 1]
    BY <1>2 DEF OpenCommit
  <2> HIDE DEF n, r
  <2>3. \A q \in Requests : requests'[q].status = "used" => q \in opened'
    BY <2>1, <2>2 DEF NothingBurnt
  <2>4. \A m \in Names : consumed'[m] \in {"session", "x402"} => granted'[m[1]] > 0
    BY <2>1, <2>2, SpentTogether DEF GrantInv
  <2> QED  BY <1>1, <2>2, <2>3, <2>4 DEF NothingBurnt
<1>3. ASSUME NEW c \in Settlers, SettleCommit(c) PROVE SpentInv'
  <2> DEFINE n == call[c].body.name
  <2>1. n \in Names
    BY <1>3, SettleFacts DEF GrantInv, Typed, SettleCommit, Calls
  <2>2. /\ UNCHANGED <<requests, opened>> /\ Consume(n, "x402")
        /\ granted' = [granted EXCEPT ![n[1]] = @ + 1]
    BY <1>3 DEF SettleCommit
  <2> HIDE DEF n
  <2>3. \A m \in Names : consumed'[m] \in {"session", "x402"} => granted'[m[1]] > 0
    BY <2>1, <2>2, SpentTogether DEF GrantInv
  <2> QED  BY <1>1, <2>2, <2>3 DEF NothingBurnt
<1>4. ASSUME NEW c \in Verifiers, LegacyConsume(c) PROVE SpentInv'
  <2>1. call[c].name \in Names
    BY <1>4, LoggingFacts DEF GrantInv, Typed, LegacyConsume, Calls
  <2>2. /\ UNCHANGED <<requests, opened, granted>>
        /\ consumed' = [consumed EXCEPT ![Lower(call[c].name)] = "legacy-x402"]
    BY <1>4 DEF LegacyConsume, Consume, history
  <2>3. \A m \in Names : consumed'[m] \in {"session", "x402"} => consumed'[m] = consumed[m]
    BY <2>1, <2>2, NameFacts DEF GrantInv, Typed
  <2> QED  BY <1>1, <2>2, <2>3 DEF NothingBurnt
<1>5. ASSUME NEW c \in Verifiers, LegacyLog(c) PROVE SpentInv'
  <2> DEFINE x == call[c].name[1]
  <2>1. x \in Txids
    BY <1>5, LoggingFacts, NameFacts DEF GrantInv, Typed, LegacyLog, Calls
  <2>2. /\ UNCHANGED <<requests, opened, consumed>>
        /\ granted' = [granted EXCEPT ![x] = @ + 1]
    BY <1>5 DEF LegacyLog
  <2> HIDE DEF x
  <2>3. \A t \in Txids : granted[t] > 0 => granted'[t] > 0
    BY <2>1, <2>2 DEF GrantInv, Typed
  <2>4. \A m \in Names : m[1] \in Txids
    BY NameFacts
  <2> QED  BY <1>1, <2>2, <2>3, <2>4 DEF NothingBurnt
<1>6. ASSUME NEW r \in Requests, Prepare(r) PROVE SpentInv'
  <2>1. /\ UNCHANGED <<consumed, granted, opened>>
        /\ requests' = [requests EXCEPT ![r] = NewRequest]
        /\ NewRequest.status = "pending"
    BY <1>6 DEF Prepare, NewRequest, history
  <2> QED  BY <1>1, <2>1 DEF NothingBurnt
<1>7. CASE PurgeRequests
  <2>1. UNCHANGED <<consumed, granted, opened>>
    BY <1>7 DEF PurgeRequests, history
  <2>2. /\ DOMAIN requests' = Requests
        /\ \A q \in Requests : requests'[q].status = "used" => requests[q].status = "used"
    BY <1>7 DEF PurgeRequests
  <2> QED  BY <1>1, <2>1, <2>2 DEF NothingBurnt
<1>8. CASE UNCHANGED <<requests, consumed, granted, opened>>
  BY <1>1, <1>8 DEF NothingBurnt
<1> QED  BY SpendSteps, <1>2, <1>3, <1>4, <1>5, <1>6, <1>7, <1>8

\* A request is used up, and a transaction is consumed for a session or a
\* settlement, only together with the answer that gives its worth: open and
\* settle do all of it in one database transaction.
THEOREM NothingSpentForNothing == Spec => []NothingBurnt
<1>1. Init => SpentInv
  <2> SUFFICES ASSUME Init PROVE SpentInv
    OBVIOUS
  <2>1. GrantInv
    BY InitGrant
  <2> QED  BY <2>1 DEF Init, SpentInv, NothingBurnt
<1>2. SpentInv => NothingBurnt
  BY DEF SpentInv
<1> QED  BY <1>1, <1>2, NextSpent, PTL DEF Spec

-----------------------------------------------------------------------------
(* An idempotency key settles once while it is in force.                   *)

\* The latest settlement under a key has the key's row, or is too old to count.
Protected(k) ==
  settled[k] = NotSettled \/
  /\ settled[k].at \in Nat
  /\ settled[k].at + KeyTTL < clock \/ idem[k] = settled[k].at

KeyInv ==
  /\ clock \in Nat
  /\ idem \in [Keys -> Nat \cup {None}]
  /\ DOMAIN settled = Keys
  /\ \A k \in Keys : Protected(k)

LEMMA KeySteps ==
  ASSUME [Next]_vars
  PROVE  \/ UNCHANGED <<idem, settled>> /\ (clock' = clock \/ clock' = clock + 1)
         \/ PurgeKeys
         \/ \E c \in Settlers : SettleCommit(c)
BY DEF Next, vars, tables, history, Prepare, OpenRead, OpenCommit, Validate,
   Charge, CloseRead, CloseWrite, VerifyV2, SettleRead, LegacyRead,
   LegacyConsume, LegacyLog, Refused, PurgeCharges, PurgeSessions,
   PurgeRequests, Restart, Tick

\* A key that holds nothing leaves room for a settlement.
LEMMA Unheld ==
  ASSUME KeyInv, NEW k \in Keys, ~KeyHeld(k)
  PROVE  settled[k] = NotSettled \/ settled[k].at + KeyTTL < clock
BY NumbersAssumption, NoneAssumption DEF KeyInv, Protected, KeyHeld

\* A settlement takes the row of its key, if it names one.
LEMMA SettleTakes ==
  ASSUME NEW c, SettleCommit(c)
  PROVE  /\ clock' = clock
         /\ TakeKey(call[c].key, call[c].body)
BY DEF SettleCommit

LEMMA TakenKey ==
  ASSUME KeyInv, NEW k \in Keys, NEW b, k # None, TakeKey(k, b)
  PROVE  /\ ~KeyHeld(k)
         /\ idem' = [idem EXCEPT ![k] = clock]
         /\ settled' = [settled EXCEPT ![k] = [at |-> clock, txid |-> b.name[1]]]
BY DEF TakeKey

LEMMA NextKey == GrantInv /\ KeyInv /\ [Next]_vars => KeyInv'
<1> SUFFICES ASSUME GrantInv, KeyInv, [Next]_vars PROVE KeyInv'
  OBVIOUS
<1>1. CASE UNCHANGED <<idem, settled>> /\ (clock' = clock \/ clock' = clock + 1)
  BY <1>1, NumbersAssumption DEF KeyInv, Protected
<1>2. CASE PurgeKeys
  <2>1. /\ clock' = clock /\ settled' = settled
        /\ idem' = [k \in Keys |-> IF KeyHeld(k) THEN idem[k] ELSE None]
    BY <1>2 DEF PurgeKeys, history
  <2>2. \A k \in Keys : Protected(k)'
    BY <2>1, Unheld DEF KeyInv, Protected
  <2> QED  BY <2>1, <2>2 DEF KeyInv
<1>3. ASSUME NEW c \in Settlers, SettleCommit(c) PROVE KeyInv'
  <2> DEFINE j == call[c].key
             b == call[c].body
  <2>1. j \in Keys \cup {None}
    BY <1>3, SettleFacts DEF GrantInv, Typed, SettleCommit, Calls
  <2>2. clock' = clock /\ TakeKey(j, b)
    BY <1>3, SettleTakes
  <2> HIDE DEF j, b
  <2>3. CASE j = None
    <3>1. UNCHANGED <<idem, settled>>
      BY <2>2, <2>3 DEF TakeKey
    <3> QED  BY <3>1, <2>2 DEF KeyInv, Protected
  <2>4. CASE j # None
    <3>1. /\ idem' = [idem EXCEPT ![j] = clock]
          /\ settled' = [settled EXCEPT ![j] = [at |-> clock, txid |-> b.name[1]]]
      BY <2>1, <2>2, <2>4, TakenKey
    <3>2. settled'[j].at = clock /\ idem'[j] = clock
      BY <3>1, <2>1, <2>4 DEF KeyInv
    <3>3. \A k \in Keys \ {j} : settled'[k] = settled[k] /\ idem'[k] = idem[k]
      BY <3>1 DEF KeyInv
    <3>4. \A k \in Keys : Protected(k)'
      BY <3>2, <3>3, <2>2 DEF KeyInv, Protected
    <3> QED  BY <3>1, <3>4, <2>2 DEF KeyInv
  <2> QED  BY <2>3, <2>4
<1> QED  BY KeySteps, <1>1, <1>2, <1>3

LEMMA KeyStep ==
  ASSUME GrantInv, KeyInv, [Next]_vars, NEW k \in Keys, settled'[k] # settled[k]
  PROVE  settled[k] = NotSettled \/ settled[k].at + KeyTTL < clock
<1>1. PICK c \in Settlers : SettleCommit(c)
  BY KeySteps DEF PurgeKeys, history
<1> DEFINE j == call[c].key
           b == call[c].body
<1>2. TakeKey(j, b) /\ j \in Keys \cup {None}
  BY <1>1, SettleTakes, SettleFacts DEF GrantInv, Typed, SettleCommit, Calls
<1> HIDE DEF j, b
<1>3. j # None
  BY <1>2 DEF TakeKey
<1>4. /\ ~KeyHeld(j)
      /\ settled' = [settled EXCEPT ![j] = [at |-> clock, txid |-> b.name[1]]]
  BY <1>2, <1>3, TakenKey
<1>5. k = j
  BY <1>4 DEF KeyInv
<1> QED  BY <1>4, <1>5, Unheld

\* A second settlement under one idempotency key, be it a retry or a call that
\* raced the first, needs the first to be older than the key's 24 hours: the
\* row is taken in the transaction that settles, and purged only when too old.
THEOREM KeyMakesOneSettlement == Spec => KeySettlesOnce
<1>1. Init => KeyInv
  BY DEF Init, KeyInv, Protected
<1>2. GrantInv /\ KeyInv /\ [Next]_vars =>
        [\A k \in Keys : settled'[k] # settled[k] =>
           settled[k] = NotSettled \/ settled[k].at + KeyTTL < clock]_vars
  BY KeyStep
<1> QED  BY <1>1, <1>2, NextKey, GrantAlways, PTL DEF Spec, KeySettlesOnce

-----------------------------------------------------------------------------
(* Types.                                                                  *)

\* A deposit of n becomes a session, in a row nobody has used.
LEMMA Inserted ==
  ASSUME TypeOK, NEW n \in Names, NEW balance \in Int, NEW cost \in Nat,
         InsertSession(n, balance, cost)
  PROVE  \E s \in Sids :
           /\ balance \in Nat /\ sessions[s].status = "never"
           /\ sessions' = [sessions EXCEPT ![s] =
                [dep |-> Lower(n), bal |-> balance, left |-> balance, made |-> 0,
                 status |-> "active", expires |-> clock + SessionTTL,
                 created |-> clock]]
           /\ sessions' \in [Sids -> SessionRow]
<1>1. PICK s \in FreshSids :
        sessions' = [sessions EXCEPT ![s] =
          [dep |-> Lower(n), bal |-> balance, left |-> balance, made |-> 0,
           status |-> "active", expires |-> clock + SessionTTL, created |-> clock]]
  BY DEF InsertSession
<1>2. balance \in Nat
  BY DEF InsertSession
<1>3. s \in Sids /\ sessions[s].status = "never"
  BY DEF FreshSids
<1>4. Lower(n) \in Names
  BY NameFacts
<1>5. clock + SessionTTL \in Nat /\ clock \in Nat /\ sessions \in [Sids -> SessionRow]
  BY NumbersAssumption DEF TypeOK
<1>6. sessions' \in [Sids -> SessionRow]
  BY <1>1, <1>2, <1>3, <1>4, <1>5 DEF SessionRow
<1> QED  BY <1>1, <1>2, <1>3, <1>6

\* What the merchant's receiver or a deposit address got is a number.
LEMMA PaidIs ==
  ASSUME NEW n \in Names, NEW x \in Receivers
  PROVE  PaidTo(n, x) \in Nat
BY NameFacts, PaysAssumption DEF PaidTo

\* A commit may open a session, and nothing else on the sessions' side.
LEMMA CommitSteps ==
  ASSUME TypeOK, GrantInv, NEW c \in Openers \cup Settlers,
         OpenCommit(c) \/ SettleCommit(c)
  PROVE  /\ UNCHANGED <<charges, served>>
         /\ \/ sessions' = sessions
            \/ \E s \in Sids, balance \in Nat, n \in Names :
                 /\ sessions[s].status = "never"
                 /\ sessions' = [sessions EXCEPT ![s] =
                      [dep |-> Lower(n), bal |-> balance, left |-> balance, made |-> 0,
                       status |-> "active", expires |-> clock + SessionTTL,
                       created |-> clock]]
         /\ sessions' \in [Sids -> SessionRow]
<1>1. UNCHANGED <<charges, served>>
  BY DEF OpenCommit, SettleCommit
<1>2. CASE OpenCommit(c)
  <2>1. call[c].name \in Names /\ call[c].req \in Requests
    BY <1>2, OpenFacts DEF GrantInv, Typed, OpenCommit, Calls
  <2>2. PaidTo(call[c].name, call[c].req) \in Nat /\ DefaultCost \in Nat
    BY <2>1, PaidIs, NumbersAssumption DEF Receivers
  <2>3. InsertSession(call[c].name, PaidTo(call[c].name, call[c].req), DefaultCost)
    BY <1>2 DEF OpenCommit
  <2> QED  BY <1>1, <2>1, <2>2, <2>3, Inserted
<1>3. CASE SettleCommit(c)
  <2> DEFINE b == call[c].body
  <2>1. b \in BodyType
    BY <1>3 DEF GrantInv, Typed, SettleCommit, Calls, CallsTyped, Carries, Idle
  <2>2. b.name \in Names /\ b.price \in Nat /\ b.cost \in Nat
    BY <2>1 DEF BodyType
  <2>3. FundSession(b)
    BY <1>3 DEF SettleCommit
  <2> HIDE DEF b
  <2>4. PaidTo(b.name, "shop") - b.price \in Int
    BY <2>2, PaidIs DEF Receivers
  <2>5. sessions' = sessions \/ InsertSession(b.name, PaidTo(b.name, "shop") - b.price, b.cost)
    BY <2>3 DEF FundSession
  <2>6. sessions' = sessions => sessions' \in [Sids -> SessionRow]
    BY DEF TypeOK
  <2> QED  BY <1>1, <2>2, <2>4, <2>5, <2>6, Inserted
<1> QED  BY <1>2, <1>3

\* Calls are typed as TypeOK wants them.
LEMMA CallsAre == CallsTyped <=> DOMAIN call = Calls /\ \A c \in Calls : CallType(c)
BY DEF CallsTyped, Carries, CallType

\* The types of the tables a commit writes.
LEMMA CommitTypes ==
  ASSUME TypeOK, GrantInv, NEW c \in Openers \cup Settlers,
         OpenCommit(c) \/ SettleCommit(c)
  PROVE  /\ clock' = clock /\ restarts' = restarts /\ verified' = verified
         /\ purge' = purge
         /\ requests' \in [Requests -> [status : {"none", "pending", "used", "purged"},
                                        expires : Nat]]
         /\ idem' \in [Keys -> Nat \cup {None}]
         /\ opened' \subseteq Requests
         /\ settled' \in [Keys -> [at : Nat, txid : Txids \cup {None}]]
<1>1. CASE OpenCommit(c)
  <2>1. call[c].req \in Requests
    BY <1>1, OpenFacts DEF GrantInv, Typed, OpenCommit, Calls
  <2>2. requests' = [requests EXCEPT ![call[c].req].status = "used"]
    BY <1>1 DEF OpenCommit
  <2>3. requests' \in [Requests -> [status : {"none", "pending", "used", "purged"},
                                    expires : Nat]]
    BY <2>1, <2>2 DEF TypeOK
  <2> QED  BY <1>1, <2>1, <2>3 DEF OpenCommit, TypeOK
<1>2. CASE SettleCommit(c)
  <2> DEFINE b == call[c].body
             k == call[c].key
  <2>1. b.name \in Names /\ k \in Keys \cup {None}
    BY <1>2, SettleFacts DEF GrantInv, Typed, SettleCommit, Calls
  <2>2. TakeKey(k, b)
    BY <1>2 DEF SettleCommit
  <2> HIDE DEF b, k
  <2>3. b.name[1] \in Txids
    BY <2>1, NameFacts
  <2>4. /\ idem' \in [Keys -> Nat \cup {None}]
        /\ settled' \in [Keys -> [at : Nat, txid : Txids \cup {None}]]
    <3>1. clock \in Nat /\ [at |-> clock, txid |-> b.name[1]] \in [at : Nat, txid : Txids \cup {None}]
      BY <2>3 DEF TypeOK
    <3>2. CASE k = None
      BY <2>2, <3>2 DEF TakeKey, TypeOK
    <3>3. CASE k # None
      <4>1. /\ idem' = [idem EXCEPT ![k] = clock]
            /\ settled' = [settled EXCEPT ![k] = [at |-> clock, txid |-> b.name[1]]]
        BY <2>2, <3>3 DEF TakeKey
      <4> QED  BY <2>1, <3>1, <3>3, <4>1 DEF TypeOK
    <3> QED  BY <3>2, <3>3
  <2> QED  BY <1>2, <2>4 DEF SettleCommit, TypeOK
<1> QED  BY <1>1, <1>2

\* The types of the tables any other step writes.
LEMMA TableTypes ==
  ASSUME TypeOK, GrantInv, [Next]_vars
  PROVE  \/ \E c \in Openers \cup Settlers : OpenCommit(c) \/ SettleCommit(c)
         \/ /\ clock' \in Nat /\ restarts' \in Nat
            /\ requests' \in [Requests -> [status : {"none", "pending", "used", "purged"},
                                           expires : Nat]]
            /\ sessions' \in [Sids -> SessionRow]
            /\ charges' \in [Sids -> [Rids -> Nat]]
            /\ verified' \subseteq Names
            /\ idem' \in [Keys -> Nat \cup {None}]
            /\ purge' \in {"charges", "keys", "sessions", "requests"}
            /\ opened' \subseteq Requests
            /\ served' \in [Sids -> [Rids -> Nat]]
            /\ settled' \in [Keys -> [at : Nat, txid : Txids \cup {None}]]
<1> DEFINE Rest ==
             /\ clock' \in Nat /\ restarts' \in Nat
             /\ requests' \in [Requests -> [status : {"none", "pending", "used", "purged"},
                                            expires : Nat]]
             /\ sessions' \in [Sids -> SessionRow]
             /\ charges' \in [Sids -> [Rids -> Nat]]
             /\ verified' \subseteq Names
             /\ idem' \in [Keys -> Nat \cup {None}]
             /\ purge' \in {"charges", "keys", "sessions", "requests"}
             /\ opened' \subseteq Requests
             /\ served' \in [Sids -> [Rids -> Nat]]
             /\ settled' \in [Keys -> [at : Nat, txid : Txids \cup {None}]]
<1>1. ASSUME NEW r \in Requests, Prepare(r) PROVE Rest
  <2>1. NewRequest \in [status : {"none", "pending", "used", "purged"}, expires : Nat]
    BY NumbersAssumption DEF NewRequest, TypeOK
  <2> QED  BY <1>1, <2>1 DEF Prepare, history, TypeOK
<1>2. ASSUME NEW s \in Sids, NEW rid \in Rids, NEW amount \in Amounts,
             Validate(s, rid, amount)
      PROVE  Rest
  <2>1. amount \in Nat
    BY AmountsAssumption
  <2>2. sessions' \in [Sids -> SessionRow]
    <3>1. sessions[s] \in SessionRow /\ sessions[s].left >= amount
      BY <1>2 DEF Validate, Charge, TypeOK
    <3>2. sessions[s].left - amount \in Nat /\ sessions[s].made + 1 \in Nat
      BY <2>1, <3>1 DEF SessionRow
    <3>3. sessions' = [sessions EXCEPT ![s] =
            [sessions[s] EXCEPT !.left = sessions[s].left - amount,
                                !.made = sessions[s].made + 1]]
      BY <1>2, <3>1 DEF Validate, Charge, TypeOK, SessionRow
    <3>4. [sessions[s] EXCEPT !.left = sessions[s].left - amount,
                              !.made = sessions[s].made + 1] \in SessionRow
      BY <3>1, <3>2 DEF SessionRow
    <3> QED  BY <3>3, <3>4 DEF TypeOK
  <2>3. charges' \in [Sids -> [Rids -> Nat]]
    BY <1>2, <2>1 DEF Validate, Charge, TypeOK
  <2>4. served' \in [Sids -> [Rids -> Nat]]
    BY <1>2 DEF Validate, Charge, TypeOK
  <2> QED  BY <1>2, <2>2, <2>3, <2>4 DEF Validate, Charge, TypeOK
<1>3. ASSUME NEW c \in Closers, CloseWrite(c) PROVE Rest
  <2>1. sessions' = sessions
        \/ (call[c].sid \in Sids
            /\ sessions' = [sessions EXCEPT ![call[c].sid].status = "closed"])
    BY <1>3 DEF CloseWrite, GrantInv, Typed, CallsTyped, Carries, Idle, Calls
  <2>2. \A s \in Sids : [sessions[s] EXCEPT !.status = "closed"] \in SessionRow
    <3>1. \A row \in SessionRow : [row EXCEPT !.status = "closed"] \in SessionRow
      BY DEF SessionRow
    <3> QED  BY <3>1 DEF TypeOK
  <2>3. sessions' \in [Sids -> SessionRow]
    BY <2>1, <2>2 DEF TypeOK
  <2> QED  BY <1>3, <2>3 DEF CloseWrite, history, TypeOK
<1>4. ASSUME NEW n \in Names, LogVerified(n) PROVE verified' \subseteq Names
  BY <1>4 DEF LogVerified, TypeOK
<1>5. ASSUME NEW b \in Bodies, VerifyV2(b) PROVE Rest
  <2>1. Parsed(b).name \in Names
    BY ParsedTyped DEF BodyType
  <2> QED  BY <1>4, <1>5, <2>1 DEF VerifyV2, history, TypeOK
<1>6. ASSUME NEW c \in Settlers, NEW b \in Bodies, NEW k \in Keys \cup {None},
             SettleRead(c, b, k)
      PROVE  Rest
  <2>1. Parsed(b).name \in Names
    BY ParsedTyped DEF BodyType
  <2> QED  BY <1>4, <1>6, <2>1 DEF SettleRead, history, TypeOK
<1>7. ASSUME NEW c \in Verifiers, LegacyLog(c) PROVE Rest
  <2>1. call[c].name \in Names
    BY <1>7, LoggingFacts DEF GrantInv, Typed, LegacyLog, Calls
  <2> QED  BY <1>4, <1>7, <2>1 DEF LegacyLog, TypeOK
<1>8. ASSUME NEW c \in Verifiers, LegacyConsume(c) PROVE Rest
  BY <1>8 DEF LegacyConsume, history, TypeOK
<1>9. CASE PurgeCharges
  BY <1>9 DEF PurgeCharges, history, TypeOK
<1>10. CASE PurgeKeys
  BY <1>10 DEF PurgeKeys, history, TypeOK
<1>11. CASE PurgeSessions
  <2>1. [NoSession EXCEPT !.status = "purged"] \in SessionRow
    BY DEF NoSession, SessionRow
  <2> QED  BY <1>11, <2>1 DEF PurgeSessions, history, TypeOK
<1>12. CASE PurgeRequests
  BY <1>12 DEF PurgeRequests, history, TypeOK
<1>13. CASE Restart \/ Tick \/ UNCHANGED vars
  BY <1>13 DEF Restart, Tick, vars, tables, history, TypeOK
<1>14. CASE \/ \E c \in Openers, n \in Names, r \in Requests : OpenRead(c, n, r)
            \/ \E c \in Closers, s \in Sids : CloseRead(c, s)
            \/ \E c \in Verifiers, a \in Asks : LegacyRead(c, a)
            \/ \E c \in Calls : Refused(c)
  BY <1>14 DEF OpenRead, CloseRead, LegacyRead, Refused, tables, history, TypeOK
<1> QED  BY <1>1, <1>2, <1>3, <1>5, <1>6, <1>7, <1>8, <1>9, <1>10, <1>11, <1>12,
            <1>13, <1>14 DEF Next

\* Every step keeps the types.
LEMMA NextTypes == TypeOK /\ GrantInv /\ [Next]_vars => TypeOK'
<1> SUFFICES ASSUME TypeOK, GrantInv, [Next]_vars PROVE TypeOK'
  OBVIOUS
<1>1. GrantInv'
  BY NextGrant
<1>2. /\ consumed' \in [Names -> Purposes \cup {"no"}]
      /\ granted' \in [Txids -> Nat]
      /\ DOMAIN call' = Calls /\ \A c \in Calls : CallType(c)'
  BY <1>1, CallsAre DEF GrantInv, Typed, CallsTyped, Carries, CallType
<1>3. CASE \E c \in Openers \cup Settlers : OpenCommit(c) \/ SettleCommit(c)
  <2>1. PICK c \in Openers \cup Settlers : OpenCommit(c) \/ SettleCommit(c)
    BY <1>3
  <2>2. sessions' \in [Sids -> SessionRow] /\ UNCHANGED <<charges, served>>
    BY <2>1, CommitSteps
  <2> QED  BY <1>2, <2>1, <2>2, CommitTypes DEF TypeOK
<1>4. CASE ~ \E c \in Openers \cup Settlers : OpenCommit(c) \/ SettleCommit(c)
  BY <1>2, <1>4, TableTypes DEF TypeOK
<1> QED  BY <1>3, <1>4

-----------------------------------------------------------------------------
(* Every session's money is accounted for.                                 *)

\* Nothing is charged or answered without a session, and a session changes in
\* no other step than these.
LEMMA MeterSteps ==
  ASSUME [Next]_vars
  PROVE  \/ UNCHANGED <<sessions, charges, served>>
         \/ \E c \in Openers \cup Settlers : OpenCommit(c) \/ SettleCommit(c)
         \/ \E s \in Sids, rid \in Rids, amount \in Amounts : Validate(s, rid, amount)
         \/ \E c \in Closers : CloseWrite(c)
         \/ PurgeCharges \/ PurgeSessions
BY DEF Next, vars, tables, history, Prepare, OpenRead, CloseRead, VerifyV2,
   SettleRead, LegacyRead, LegacyConsume, LegacyLog, Refused, PurgeKeys,
   PurgeRequests, Restart, Tick

\* MeterInv for one session
Meter(s) ==
  /\ \A rid \in Rids : served[s][rid] <= 1
  /\ sessions[s].status = "never" => Charged(s) = {} /\ Answered(s) = {}
  /\ Live(s) =>
       /\ Charged(s) = Answered(s) /\ IsFiniteSet(Charged(s))
       /\ sessions[s].left + SumFunctionOnSet(charges[s], Charged(s)) = sessions[s].bal
       /\ sessions[s].made = Cardinality(Charged(s))

\* A session keeps its meter when its rows stay, and its status too or only
\* from open to closed.
LEMMA MeterStays ==
  ASSUME NEW s \in Sids, Meter(s), charges'[s] = charges[s], served'[s] = served[s],
         \/ sessions'[s] = sessions[s]
         \/ /\ Live(s) /\ Live(s)'
            /\ sessions'[s].left = sessions[s].left /\ sessions'[s].bal = sessions[s].bal
            /\ sessions'[s].made = sessions[s].made
  PROVE  Meter(s)'
<1>1. Charged(s)' = Charged(s) /\ Answered(s)' = Answered(s)
  BY DEF Charged, Answered
<1> QED  BY <1>1 DEF Meter, Live

-----------------------------------------------------------------------------
(* Sums, by counting coins.                                                *)

\* A sum counts its coins: f[x] of them for each x of S.
Coins(f, S) == UNION {{x} \X (1..f[x]) : x \in S}
CoinSums(f, S) == [T \in SUBSET S |-> Cardinality(Coins(f, T))]

\* Coins of a finite set are finitely many, and those of one element more are
\* as many more.
LEMMA CoinsAdd ==
  ASSUME NEW f, NEW S, IsFiniteSet(S), \A x \in S : f[x] \in Nat,
         NEW T \in SUBSET S, NEW y \in T
  PROVE  /\ Cardinality(Coins(f, T)) \in Nat
         /\ Cardinality(Coins(f, T)) = f[y] + Cardinality(Coins(f, T \ {y}))
<1> DEFINE Of(x) == {x} \X (1..f[x])
<1>1. IsFiniteSet(T) /\ f[y] \in Nat
  BY FS_Subset
<1>2. ASSUME NEW x \in T PROVE IsFiniteSet(Of(x)) /\ Cardinality(Of(x)) = f[x]
  <2>1. f[x] \in Nat
    OBVIOUS
  <2>2. IsFiniteSet(1..f[x]) /\ Cardinality(1..f[x]) = f[x]
    <3>1. \A n \in Int : /\ IsFiniteSet(1..n)
                         /\ Cardinality(1..n) = IF 1 > n THEN 0 ELSE n - 1 + 1
      BY FS_Interval
    <3>2. \A n \in Nat : n = IF 1 > n THEN 0 ELSE n - 1 + 1
      OBVIOUS
    <3> QED  BY <2>1, <3>1, <3>2
  <2>3. IsFiniteSet({x}) /\ Cardinality({x}) = 1
    BY FS_Singleton
  <2>4. IsFiniteSet(Of(x)) /\ Cardinality(Of(x)) = 1 * f[x]
    BY <2>2, <2>3, FS_Product
  <2>5. 1 * f[x] = f[x]
    BY <2>1
  <2> QED  BY <2>4, <2>5
<1>3. ASSUME NEW U \in SUBSET T PROVE IsFiniteSet(Coins(f, U))
  <2>1. IsFiniteSet(U)
    BY <1>1, FS_Subset
  <2> DEFINE W == {Of(x) : x \in U}
             h == [x \in U |-> Of(x)]
  <2>2. h \in Surjection(U, W)
    BY DEF Surjection
  <2>3. IsFiniteSet(W)
    BY <2>1, <2>2, FS_Surjection
  <2>4. \A V \in W : IsFiniteSet(V)
    BY <1>2
  <2> QED  BY <2>3, <2>4, FS_UNION DEF Coins
<1>4. /\ Coins(f, T) = Coins(f, T \ {y}) \cup Of(y)
      /\ Coins(f, T \ {y}) \cap Of(y) = {}
  BY DEF Coins
<1>5. IsFiniteSet(Coins(f, T \ {y})) /\ IsFiniteSet(Of(y)) /\ Cardinality(Of(y)) = f[y]
  BY <1>2, <1>3
<1>6. /\ Cardinality(Coins(f, T)) = Cardinality(Coins(f, T \ {y})) + f[y] - Cardinality({})
      /\ Cardinality(Coins(f, T \ {y})) \in Nat
  <2> HIDE DEF Of
  <2> QED  BY <1>4, <1>5, FS_Union, FS_CardinalityType
<1> QED  BY <1>1, <1>6, FS_EmptySet

\* The fold is the one solution of this recursion.
IsFold(g, f, S) ==
  g = [T \in SUBSET S |->
         IF T = {} THEN 0 ELSE f[CHOOSE x \in T : TRUE] + g[T \ {CHOOSE x \in T : TRUE}]]

\* A sum of naturals is the number of its coins.
LEMMA SumIsCoins ==
  ASSUME NEW f, NEW S, IsFiniteSet(S), \A x \in S : f[x] \in Nat
  PROVE  SumFunctionOnSet(f, S) = Cardinality(Coins(f, S))
<1> DEFINE c == CoinSums(f, S)
           pick(T) == CHOOSE x \in T : TRUE
<1>1. SumFunctionOnSet(f, S) = (CHOOSE g : IsFold(g, f, S))[S]
  BY DEF SumFunctionOnSet, FoldFunctionOnSet, MapThenFoldSet, IsFold
<1>2. \A T \in SUBSET S : T # {} => pick(T) \in T
  OBVIOUS
<1>3. Cardinality(Coins(f, {})) = 0
  BY FS_EmptySet DEF Coins
<1>4. ASSUME NEW T \in SUBSET S, T # {} PROVE c[T] = f[pick(T)] + c[T \ {pick(T)}]
  <2> DEFINE y == pick(T)
  <2>1. y \in T
    BY <1>2, <1>4
  <2> HIDE DEF y
  <2>2. Cardinality(Coins(f, T)) = f[y] + Cardinality(Coins(f, T \ {y}))
    BY <2>1, CoinsAdd
  <2>3. c[T] = Cardinality(Coins(f, T)) /\ c[T \ {y}] = Cardinality(Coins(f, T \ {y}))
    BY DEF CoinSums
  <2> QED  BY <2>2, <2>3 DEF y
<1>5. c[{}] = 0
  BY <1>3 DEF CoinSums
<1>6. c = [T \in SUBSET S |-> c[T]]
  BY DEF CoinSums
<1>7. IsFold(c, f, S)
  <2> HIDE DEF c
  <2> QED  BY <1>4, <1>5, <1>6 DEF IsFold
<1>8. ASSUME NEW g, IsFold(g, f, S) PROVE g = c
  <2> DEFINE Bad == {T \in FiniteSubsetsOf(S) : g[T] # c[T]}
  <2>1. SUFFICES ASSUME Bad # {} PROVE FALSE
    <3>1. \A T \in SUBSET S : T \in FiniteSubsetsOf(S)
      BY FS_Subset DEF FiniteSubsetsOf
    <3>2. g = [T \in SUBSET S |-> g[T]]
      BY <1>8 DEF IsFold
    <3>3. \A T \in SUBSET S : g[T] = c[T]
      BY <2>1, <3>1
    <3> HIDE DEF c
    <3> QED  BY <3>2, <3>3, <1>6
  <2>2. PICK B \in Bad : \A A \in Bad : ~ (<<A, B>> \in StrictSubsetOrdering(S))
    BY <2>1, WFMin, FS_StrictSubsetOrderingWellFounded
  <2>3. B \in SUBSET S /\ IsFiniteSet(B)
    BY <2>2 DEF FiniteSubsetsOf
  <2>4. B # {}
    BY <1>5, <1>8, <2>2, <2>3 DEF IsFold
  <2> DEFINE A == B \ {pick(B)}
  <2>5. A \in FiniteSubsetsOf(S) /\ <<A, B>> \in StrictSubsetOrdering(S)
    <3>1. A \subseteq S /\ A \subseteq B /\ A # B
      BY <1>2, <2>3, <2>4
    <3>2. IsFiniteSet(A)
      BY <2>3, FS_RemoveElement
    <3> HIDE DEF A
    <3> QED  BY <2>3, <3>1, <3>2 DEF FiniteSubsetsOf, StrictSubsetOrdering
  <2>6. g[A] = c[A]
    BY <2>2, <2>5
  <2>7. g[B] = f[pick(B)] + g[A]
    BY <1>8, <2>3, <2>4 DEF IsFold
  <2>8. c[B] = f[pick(B)] + c[A]
    BY <1>4, <2>3, <2>4
  <2> HIDE DEF c
  <2> QED  BY <2>2, <2>6, <2>7, <2>8
<1>9. (CHOOSE g : IsFold(g, f, S)) = c
  BY <1>7, <1>8
<1> HIDE DEF c
<1>10. SumFunctionOnSet(f, S) = c[S]
  BY <1>1, <1>9
<1> QED  BY <1>10 DEF c, CoinSums

LEMMA SumEmpty == \A f : SumFunctionOnSet(f, {}) = 0
<1> TAKE f
<1>1. IsFiniteSet({}) /\ Cardinality({}) = 0 /\ Coins(f, {}) = {}
  BY FS_EmptySet DEF Coins
<1>2. SumFunctionOnSet(f, {}) = Cardinality(Coins(f, {}))
  BY <1>1, SumIsCoins
<1> QED  BY <1>1, <1>2

\* A sum of naturals is a natural.
LEMMA SumIsNat ==
  ASSUME NEW f, NEW S, IsFiniteSet(S), \A x \in S : f[x] \in Nat
  PROVE  SumFunctionOnSet(f, S) \in Nat
<1>1. CASE S = {}
  BY <1>1, SumEmpty
<1>2. CASE S # {}
  <2>1. PICK y \in S : TRUE
    BY <1>2
  <2>2. S \in SUBSET S
    OBVIOUS
  <2>3. Cardinality(Coins(f, S)) \in Nat
    BY <2>1, <2>2, CoinsAdd
  <2> QED  BY <2>3, SumIsCoins
<1> QED  BY <1>1, <1>2

\* One element more.
LEMMA SumAdd ==
  ASSUME NEW f, NEW S, IsFiniteSet(S), NEW y, y \notin S,
         \A x \in S \cup {y} : f[x] \in Nat
  PROVE  /\ SumFunctionOnSet(f, S) \in Nat
         /\ SumFunctionOnSet(f, S \cup {y}) = SumFunctionOnSet(f, S) + f[y]
<1> DEFINE T == S \cup {y}
<1>1. IsFiniteSet(T) /\ T \in SUBSET T /\ y \in T /\ T \ {y} = S /\ S \in SUBSET T
  BY FS_AddElement
<1>2. \A x \in T : f[x] \in Nat
  OBVIOUS
<1> HIDE DEF T
<1>3. /\ SumFunctionOnSet(f, T) = Cardinality(Coins(f, T))
      /\ SumFunctionOnSet(f, S) = Cardinality(Coins(f, S))
  BY <1>1, <1>2, SumIsCoins
<1>4. Cardinality(Coins(f, T)) = f[y] + Cardinality(Coins(f, T \ {y}))
  <2>1. IsFiniteSet(T) /\ T \in SUBSET T /\ y \in T
    BY <1>1
  <2> QED  BY <1>2, <2>1, CoinsAdd
<1>5. SumFunctionOnSet(f, S) \in Nat /\ f[y] \in Nat
  BY SumIsNat
<1>6. SumFunctionOnSet(f, T) = f[y] + SumFunctionOnSet(f, S)
  BY <1>1, <1>3, <1>4
<1>7. SumFunctionOnSet(f, T) = SumFunctionOnSet(f, S) + f[y]
  BY <1>5, <1>6
<1> QED  BY <1>5, <1>7 DEF T

\* A sum depends on the values it adds.
LEMMA SumSame ==
  ASSUME NEW f, NEW g, NEW S, IsFiniteSet(S), \A x \in S : f[x] \in Nat /\ f[x] = g[x]
  PROVE  SumFunctionOnSet(f, S) = SumFunctionOnSet(g, S)
<1>1. Coins(f, S) = Coins(g, S)
  BY DEF Coins
<1> QED  BY <1>1, SumIsCoins

-----------------------------------------------------------------------------
(* Meters.                                                                 *)

\* A session that opens has charged nothing.
LEMMA MeterOpens ==
  ASSUME TypeOK, NEW s \in Sids, Meter(s), UNCHANGED <<charges, served>>,
         sessions[s].status = "never", sessions'[s].status = "active",
         sessions'[s].left = sessions'[s].bal, sessions'[s].made = 0,
         sessions'[s].bal \in Nat
  PROVE  Meter(s)'
<1>1. Charged(s)' = {} /\ Answered(s)' = {}
  BY DEF Charged, Answered, Meter
<1>2. SumFunctionOnSet(charges[s], {}) = 0
  BY SumEmpty
<1>3. IsFiniteSet({}) /\ Cardinality({}) = 0
  BY FS_EmptySet
<1> QED  BY <1>1, <1>2, <1>3 DEF Meter

\* A charge takes from what is left what its row says, for one request id.
LEMMA MeterCharges ==
  ASSUME TypeOK, NEW s \in Sids, Meter(s), NEW rid \in Rids, NEW amount \in Amounts,
         Validate(s, rid, amount)
  PROVE  Meter(s)'
<1> DEFINE C == Charged(s)
           f == charges[s]
           g == charges'[s]
<1>1. /\ amount \in Nat /\ amount > 0 /\ charges[s][rid] = 0
      /\ sessions[s].status = "active" /\ sessions[s].left >= amount
      /\ sessions[s].left \in Nat /\ sessions[s].made \in Nat /\ sessions[s].bal \in Nat
  BY AmountsAssumption DEF Validate, Charge, TypeOK, SessionRow
<1>2. /\ sessions'[s].status = "active" /\ sessions'[s].bal = sessions[s].bal
      /\ sessions'[s].left = sessions[s].left - amount
      /\ sessions'[s].made = sessions[s].made + 1
  BY DEF Validate, Charge, TypeOK, SessionRow
<1>3. /\ g = [f EXCEPT ![rid] = amount]
      /\ served'[s] = [served[s] EXCEPT ![rid] = @ + 1]
  BY DEF Validate, Charge, TypeOK
<1>4. f \in [Rids -> Nat] /\ served[s] \in [Rids -> Nat]
  BY DEF TypeOK
<1>5. /\ C = Answered(s) /\ IsFiniteSet(C) /\ C \subseteq Rids
      /\ sessions[s].left + SumFunctionOnSet(f, C) = sessions[s].bal
      /\ sessions[s].made = Cardinality(C)
  BY <1>1 DEF Meter, Live, Charged
<1>6. rid \notin C /\ served[s][rid] = 0
  <2>1. rid \notin C
    BY <1>1 DEF Charged
  <2> QED  BY <1>4, <1>5, <2>1 DEF Answered
<1>7. Charged(s)' = C \cup {rid} /\ Answered(s)' = C \cup {rid}
  <2>1. Charged(s)' = C \cup {rid}
    BY <1>1, <1>3, <1>4 DEF Charged
  <2>2. Answered(s)' = Answered(s) \cup {rid}
    BY <1>3, <1>4, <1>6 DEF Answered
  <2> QED  BY <1>5, <2>1, <2>2
<1>8. \A q \in Rids : served'[s][q] <= 1
  BY <1>3, <1>4, <1>6 DEF Meter
<1>9. IsFiniteSet(C \cup {rid}) /\ Cardinality(C \cup {rid}) = Cardinality(C) + 1
  BY <1>5, <1>6, FS_AddElement
<1> HIDE DEF C, f
<1>10. SumFunctionOnSet(g, C \cup {rid}) = SumFunctionOnSet(f, C) + amount
  <2>1. \A q \in C \cup {rid} : g[q] \in Nat
    BY <1>1, <1>3, <1>4, <1>5
  <2>2. g[rid] = amount /\ \A q \in C : f[q] \in Nat /\ f[q] = g[q]
    BY <1>3, <1>4, <1>5, <1>6
  <2> HIDE DEF g
  <2>3. SumFunctionOnSet(g, C \cup {rid}) = SumFunctionOnSet(g, C) + g[rid]
    BY <1>5, <1>6, <2>1, SumAdd
  <2>4. SumFunctionOnSet(f, C) = SumFunctionOnSet(g, C)
    BY <1>5, <2>2, SumSame
  <2> QED  BY <2>2, <2>3, <2>4
<1>11. SumFunctionOnSet(f, C) \in Nat
  BY <1>4, <1>5, SumIsNat
<1>12. sessions'[s].left + SumFunctionOnSet(g, C \cup {rid}) = sessions'[s].bal
  BY <1>1, <1>2, <1>5, <1>10, <1>11
<1>13. sessions'[s].made = Cardinality(C \cup {rid})
  BY <1>2, <1>5, <1>9
<1> QED  BY <1>2, <1>7, <1>8, <1>9, <1>12, <1>13 DEF Meter, g

\* Every step keeps every meter.
LEMMA NextMeter ==
  ASSUME TypeOK, GrantInv, MeterInv, [Next]_vars
  PROVE  MeterInv'
<1> SUFFICES ASSUME NEW s \in Sids PROVE Meter(s)'
  BY DEF MeterInv, Meter
<1>1. Meter(s) /\ sessions[s] \in SessionRow
  BY DEF MeterInv, Meter, TypeOK
<1>2. CASE UNCHANGED <<sessions, charges, served>>
  BY <1>1, <1>2, MeterStays
<1>3. ASSUME NEW c \in Openers \cup Settlers, OpenCommit(c) \/ SettleCommit(c)
      PROVE  Meter(s)'
  <2>1. UNCHANGED <<charges, served>>
    BY <1>3, CommitSteps
  <2>2. CASE sessions'[s] = sessions[s]
    BY <1>1, <2>1, <2>2, MeterStays
  <2>3. CASE sessions'[s] # sessions[s]
    <3>1. PICK balance \in Nat, n \in Names :
            /\ sessions[s].status = "never"
            /\ sessions'[s] = [dep |-> Lower(n), bal |-> balance, left |-> balance,
                               made |-> 0, status |-> "active",
                               expires |-> clock + SessionTTL, created |-> clock]
      <4>1. PICK z \in Sids, balance \in Nat, n \in Names :
              /\ sessions[z].status = "never"
              /\ sessions' = [sessions EXCEPT ![z] =
                   [dep |-> Lower(n), bal |-> balance, left |-> balance, made |-> 0,
                    status |-> "active", expires |-> clock + SessionTTL,
                    created |-> clock]]
        BY <1>3, <2>3, CommitSteps
      <4>2. z = s
        BY <2>3, <4>1 DEF TypeOK
      <4>3. sessions'[s] = [dep |-> Lower(n), bal |-> balance, left |-> balance,
                            made |-> 0, status |-> "active",
                            expires |-> clock + SessionTTL, created |-> clock]
        BY <4>1, <4>2 DEF TypeOK
      <4> QED  BY <4>1, <4>2, <4>3
    <3> QED  BY <1>1, <2>1, <3>1, MeterOpens
  <2> QED  BY <2>2, <2>3
<1>4. ASSUME NEW z \in Sids, NEW rid \in Rids, NEW amount \in Amounts,
             Validate(z, rid, amount)
      PROVE  Meter(s)'
  <2>1. CASE z = s
    BY <1>1, <1>4, <2>1, MeterCharges
  <2>2. CASE z # s
    <3>1. charges'[s] = charges[s] /\ served'[s] = served[s] /\ sessions'[s] = sessions[s]
      BY <1>4, <2>2 DEF Validate, Charge, TypeOK
    <3> QED  BY <1>1, <3>1, MeterStays
  <2> QED  BY <2>1, <2>2
<1>5. ASSUME NEW c \in Closers, CloseWrite(c) PROVE Meter(s)'
  <2>1. UNCHANGED <<charges, served>>
    BY <1>5 DEF CloseWrite, history
  <2>2. CASE sessions'[s] = sessions[s]
    BY <1>1, <2>1, <2>2, MeterStays
  <2>3. CASE sessions'[s] # sessions[s]
    <3>1. Live(s) /\ sessions'[s] = [sessions[s] EXCEPT !.status = "closed"]
      BY <1>5, <2>3 DEF CloseWrite, TypeOK
    <3>2. /\ Live(s)' /\ sessions'[s].left = sessions[s].left
          /\ sessions'[s].bal = sessions[s].bal /\ sessions'[s].made = sessions[s].made
      BY <1>1, <3>1 DEF Live, SessionRow
    <3> QED  BY <1>1, <2>1, <3>1, <3>2, MeterStays
  <2> QED  BY <2>2, <2>3
<1>6. CASE PurgeCharges
  <2>1. sessions' = sessions /\ served' = served
    BY <1>6 DEF PurgeCharges, history
  <2>2. CASE Live(s)
    <3>1. charges'[s] = charges[s]
      BY <1>6, <2>2 DEF PurgeCharges
    <3> QED  BY <1>1, <2>1, <3>1, MeterStays
  <2>3. CASE ~Live(s)
    <3>1. Charged(s)' = {}
      BY <1>6, <2>3 DEF PurgeCharges, Charged
    <3>2. Answered(s)' = Answered(s) /\ ~Live(s)'
      BY <2>1, <2>3 DEF Answered, Live
    <3> QED  BY <1>1, <2>1, <3>1, <3>2 DEF Meter
  <2> QED  BY <2>2, <2>3
<1>7. CASE PurgeSessions
  <2>1. UNCHANGED <<charges, served>>
    BY <1>7 DEF PurgeSessions, history
  <2>2. CASE sessions'[s] = sessions[s]
    BY <1>1, <2>1, <2>2, MeterStays
  <2>3. CASE sessions'[s] # sessions[s]
    <3>1. sessions'[s].status = "purged"
      BY <1>7, <2>3 DEF PurgeSessions, NoSession
    <3> QED  BY <1>1, <2>1, <3>1 DEF Meter, Live
  <2> QED  BY <2>2, <2>3
<1> QED  BY <1>2, <1>3, <1>4, <1>5, <1>6, <1>7, MeterSteps

\* The invariant of the money: rows of their types, payments granted once.
MoneyInv == TypeOK /\ GrantInv /\ MeterInv

LEMMA InitMoney == Init => MoneyInv
<1> SUFFICES ASSUME Init PROVE MoneyInv
  OBVIOUS
<1>1. GrantInv
  BY InitGrant
<1>2. TypeOK
  <2>1. DOMAIN call = Calls /\ \A c \in Calls : CallType(c)
    BY <1>1, CallsAre DEF GrantInv, Typed
  <2>2. sessions \in [Sids -> SessionRow]
    BY DEF Init, NoSession, SessionRow
  <2>3. settled \in [Keys -> [at : Nat, txid : Txids \cup {None}]]
    BY DEF Init, NotSettled
  <2> QED  BY <2>1, <2>2, <2>3 DEF Init, TypeOK, Purposes
<1>3. MeterInv
  BY DEF Init, MeterInv, NoSession, Live, Charged, Answered
<1> QED  BY <1>1, <1>2, <1>3 DEF MoneyInv

LEMMA NextMoney == MoneyInv /\ [Next]_vars => MoneyInv'
BY NextGrant, NextTypes, NextMeter DEF MoneyInv

\* Every row and every call has its type; what is left of a session is never
\* below zero, whatever is charged at once.
THEOREM TypeCorrect == Spec => []TypeOK
<1>1. MoneyInv => TypeOK
  BY DEF MoneyInv
<1> QED  BY <1>1, InitMoney, NextMoney, PTL DEF Spec

\* What is left of a session and what its charge rows say add up to its
\* deposit, its counter is the number of requests answered, and no request id
\* is answered, and debited, twice.
THEOREM SessionsMetered == Spec => []Metered
<1>1. MoneyInv => Metered
  BY DEF MoneyInv, MeterInv, Metered
<1> QED  BY <1>1, InitMoney, NextMoney, PTL DEF Spec
=============================================================================
