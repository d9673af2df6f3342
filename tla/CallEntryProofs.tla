-------------------------- MODULE CallEntryProofs --------------------------
(***************************************************************************)
(* Proofs about Routing and CallEntry for any calls, agents, rule files,   *)
(* doors and faults.  The first part is about the rules: the first rule    *)
(* that matches exists whenever one matches.  The second is about the      *)
(* calls: where a call is suspended decides what was done for it so far.   *)
(***************************************************************************)
EXTENDS CallEntry, TLAPS, WellFoundedInduction

-----------------------------------------------------------------------------
(* Rules *)

\* A set of natural numbers that is not empty has a least element.
LEMMA LeastNatural ==
  ASSUME NEW T \in SUBSET Nat, T # {}
  PROVE  \E x \in T : \A y \in T : x <= y
<1> DEFINE R == {ss \in Nat \X Nat : ss[1] < ss[2]}
<1>1. IsWellFoundedOn(R, Nat)
  BY NatLessThanWellFounded DEF OpToRel
<1>2. \A x \in Nat, y \in Nat : y < x => <<y, x>> \in R
  OBVIOUS
<1> HIDE DEF R
<1>3. PICK x \in T : \A y \in T : <<y, x>> \notin R
  BY <1>1, WFMin
<1>4. ASSUME NEW y \in T PROVE x <= y
  <2>1. x \in Nat /\ y \in Nat /\ ~(y < x)
    BY <1>2, <1>3
  <2> QED
    BY <2>1
<1> QED
  BY <1>4

\* What is in a file.
LEMMA RulesAreRules ==
  ASSUME NEW file \in Seq(Rule)
  PROVE  /\ DOMAIN file \subseteq Nat
         /\ \A i \in DOMAIN file : file[i] \in Rule
  OBVIOUS

\* route takes the first rule, in the order of load, among those that match:
\* if one matches, the rule CHOOSE stands for exists.
LEMMA WinnerIsFirst ==
  ASSUME NEW file \in Seq(Rule), NEW req, NEW now,
         \E i \in DOMAIN file : Matches(file[i], req, now)
  PROVE  LET w == Winner(file, req, now)
         IN  /\ w \in DOMAIN file
             /\ Matches(file[w], req, now)
             /\ \A i \in DOMAIN file :
                  Matches(file[i], req, now) => Before(file, w, i)
<1> DEFINE matching == {i \in DOMAIN file : Matches(file[i], req, now)}
           orders == {file[i].order : i \in matching}
<1>1. DOMAIN file \subseteq Nat /\ \A i \in DOMAIN file : file[i].order \in Nat
  BY RulesAreRules DEF Rule
<1>2. PICK least \in orders : \A o \in orders : least <= o
  <2>1. orders \in SUBSET Nat /\ orders # {}
    BY <1>1
  <2> QED
    BY <2>1, LeastNatural
<1> DEFINE first == {i \in matching : file[i].order = least}
<1>3. PICK w \in first : \A i \in first : w <= i
  <2>1. first \in SUBSET Nat /\ first # {}
    BY <1>1, <1>2
  <2> QED
    BY <2>1, LeastNatural
<1>4. \A i \in matching : Before(file, w, i)
  <2> SUFFICES ASSUME NEW i \in matching PROVE Before(file, w, i)
    OBVIOUS
  <2>1. least <= file[i].order /\ file[w].order = least
    BY <1>2, <1>3
  <2>2. file[i].order = least => w <= i
    BY <1>3
  <2>3. file[i].order \in Nat /\ least \in Nat
    BY <1>1, <1>2
  <2> QED
    BY <2>1, <2>2, <2>3 DEF Before
<1>5. \E i \in matching : \A j \in matching : Before(file, i, j)
  BY <1>3, <1>4
<1>6. Winner(file, req, now) \in matching
      /\ \A j \in matching : Before(file, Winner(file, req, now), j)
  BY <1>5 DEF Winner
<1> QED
  BY <1>6

\* Whatever the file says, a decision has a priority, says whether it wants a
\* human agent, and names a fallback.
THEOREM DecisionIsComplete ==
  ASSUME NEW file \in Seq(Rule), NEW req, NEW now, req.priority \in Int
  PROVE  Decide(file, req, now) \in
           [priority : Int, skill : BOOLEAN, action : Actions]
<1>1. CASE \A i \in DOMAIN file : ~Matches(file[i], req, now)
  BY <1>1 DEF Decide, Fallback, Actions
<1>2. CASE \E i \in DOMAIN file : Matches(file[i], req, now)
  <2> DEFINE target == file[Winner(file, req, now)].target
  <2>1. Winner(file, req, now) \in DOMAIN file
    BY <1>2, WinnerIsFirst
  <2>2. target \in [overrides : BOOLEAN, override : Int, skill : BOOLEAN,
                    action : Actions]
    BY <2>1, RulesAreRules DEF Rule
  <2>3. Decide(file, req, now) =
          [priority |-> IF target.overrides
                        THEN target.override ELSE req.priority,
           skill |-> target.skill, action |-> target.action]
    BY <1>2 DEF Decide
  <2> HIDE DEF target
  <2>4. (IF target.overrides THEN target.override ELSE req.priority) \in Int
    BY <2>2
  <2>5. target.skill \in BOOLEAN /\ target.action \in Actions
    BY <2>2
  <2> QED
    BY <2>3, <2>4, <2>5
<1> QED
  BY <1>1, <1>2

\* A window and the one from its end to its beginning, over midnight if need
\* be, split the day: of "between" and "outside" rules over the same hours
\* exactly one is in force at any minute.
THEOREM WindowsSplitTheDay ==
  ASSUME NEW now \in Nat, NEW from \in Nat, NEW to \in Nat, from # to
  PROVE  InWindow(now, to, from) <=> ~InWindow(now, from, to)
  BY DEF InWindow
-----------------------------------------------------------------------------
(* The pool of agents *)

LEMMA Pools ==
  ASSUME NEW pool
  PROVE  pool \in Pool <=> /\ DOMAIN pool \subseteq Agents
                           /\ pool \in [DOMAIN pool -> Info]
  BY DEF Pool

LEMMA Infos ==
  ASSUME NEW available \in BOOLEAN, NEW skilled \in BOOLEAN,
         NEW max \in 0 .. MaxSlots, NEW active \in 0 .. max
  PROVE  [available |-> available, max |-> max, active |-> active,
          skilled |-> skilled] \in Info
  BY EntryAssumption DEF Info

\* Only an agent with a free slot is found, and he is booked before anybody
\* else can run: he never has more calls than max_calls.
LEMMA BookKeepsPool ==
  ASSUME agents \in [Engines -> Pool], NEW e \in Engines, NEW skill,
         Book(e, skill)
  PROVE  agents' \in [Engines -> Pool]
<1>1. CASE agents' = agents
  BY <1>1
<1>2. CASE skill /\ Best(e) # {}
  <2>1. PICK a \in Best(e) : agents' = [agents EXCEPT ![e][a].active = @ + 1]
    BY <1>2 DEF Book
  <2> DEFINE info == agents[e][a]
             booked == [info EXCEPT !.active = @ + 1]
  <2>2. agents[e] \in Pool /\ a \in DOMAIN agents[e] /\ Free(info) > 0
    BY <2>1 DEF Best, Suited
  <2>3. info \in Info
    BY <2>2, Pools
  <2>4. booked \in Info
    <3>1. info.active \in Nat /\ info.max \in 0 .. MaxSlots
          /\ info.available \in BOOLEAN /\ info.skilled \in BOOLEAN
          /\ MaxSlots \in Nat
      BY <2>3, EntryAssumption DEF Info
    <3>2. info.active + 1 \in 0 .. info.max
      BY <2>2, <3>1 DEF Free
    <3>3. booked = [available |-> info.available, max |-> info.max,
                    active |-> info.active + 1, skilled |-> info.skilled]
      BY <2>3 DEF Info
    <3> QED
      BY <3>1, <3>2, <3>3, Infos
  <2>5. agents' = [agents EXCEPT ![e] = [agents[e] EXCEPT ![a] = booked]]
    BY <2>1
  <2> HIDE DEF info, booked
  <2>6. [agents[e] EXCEPT ![a] = booked] \in Pool
    BY <2>2, <2>4, Pools
  <2> QED
    BY <2>5, <2>6
<1> QED
  BY <1>1, <1>2 DEF Book

\* The routing API keeps the pool, too.
LEMMA ApiKeepsPool ==
  ASSUME agents \in [Engines -> Pool], NEW a \in Agents,
         \/ Deregister(a) \/ Release(a)
         \/ \E offer \in Offers : Register(a, offer)
  PROVE  agents' \in [Engines -> Pool]
<1>0. "api" \in Engines /\ agents["api"] \in Pool
  BY DEF Engines
<1> DEFINE pool == agents["api"]
<1>1. CASE Deregister(a)
  <2>1. [b \in DOMAIN pool \ {a} |-> pool[b]] \in Pool
    BY <1>0, Pools
  <2> QED
    BY <1>0, <1>1, <2>1 DEF Deregister
<1>2. CASE Release(a)
  <2>1. pool[a] \in Info /\ pool[a].active > 0 /\ a \in DOMAIN pool
    BY <1>0, <1>2, Pools DEF Release
  <2> DEFINE info == pool[a]
             freed == [info EXCEPT !.active = @ - 1]
  <2>2. freed \in Info
    <3>1. info.active \in Nat /\ info.max \in 0 .. MaxSlots
          /\ info.available \in BOOLEAN /\ info.skilled \in BOOLEAN
          /\ MaxSlots \in Nat /\ info.active <= info.max
      BY <2>1, EntryAssumption DEF Info
    <3>2. info.active - 1 \in 0 .. info.max
      BY <2>1, <3>1
    <3>3. freed = [available |-> info.available, max |-> info.max,
                   active |-> info.active - 1, skilled |-> info.skilled]
      BY <2>1 DEF Info
    <3> QED
      BY <3>1, <3>2, <3>3, Infos
  <2>3. agents' = [agents EXCEPT !["api"] = [pool EXCEPT ![a] = freed]]
    BY <1>2 DEF Release
  <2> HIDE DEF freed
  <2>4. [pool EXCEPT ![a] = freed] \in Pool
    BY <1>0, <2>1, <2>2, Pools
  <2> QED
    BY <1>0, <2>3, <2>4
<1>3. ASSUME NEW offer \in Offers, Register(a, offer)
      PROVE  agents' \in [Engines -> Pool]
  <2>1. Fresh(offer) \in Info
    <3>1. offer.available \in BOOLEAN /\ offer.skilled \in BOOLEAN
          /\ offer.max \in 0 .. MaxSlots /\ 0 \in 0 .. offer.max
      BY EntryAssumption
    <3> QED
      BY <3>1, Infos DEF Fresh
  <2>2. [b \in DOMAIN pool \cup {a} |->
           IF b = a THEN Fresh(offer) ELSE pool[b]] \in Pool
    BY <1>0, <2>1, Pools
  <2> QED
    BY <1>0, <1>3, <2>2 DEF Register
<1> QED
  BY <1>1, <1>2, <1>3
-----------------------------------------------------------------------------
(* Calls *)

CallRec == [door : Doors \cup {"none"}, stage : Stages, priority : Int,
            answer : Answers, fallback : Actions \cup {"none"}]

CallsOK ==
  /\ call \in [Calls -> CallRec]
  /\ requested \subseteq Calls /\ spawned \subseteq Calls
  /\ jobs \subseteq Calls /\ unsure \subseteq Calls

\* What a call of the browser's door has got that is answered.
Taken(c) ==
  /\ call[c].fallback = "none" /\ importable => c \in requested \cup spawned
  /\ call[c].fallback = "ai_bot" => c \in spawned
  /\ call[c].fallback \in {"queue", "voicemail", "callback"} =>
       c \notin requested \cup spawned

\* Where a call is suspended says what has been done for it.
CallInv(c) ==
  /\ call[c].stage # "new" => call[c].door # "none"
  /\ call[c].stage # "done" => /\ call[c].answer = "none"
                               /\ c \notin requested /\ c \notin spawned
  /\ call[c].stage = "submit" => call[c].fallback = "none"
  /\ call[c].stage = "schedule" => call[c].fallback = "callback"
  /\ call[c].stage = "notify" => call[c].fallback \in {"voicemail", "callback"}
  /\ c \in jobs => /\ call[c].stage \in {"notify", "done"}
                   /\ call[c].fallback = "callback"
                   /\ c \notin requested /\ c \notin spawned
  /\ c \in requested /\ c \in spawned => c \in unsure
  /\ call[c].door = "browser" /\ call[c].stage = "done" => Taken(c)

CallsInv == CallsOK /\ \A c \in Calls : CallInv(c)

\* The rest of the state, which has types and nothing more.
RestOK ==
  /\ rules \in [Engines -> Files]
  /\ agents \in [Engines -> Pool]
  /\ nodes \in Views /\ status \in Statuses
  /\ stale \in BOOLEAN /\ kafka \in BOOLEAN /\ importable \in BOOLEAN
  /\ fallback \in Fallbacks

IInv == CallsInv /\ RestOK

\* A step of the door of one call says nothing about the others.
Elsewhere(c) ==
  /\ importable' = importable
  /\ \A d \in Calls : d # c => /\ call'[d] = call[d]
                               /\ d \in requested' <=> d \in requested
                               /\ d \in spawned' <=> d \in spawned
                               /\ d \in jobs' <=> d \in jobs
                               /\ d \in unsure' <=> d \in unsure

LEMMA OneCallAtATime ==
  ASSUME CallsInv, NEW c \in Calls, CallsOK', Elsewhere(c), CallInv(c)'
  PROVE  CallsInv'
<1> SUFFICES ASSUME NEW d \in Calls PROVE CallInv(d)'
  BY DEF CallsInv
<1>1. CASE d = c
  BY <1>1
<1>2. CASE d # c
  <2>1. CallInv(d)
    BY DEF CallsInv
  <2>2. /\ call'[d] = call[d]
        /\ d \in requested' <=> d \in requested
        /\ d \in spawned' <=> d \in spawned
        /\ d \in jobs' <=> d \in jobs
        /\ d \in unsure' <=> d \in unsure
        /\ importable' = importable
    BY <1>2 DEF Elsewhere
  <2> QED
    BY <2>1, <2>2 DEF CallInv, Taken
<1> QED
  BY <1>1, <1>2

\* What an answer, and a suspension, do to the record of a call.
LEMMA AnswerRecord ==
  ASSUME CallsOK, NEW c \in Calls, NEW answer \in Answers, Answer(c, answer)
  PROVE  /\ call' \in [Calls -> CallRec]
         /\ call'[c].door = call[c].door
         /\ call'[c].stage = "done" /\ call'[c].answer = answer
         /\ call'[c].fallback = call[c].fallback
         /\ \A d \in Calls : d # c => call'[d] = call[d]
<1>1. call[c] \in CallRec
  BY DEF CallsOK
<1>2. [call[c] EXCEPT !.stage = "done", !.answer = answer] \in CallRec
  BY <1>1 DEF CallRec, Stages
<1>3. call' = [call EXCEPT ![c] =
                 [call[c] EXCEPT !.stage = "done", !.answer = answer]]
  BY DEF Answer, CallsOK
<1> QED
  BY <1>1, <1>2, <1>3 DEF CallsOK, CallRec

LEMMA WholeRecord ==
  ASSUME CallsOK, NEW c \in Calls, NEW rec \in CallRec,
         call' = [call EXCEPT ![c] = rec]
  PROVE  /\ call' \in [Calls -> CallRec]
         /\ call'[c] = rec
         /\ \A d \in Calls : d # c => call'[d] = call[d]
  BY DEF CallsOK

LEMMA SuspendRecord ==
  ASSUME CallsOK, NEW c \in Calls, NEW stage \in Stages, Suspend(c, stage)
  PROVE  /\ call' \in [Calls -> CallRec]
         /\ call'[c].door = call[c].door
         /\ call'[c].stage = stage /\ call'[c].answer = call[c].answer
         /\ call'[c].fallback = call[c].fallback
         /\ \A d \in Calls : d # c => call'[d] = call[d]
<1>1. call[c] \in CallRec
  BY DEF CallsOK
<1>2. [call[c] EXCEPT !.stage = stage] \in CallRec
  BY <1>1 DEF CallRec
<1>3. call' = [call EXCEPT ![c] = [call[c] EXCEPT !.stage = stage]]
  BY DEF Suspend, CallsOK
<1> QED
  BY <1>1, <1>2, <1>3 DEF CallsOK, CallRec

\* A request that was accepted is in Kafka and has no worker.
LEMMA SentKeeps ==
  ASSUME CallsInv, NEW c \in Calls, Sent(c)
  PROVE  CallsInv'
<1>1. /\ call[c].door \in {"browser", "external", "token"}
      /\ call[c].fallback = "none"
      /\ c \notin spawned /\ c \notin jobs
  BY EntryAssumption DEF CallsInv, CallsOK, CallInv, CallRec, Sent
<1>2. /\ requested' = requested \cup {c} /\ spawned' = spawned
      /\ jobs' = jobs /\ unsure' = unsure /\ importable' = importable
  BY DEF Sent, AfterSend, settings
<1>3. PICK answer \in {"queued", "token", "error"} : Answer(c, answer)
  BY <1>1 DEF Sent, AfterSend
<1>4. /\ call' \in [Calls -> CallRec]
      /\ call'[c].door = call[c].door
      /\ call'[c].stage = "done" /\ call'[c].answer = answer
      /\ call'[c].fallback = call[c].fallback
      /\ \A d \in Calls : d # c => call'[d] = call[d]
  BY <1>3, AnswerRecord DEF CallsInv, Answers
<1>5. CallsOK'
  BY <1>2, <1>4 DEF CallsOK, CallsInv
<1>6. CallInv(c)'
  BY <1>1, <1>2, <1>3, <1>4 DEF CallInv, Taken
<1>7. Elsewhere(c)
  BY <1>2, <1>4 DEF Elsewhere
<1> QED
  BY <1>5, <1>6, <1>7, OneCallAtATime

\* After a send that raised, only the browser's door starts a worker.
LEMMA SendRaisesKeeps ==
  ASSUME CallsInv, NEW c \in Calls, SendRaises(c)
  PROVE  CallsInv'
<1>1. /\ call[c].door \in {"browser", "external", "token"}
      /\ call[c].fallback = "none"
      /\ c \notin requested /\ c \notin spawned /\ c \notin jobs
  BY EntryAssumption DEF CallsInv, CallsOK, CallInv, CallRec, SendRaises
<1>2. /\ jobs' = jobs /\ importable' = importable
      /\ \/ requested' = requested /\ unsure' = unsure
         \/ requested' = requested \cup {c} /\ unsure' = unsure \cup {c}
  BY DEF SendRaises, settings
<1>3. /\ spawned' = spawned \/ spawned' = spawned \cup {c}
      /\ call[c].door = "browser" /\ importable => c \in spawned'
  BY DEF SendRaises, AfterNone
<1>4. PICK answer \in {"direct", "token", "error"} : Answer(c, answer)
  BY <1>1 DEF SendRaises, AfterNone
<1>5. /\ call' \in [Calls -> CallRec]
      /\ call'[c].door = call[c].door
      /\ call'[c].stage = "done" /\ call'[c].answer = answer
      /\ call'[c].fallback = call[c].fallback
      /\ \A d \in Calls : d # c => call'[d] = call[d]
  BY <1>4, AnswerRecord DEF CallsInv, Answers
<1>6. CallsOK'
  BY <1>2, <1>3, <1>5 DEF CallsOK, CallsInv
<1>7. CallInv(c)'
  BY <1>1, <1>2, <1>3, <1>5 DEF CallInv, Taken
<1>8. Elsewhere(c)
  BY <1>2, <1>3, <1>5 DEF Elsewhere
<1> QED
  BY <1>6, <1>7, <1>8, OneCallAtATime

\* Only a call that is told of a callback has one stored.
LEMMA StoreCallbackKeeps ==
  ASSUME CallsInv, NEW c \in Calls, StoreCallback(c)
  PROVE  CallsInv'
<1>1. /\ call[c].stage = "schedule" /\ call[c].door # "none"
      /\ call[c].answer = "none" /\ call[c].fallback = "callback"
      /\ c \notin requested /\ c \notin spawned
  BY DEF CallsInv, CallInv, StoreCallback
<1>2. /\ requested' = requested /\ spawned' = spawned /\ unsure' = unsure
      /\ jobs' = jobs \/ jobs' = jobs \cup {c}
      /\ importable' = importable
  BY DEF StoreCallback, settings
<1>3. /\ call' \in [Calls -> CallRec]
      /\ call'[c].door = call[c].door
      /\ call'[c].stage = "notify" /\ call'[c].answer = call[c].answer
      /\ call'[c].fallback = call[c].fallback
      /\ \A d \in Calls : d # c => call'[d] = call[d]
  BY SuspendRecord DEF CallsInv, Stages, StoreCallback
<1>4. CallsOK'
  BY <1>2, <1>3 DEF CallsOK, CallsInv
<1>5. CallInv(c)'
  BY <1>1, <1>2, <1>3 DEF CallInv, Taken
<1>6. Elsewhere(c)
  BY <1>2, <1>3 DEF Elsewhere
<1> QED
  BY <1>4, <1>5, <1>6, OneCallAtATime

\* A call that was turned away has neither request nor worker.
LEMMA NotifiedKeeps ==
  ASSUME CallsInv, NEW c \in Calls, Notified(c)
  PROVE  CallsInv'
<1>1. /\ call[c].stage = "notify" /\ call[c].door # "none"
      /\ call[c].fallback \in {"voicemail", "callback"}
      /\ c \notin requested /\ c \notin spawned
      /\ c \in jobs => call[c].fallback = "callback"
  BY DEF CallsInv, CallInv, Notified
<1>2. /\ requested' = requested /\ spawned' = spawned /\ unsure' = unsure
      /\ jobs' = jobs /\ importable' = importable
  BY DEF Notified, settings
<1>3. PICK answer \in {"fallback", "error"} : Answer(c, answer)
  BY DEF Notified, AnswerWithToken
<1>4. /\ call' \in [Calls -> CallRec]
      /\ call'[c].door = call[c].door
      /\ call'[c].stage = "done" /\ call'[c].answer = answer
      /\ call'[c].fallback = call[c].fallback
      /\ \A d \in Calls : d # c => call'[d] = call[d]
  BY <1>3, AnswerRecord DEF CallsInv, Answers
<1>5. CallsOK'
  BY <1>2, <1>4 DEF CallsOK, CallsInv
<1>6. CallInv(c)'
  BY <1>1, <1>2, <1>3, <1>4 DEF CallInv, Taken
<1>7. Elsewhere(c)
  BY <1>2, <1>4 DEF Elsewhere
<1> QED
  BY <1>5, <1>6, <1>7, OneCallAtATime

\* What a door may leave behind when it first suspends.
Suspended(rec) ==
  /\ rec.answer = "none" /\ rec.stage # "new"
  /\ rec.stage = "submit" => rec.fallback = "none"
  /\ rec.stage = "schedule" => rec.fallback = "callback"
  /\ rec.stage = "notify" => rec.fallback \in {"voicemail", "callback"}

\* What it may leave behind when it answers at once.
Answered(c, rec) ==
  rec.door = "browser" =>
    /\ rec.fallback = "none" /\ importable => c \in spawned'
    /\ rec.fallback = "ai_bot" => c \in spawned'
    /\ rec.fallback \in {"queue", "voicemail", "callback"} =>
         spawned' = spawned

Entered(c, rec) ==
  /\ rec \in CallRec /\ rec.door # "none"
  /\ \/ rec.stage # "done" /\ Suspended(rec) /\ spawned' = spawned
     \/ rec.stage = "done" /\ Answered(c, rec)
  /\ spawned' = spawned \/ spawned' = spawned \cup {c}
  /\ call' = [call EXCEPT ![c] = rec]

LEMMA EnteredKeeps ==
  ASSUME CallsInv, NEW c \in Calls, call[c].stage = "new", NEW rec,
         Entered(c, rec), UNCHANGED <<requested, jobs, unsure, importable>>
  PROVE  CallsInv'
<1>1. c \notin requested /\ c \notin spawned /\ c \notin jobs
  BY DEF CallsInv, CallInv
<1>2. /\ call' \in [Calls -> CallRec]
      /\ call'[c] = rec
      /\ \A d \in Calls : d # c => call'[d] = call[d]
  BY WholeRecord DEF CallsInv, Entered
<1>3. CallsOK'
  BY <1>2 DEF CallsOK, CallsInv, Entered
<1>4. ASSUME rec.stage # "done" PROVE CallInv(c)'
  <2>1. Suspended(rec) /\ spawned' = spawned /\ rec.door # "none"
    BY <1>4 DEF Entered
  <2> QED
    BY <1>1, <1>2, <1>4, <2>1 DEF CallInv, Suspended
<1>5. ASSUME rec.stage = "done" PROVE CallInv(c)'
  <2>1. Answered(c, rec) /\ rec.door # "none"
        /\ (spawned' = spawned \/ spawned' = spawned \cup {c})
    BY <1>5 DEF Entered
  <2>2. rec.door = "browser" => Taken(c)'
    BY <1>1, <1>2, <1>5, <2>1 DEF Taken, Answered
  <2> QED
    BY <1>1, <1>2, <1>5, <2>1, <2>2 DEF CallInv
<1>6. Elsewhere(c)
  BY <1>2 DEF Elsewhere, Entered
<1> QED
  BY <1>3, <1>4, <1>5, <1>6, OneCallAtATime

\* A door suspends, with the fallback that goes with the stage.
LEMMA EntersEnters ==
  ASSUME NEW c, NEW door \in Doors, NEW stage \in Stages \ {"new", "done"},
         NEW priority \in Int, NEW action \in Actions \cup {"none"},
         stage = "submit" => action = "none",
         stage = "schedule" => action = "callback",
         stage = "notify" => action \in {"voicemail", "callback"},
         Enter(c, door, stage, priority, action), UNCHANGED spawned
  PROVE  \E rec : Entered(c, rec)
<1> DEFINE rec == [door |-> door, stage |-> stage, priority |-> priority,
                   answer |-> "none", fallback |-> action]
<1>1. rec \in CallRec
  BY DEF CallRec, Stages, Answers
<1>2. door # "none"
  BY EntryAssumption
<1>3. Suspended(rec) /\ rec.stage # "done"
  BY DEF Suspended
<1>4. Entered(c, rec)
  BY <1>1, <1>2, <1>3 DEF Entered, Enter
<1> QED
  BY <1>4

\* A door answers at once, with what its answer stands for.
LEMMA DirectsEnter ==
  ASSUME NEW c, NEW door \in Doors, NEW priority \in Int,
         NEW answer \in Answers, NEW action \in Actions \cup {"none"},
         Direct(c, door, priority, answer, action),
         spawned' = spawned \/ spawned' = spawned \cup {c},
         door = "browser" =>
           /\ action = "none" /\ importable => c \in spawned'
           /\ action = "ai_bot" => c \in spawned'
           /\ action \in {"queue", "voicemail", "callback"} =>
                spawned' = spawned
  PROVE  \E rec : Entered(c, rec)
<1> DEFINE rec == [door |-> door, stage |-> "done", priority |-> priority,
                   answer |-> answer, fallback |-> action]
<1>1. rec \in CallRec
  BY DEF CallRec, Stages
<1>2. door # "none"
  BY EntryAssumption
<1>3. Answered(c, rec)
  BY DEF Answered
<1>4. Entered(c, rec)
  BY <1>1, <1>2, <1>3 DEF Entered, Direct
<1> QED
  BY <1>4

\* The other doors promise nothing by their answer.
LEMMA AnswersEnter ==
  ASSUME NEW c, NEW door \in Doors, door # "browser",
         NEW answer \in Answers, Direct(c, door, 0, answer, "none"),
         spawned' = spawned \/ spawned' = spawned \cup {c}
  PROVE  \E rec : Entered(c, rec)
<1>1. 0 \in Int /\ "none" \in Actions \cup {"none"}
  OBVIOUS
<1> QED
  BY <1>1, DirectsEnter

\* A call that is let through.
LEMMA BrowserSubmitEnters ==
  ASSUME NEW c, NEW priority \in Int, "browser" \in Doors,
         BrowserSubmit(c, priority)
  PROVE  \E rec : Entered(c, rec)
<1>1. CASE kafka
  BY <1>1, EntersEnters DEF BrowserSubmit, Stages
<1>2. CASE ~kafka
  <2>1. /\ Direct(c, "browser", priority, "error", "none")
        /\ importable => c \in spawned'
        /\ spawned' = spawned \/ spawned' = spawned \cup {c}
    BY <1>2 DEF BrowserSubmit
  <2> QED
    BY <2>1, DirectsEnter DEF Answers
<1> QED
  BY <1>1, <1>2

\* A call that is turned away.
LEMMA TakeFallbackEnters ==
  ASSUME NEW c, NEW priority \in Int, "browser" \in Doors,
         TakeFallback(c, priority)
  PROVE  \E rec : Entered(c, rec)
<1>1. CASE Enter(c, "browser", "notify", priority, "voicemail")
           /\ UNCHANGED spawned
  BY <1>1, EntersEnters DEF Stages, Actions
<1>2. CASE Enter(c, "browser", "schedule", priority, "callback")
           /\ UNCHANGED spawned
  BY <1>2, EntersEnters DEF Stages, Actions
<1>3. ASSUME NEW answer \in {"fallback", "error"}, spawned' = spawned \cup {c},
             Direct(c, "browser", priority, answer, "ai_bot")
      PROVE  \E rec : Entered(c, rec)
  <2>1. answer \in Answers /\ "ai_bot" \in Actions \cup {"none"}
    BY DEF Answers, Actions
  <2> QED
    BY <1>3, <2>1, DirectsEnter
<1>4. ASSUME NEW answer \in {"fallback", "error"}, spawned' = spawned,
             Direct(c, "browser", priority, answer, "queue")
      PROVE  \E rec : Entered(c, rec)
  <2>1. answer \in Answers /\ "queue" \in Actions \cup {"none"}
    BY DEF Answers, Actions
  <2> QED
    BY <1>4, <2>1, DirectsEnter
<1> QED
  BY <1>1, <1>2, <1>3, <1>4 DEF TakeFallback

\* Whatever the offline handler says leads to an entered call, and the engine
\* books nobody beyond his limit.
LEMMA BrowserCallKeeps ==
  ASSUME IInv, NEW c \in Calls, NEW caller \in Callers,
         NEW priority \in Priorities, NEW now \in Minutes,
         BrowserCall(c, caller, priority, now)
  PROVE  CallsInv' /\ agents' \in [Engines -> Pool] /\ status' \in Statuses
<1>1. /\ New(c, "browser") /\ (\E skill : Book("shared", skill)) /\ Check
      /\ \/ TakeFallback(c, priority)
         \/ BrowserSubmit(c, Higher(priority, Overload))
         \/ BrowserSubmit(c, priority)
      /\ UNCHANGED <<requested, jobs, unsure, importable>>
  BY DEF BrowserCall, settings
<1>2. "browser" \in Doors /\ call[c].stage = "new"
  BY <1>1 DEF New
<1>3. priority \in Int /\ Higher(priority, Overload) \in Int
  BY EntryAssumption DEF Higher
<1>4. PICK rec : Entered(c, rec)
  BY <1>1, <1>2, <1>3, BrowserSubmitEnters, TakeFallbackEnters
<1>5. CallsInv'
  BY <1>1, <1>2, <1>4, EnteredKeeps DEF IInv
<1>6. agents' \in [Engines -> Pool]
  BY <1>1, BookKeepsPool DEF IInv, RestOK, Engines
<1>7. status' \in Statuses
  BY <1>1 DEF IInv, RestOK, Check, Evaluate, Statuses
<1> QED
  BY <1>5, <1>6, <1>7

\* The token endpoint asks neither the rules nor the offline handler.
LEMMA TokenCallKeeps ==
  ASSUME CallsInv, NEW c \in Calls, TokenCall(c)
  PROVE  CallsInv'
<1>1. "token" \in Doors /\ call[c].stage = "new"
      /\ UNCHANGED <<requested, jobs, unsure, importable>>
  BY DEF TokenCall, New, settings
<1>2. PICK rec : Entered(c, rec)
  <2>1. CASE Direct(c, "token", 0, "error", "none") /\ UNCHANGED spawned
    <3>1. "error" \in Answers /\ "token" # "browser"
      BY DEF Answers
    <3> QED
      BY <1>1, <2>1, <3>1, AnswersEnter
  <2>2. CASE Enter(c, "token", "submit", 0, "none") /\ UNCHANGED spawned
    BY <1>1, <2>2, EntersEnters DEF Stages
  <2>3. CASE /\ Direct(c, "token", 0, "token", "none")
             /\ spawned' = spawned \cup {c}
    <3>1. "token" \in Answers /\ "token" # "browser"
      BY DEF Answers
    <3> QED
      BY <1>1, <2>3, <3>1, AnswersEnter
  <2> QED
    BY <2>1, <2>2, <2>3 DEF TokenCall
<1> QED
  BY <1>1, <1>2, EnteredKeeps

LEMMA ExternalCallKeeps ==
  ASSUME CallsInv, NEW c \in Calls, ExternalCall(c)
  PROVE  CallsInv'
<1>1. "external" \in Doors /\ call[c].stage = "new" /\ UNCHANGED spawned
      /\ UNCHANGED <<requested, jobs, unsure, importable>>
  BY DEF ExternalCall, New, settings
<1>2. PICK rec : Entered(c, rec)
  <2>1. CASE Direct(c, "external", 0, "direct", "none")
    <3>1. "direct" \in Answers /\ "external" # "browser"
      BY DEF Answers
    <3> QED
      BY <1>1, <2>1, <3>1, AnswersEnter
  <2>2. CASE Enter(c, "external", "submit", 0, "none")
    BY <1>1, <2>2, EntersEnters DEF Stages
  <2> QED
    BY <2>1, <2>2 DEF ExternalCall
<1> QED
  BY <1>1, <1>2, EnteredKeeps

-----------------------------------------------------------------------------
(* The specification *)

LEMMA InitIInv == Init => IInv
<1> SUFFICES ASSUME Init PROVE CallsInv /\ RestOK
  BY DEF IInv
<1>1. CallsOK
  BY DEF Init, CallsOK, CallRec, Stages, Answers
<1>2. \A c \in Calls : CallInv(c)
  BY DEF Init, CallInv
<1>3. agents \in [Engines -> Pool]
  <2>1. <<>> \in [1 .. 0 -> Info]
    <3>1. <<>> \in Seq(Info) /\ Len(<<>>) = 0
      OBVIOUS
    <3> QED
      BY <3>1
  <2>2. <<>> \in Pool
    <3>1. DOMAIN <<>> = {}
      BY <2>1
    <3> QED
      BY <2>1, <3>1, Pools
  <2> QED
    BY <2>2 DEF Init
<1>4. RestOK
  <2>1. rules \in [Engines -> Files]
    BY EntryAssumption DEF Init
  <2>2. /\ kafka \in BOOLEAN /\ importable \in BOOLEAN /\ stale \in BOOLEAN
        /\ fallback \in Fallbacks
    BY DEF Init
  <2>3. nodes \in Views /\ status \in Statuses
    BY DEF Init, Views, Statuses
  <2> QED
    BY <1>3, <2>1, <2>2, <2>3 DEF RestOK
<1> QED
  BY <1>1, <1>2, <1>4 DEF CallsInv

\* A step that leaves the calls alone.
LEMMA Undisturbed ==
  ASSUME CallsInv, UNCHANGED callVars, UNCHANGED settings
  PROVE  CallsInv'
  BY DEF callVars, settings, CallsInv, CallsOK, CallInv, Taken

LEMMA ArriveKeeps == IInv /\ Arrive => IInv'
<1> SUFFICES ASSUME IInv, NEW c \in Calls,
                    \/ \E caller \in Callers, priority \in Priorities,
                          now \in Minutes :
                         BrowserCall(c, caller, priority, now)
                    \/ TokenCall(c) \/ ExternalCall(c)
             PROVE  CallsInv' /\ RestOK'
  BY DEF Arrive, IInv
<1> USE DEF IInv
<1>1. ASSUME NEW caller \in Callers, NEW priority \in Priorities,
             NEW now \in Minutes, BrowserCall(c, caller, priority, now)
      PROVE  CallsInv' /\ RestOK'
  <2>1. CallsInv' /\ agents' \in [Engines -> Pool] /\ status' \in Statuses
    BY <1>1, BrowserCallKeeps
  <2>2. /\ UNCHANGED <<rules, settings, nodes>>
        /\ stale' \in BOOLEAN
    BY <1>1 DEF BrowserCall, Check
  <2> QED
    BY <2>1, <2>2 DEF RestOK, settings
<1>2. CASE TokenCall(c)
  <2>1. UNCHANGED <<engines, offline, settings>>
    BY <1>2 DEF TokenCall
  <2> QED
    BY <1>2, <2>1, TokenCallKeeps DEF RestOK, engines, offline, settings
<1>3. CASE ExternalCall(c)
  <2>1. UNCHANGED <<engines, offline, settings>>
    BY <1>3 DEF ExternalCall
  <2> QED
    BY <1>3, <2>1, ExternalCallKeeps DEF RestOK, engines, offline, settings
<1> QED
  BY <1>1, <1>2, <1>3

LEMMA ResumeKeeps == IInv /\ Resume => IInv'
<1> SUFFICES ASSUME IInv, NEW c \in Calls,
                    \/ Sent(c) \/ SendRaises(c)
                    \/ StoreCallback(c) \/ Notified(c)
             PROVE  CallsInv' /\ RestOK'
  BY DEF Resume, IInv
<1>1. UNCHANGED <<engines, offline, settings>>
  BY DEF Sent, SendRaises, StoreCallback, Notified
<1>2. RestOK'
  BY <1>1 DEF IInv, RestOK, engines, offline, settings
<1> QED
  BY <1>2, SentKeeps, SendRaisesKeeps, StoreCallbackKeeps, NotifiedKeeps
     DEF IInv

LEMMA ApiKeeps == IInv /\ Api => IInv'
<1> SUFFICES ASSUME IInv, Api PROVE CallsInv' /\ RestOK'
  BY DEF IInv
<1> USE DEF IInv
<1>1. ASSUME NEW a \in Agents,
             \/ Deregister(a) \/ Release(a)
             \/ \E offer \in Offers : Register(a, offer)
      PROVE  CallsInv' /\ RestOK'
  <2>1. /\ UNCHANGED callVars /\ UNCHANGED <<rules, offline, settings>>
    BY <1>1 DEF Deregister, Release, Register
  <2>2. agents' \in [Engines -> Pool]
    BY <1>1, ApiKeepsPool DEF RestOK
  <2> QED
    BY <2>1, <2>2, Undisturbed DEF RestOK, offline, settings
<1>2. ASSUME NEW caller \in Callers, NEW priority \in Priorities,
             NEW now \in Minutes, Decision(caller, priority, now)
      PROVE  CallsInv' /\ RestOK'
  <2>1. /\ UNCHANGED callVars /\ UNCHANGED <<rules, offline, settings>>
        /\ \E skill : Book("api", skill)
    BY <1>2 DEF Decision
  <2>2. agents' \in [Engines -> Pool]
    BY <2>1, BookKeepsPool DEF RestOK, Engines
  <2> QED
    BY <2>1, <2>2, Undisturbed DEF RestOK, offline, settings
<1>3. ASSUME NEW file \in Files, Reload(file)
      PROVE  CallsInv' /\ RestOK'
  <2>1. /\ UNCHANGED callVars /\ UNCHANGED <<agents, offline, settings>>
        /\ rules' \in [Engines -> Files]
    BY <1>3 DEF Reload, RestOK
  <2> QED
    BY <2>1, Undisturbed DEF RestOK, offline, settings
<1> QED
  BY <1>1, <1>2, <1>3 DEF Api

LEMMA SurroundingsKeep == IInv /\ Surroundings => IInv'
<1> SUFFICES ASSUME IInv, Surroundings PROVE CallsInv' /\ RestOK'
  BY DEF IInv
<1>1. /\ UNCHANGED callVars /\ UNCHANGED <<engines, status, settings>>
      /\ nodes' \in Views /\ stale' \in BOOLEAN
  BY DEF IInv, Surroundings, StatusAges, NodesChange, RestOK
<1> QED
  BY <1>1, Undisturbed DEF IInv, RestOK, engines, settings

\* Where a call is suspended says what has been done for it, always.
THEOREM Invariance == Spec => []IInv
<1>1. Init => IInv
  BY InitIInv
<1>2. IInv /\ [Next]_vars => IInv'
  <2>1. IInv /\ UNCHANGED vars => IInv'
    BY Undisturbed DEF IInv, vars, engines, offline, settings, RestOK
  <2> QED
    BY <2>1, ArriveKeeps, ResumeKeeps, ApiKeeps, SurroundingsKeep DEF Next
<1> QED
  BY <1>1, <1>2, PTL DEF Spec

\* The variables keep their types; no agent is ever booked beyond his limit,
\* whatever the rules, the registrations and the dry runs.
THEOREM TypeCorrect == Spec => []TypeOK
<1>1. IInv => TypeOK
  BY DEF IInv, CallsInv, CallsOK, CallRec, RestOK, TypeOK
<1> QED
  BY <1>1, Invariance, PTL

\* A call is in Kafka, has a worker of this process or a stored callback, but
\* no two of these, unless Kafka kept what it refused.
THEOREM OneTreatmentHolds == Spec => []OneTreatment
<1>1. IInv => OneTreatment
  BY DEF IInv, CallsInv, CallsOK, CallInv, OneTreatment
<1> QED
  BY <1>1, Invariance, PTL

\* A call that POST /browser/call/start lets through is in Kafka or has a
\* worker, unless there is none to import, and one that it turns away has what
\* its fallback promises: whatever the rules, the nodes and the faults.
THEOREM BrowserCallsAreTaken == Spec => []BrowserCallIsTaken
<1>1. IInv => BrowserCallIsTaken
  BY DEF IInv, CallsInv, CallInv, Taken, BrowserCallIsTaken
<1> QED
  BY <1>1, Invariance, PTL

-----------------------------------------------------------------------------
(* What the documented promise of the token endpoint is true of            *)

\* Nobody takes back a request or a worker, and Kafka stays as it was found.
LEMMA NothingIsTakenBack ==
  ASSUME IInv, [Next]_vars
  PROVE  kafka' = kafka /\ requested \subseteq requested' /\ spawned \subseteq spawned'
<1>1. ASSUME NEW c \in Calls, NEW caller \in Callers, NEW priority \in Priorities,
             NEW now \in Minutes, BrowserCall(c, caller, priority, now)
      PROVE  kafka' = kafka /\ requested' = requested /\ spawned \subseteq spawned'
  <2>1. \/ TakeFallback(c, priority)
        \/ \E level : BrowserSubmit(c, level)
    BY <1>1 DEF BrowserCall
  <2>2. spawned \subseteq spawned'
    BY <2>1 DEF TakeFallback, BrowserSubmit
  <2> QED
    BY <1>1, <2>2 DEF BrowserCall, settings
<1>2. ASSUME NEW c \in Calls, TokenCall(c) \/ ExternalCall(c)
      PROVE  kafka' = kafka /\ requested' = requested /\ spawned \subseteq spawned'
  BY <1>2 DEF TokenCall, ExternalCall, settings
<1>3. ASSUME NEW c \in Calls, Sent(c)
      PROVE  kafka' = kafka /\ requested \subseteq requested' /\ spawned' = spawned
  BY <1>3 DEF Sent, AfterSend, settings
<1>4. ASSUME NEW c \in Calls, SendRaises(c)
      PROVE  kafka' = kafka /\ requested \subseteq requested'
  BY <1>4 DEF SendRaises, settings
<1>5. ASSUME NEW c \in Calls, SendRaises(c)
      PROVE  spawned \subseteq spawned'
  <2>1. call[c].door \in {"browser", "external", "token"}
    BY <1>5, EntryAssumption
       DEF IInv, CallsInv, CallsOK, CallInv, CallRec, SendRaises
  <2> QED
    BY <1>5, <2>1 DEF SendRaises, AfterNone
<1>6. ASSUME NEW c \in Calls, StoreCallback(c) \/ Notified(c)
      PROVE  kafka' = kafka /\ requested' = requested /\ spawned' = spawned
  BY <1>6 DEF StoreCallback, Notified, settings
<1>7. Api => kafka' = kafka /\ requested' = requested /\ spawned' = spawned
  BY DEF Api, Deregister, Release, Register, Decision, Reload, callVars, settings
<1>8. Surroundings => kafka' = kafka /\ requested' = requested /\ spawned' = spawned
  BY DEF Surroundings, StatusAges, NodesChange, callVars, settings
<1>9. UNCHANGED vars => kafka' = kafka /\ requested' = requested /\ spawned' = spawned
  BY DEF vars, callVars, settings
<1> QED
  BY <1>1, <1>2, <1>3, <1>4, <1>5, <1>6, <1>7, <1>8, <1>9 DEF Next, Arrive, Resume

\* A call whose caller got a token from the token endpoint and that neither
\* Kafka nor a worker of this process has: only a send that raised leaves it.
TokenAlone(c) ==
  /\ call[c].door = "token" /\ call[c].answer = "token"
  /\ c \notin requested /\ c \notin spawned

\* A step that leaves a call alone is a send that raised.
LEMMA TokenStep ==
  ASSUME IInv, [Next]_vars, NEW d \in Calls, TokenAlone(d)', ~TokenAlone(d)
  PROVE  SendRaises(d)
<1>0. /\ call' # call
      /\ d \notin requested /\ d \notin spawned
      /\ call'[d].door = "token" /\ call'[d].answer = "token" /\ call'[d] # call[d]
  BY NothingIsTakenBack DEF TokenAlone
<1>1. ASSUME NEW c \in Calls, NEW caller \in Callers, NEW priority \in Priorities,
             NEW now \in Minutes, BrowserCall(c, caller, priority, now)
      PROVE  FALSE
  <2>1. \/ TakeFallback(c, priority)
        \/ \E level : BrowserSubmit(c, level)
    BY <1>1 DEF BrowserCall
  <2>2. \E rec : rec.door = "browser" /\ call' = [call EXCEPT ![c] = rec]
    BY <2>1 DEF TakeFallback, BrowserSubmit, Enter, Direct
  <2> QED
    BY <1>0, <2>2 DEF IInv, CallsInv, CallsOK
<1>2. ASSUME NEW c \in Calls, TokenCall(c)
      PROVE  FALSE
  <2>1. \/ Direct(c, "token", 0, "error", "none") \/ Enter(c, "token", "submit", 0, "none")
        \/ spawned' = spawned \cup {c} /\ \E rec : call' = [call EXCEPT ![c] = rec]
    BY <1>2 DEF TokenCall, Direct
  <2>2. \/ \E rec : rec.answer # "token" /\ call' = [call EXCEPT ![c] = rec]
        \/ spawned' = spawned \cup {c} /\ \E rec : call' = [call EXCEPT ![c] = rec]
    BY <2>1 DEF Direct, Enter
  <2>3. d \notin spawned'
    BY DEF TokenAlone
  <2> QED
    BY <1>0, <2>2, <2>3 DEF IInv, CallsInv, CallsOK
<1>3. ASSUME NEW c \in Calls, ExternalCall(c)
      PROVE  FALSE
  <2>1. \E rec : rec.door = "external" /\ call' = [call EXCEPT ![c] = rec]
    BY <1>3 DEF ExternalCall, Enter, Direct
  <2> QED
    BY <1>0, <2>1 DEF IInv, CallsInv, CallsOK
<1>4. ASSUME NEW c \in Calls, Sent(c) \/ StoreCallback(c) \/ Notified(c) \/ SendRaises(c)
      PROVE  c = d
  <2>1. call[c].door \in {"browser", "external", "token"}
    BY <1>4, EntryAssumption
       DEF IInv, CallsInv, CallsOK, CallInv, CallRec, Sent, StoreCallback, Notified,
           SendRaises
  <2>2. \/ \E answer : Answer(c, answer)
        \/ \E stage : Suspend(c, stage)
    BY <1>4, <2>1
       DEF Sent, AfterSend, StoreCallback, Notified, SendRaises, AfterNone,
           AnswerWithToken
  <2> QED
    BY <1>0, <2>2 DEF Answer, Suspend, IInv, CallsInv, CallsOK
<1>5. ~Sent(d)
  BY DEF Sent, TokenAlone
<1>6. ~StoreCallback(d)
  <2>1. call[d].stage = "schedule" => call[d].answer = "none"
    BY DEF IInv, CallsInv, CallInv
  <2> QED
    BY <1>0, <2>1 DEF StoreCallback, Suspend, IInv, CallsInv, CallsOK, CallRec
<1>7. ~Notified(d)
  <2>1. Notified(d) => Answer(d, "fallback") \/ Answer(d, "error")
    BY DEF Notified, AnswerWithToken
  <2> QED
    BY <1>0, <2>1, AnswerRecord DEF IInv, CallsInv, CallsOK, Answers
<1>8. ~Api
  BY <1>0 DEF Api, Deregister, Release, Register, Decision, Reload, callVars
<1>9. ~Surroundings /\ ~UNCHANGED vars
  BY <1>0 DEF Surroundings, StatusAges, NodesChange, vars, callVars
<1> QED
  BY <1>1, <1>2, <1>3, <1>4, <1>5, <1>6, <1>7, <1>8, <1>9 DEF Next, Arrive, Resume

\* A door comes to the send only with Kafka active.
LEMMA SubmitNeedsKafka ==
  ASSUME IInv, [Next]_vars, NEW d \in Calls, call'[d].stage = "submit", ~kafka
  PROVE  call[d].stage = "submit"
<1> SUFFICES ASSUME call'[d] # call[d] PROVE FALSE
  OBVIOUS
<1>0. call \in [Calls -> CallRec]
  BY DEF IInv, CallsInv, CallsOK
<1>1. ASSUME NEW c \in Calls, NEW caller \in Callers, NEW priority \in Priorities,
             NEW now \in Minutes, BrowserCall(c, caller, priority, now)
      PROVE  FALSE
  <2>1. \/ TakeFallback(c, priority)
        \/ \E level : BrowserSubmit(c, level)
    BY <1>1 DEF BrowserCall
  <2>2. \E rec : rec.stage # "submit" /\ call' = [call EXCEPT ![c] = rec]
    BY <2>1 DEF TakeFallback, BrowserSubmit, Enter, Direct
  <2> QED
    BY <1>0, <2>2
<1>2. ASSUME NEW c \in Calls, TokenCall(c) \/ ExternalCall(c)
      PROVE  FALSE
  <2>1. \E rec : rec.stage # "submit" /\ call' = [call EXCEPT ![c] = rec]
    BY <1>2 DEF TokenCall, ExternalCall, Direct
  <2> QED
    BY <1>0, <2>1
<1>3. ASSUME NEW c \in Calls, Sent(c) \/ Notified(c) \/ SendRaises(c)
      PROVE  FALSE
  <2>1. call[c].door \in {"browser", "external", "token"}
    BY <1>3, EntryAssumption
       DEF IInv, CallsInv, CallsOK, CallInv, CallRec, Sent, Notified, SendRaises
  <2>2. \E answer : Answer(c, answer)
    BY <1>3, <2>1
       DEF Sent, AfterSend, Notified, SendRaises, AfterNone, AnswerWithToken
  <2> QED
    BY <1>0, <2>2 DEF Answer, CallRec
<1>4. ASSUME NEW c \in Calls, StoreCallback(c)
      PROVE  FALSE
  <2>1. Suspend(c, "notify")
    BY <1>4 DEF StoreCallback
  <2> QED
    BY <1>0, <2>1, SuspendRecord DEF IInv, CallsInv, Stages
<1>5. ~Api
  BY DEF Api, Deregister, Release, Register, Decision, Reload, callVars
<1>6. ~Surroundings /\ ~UNCHANGED vars
  BY DEF Surroundings, StatusAges, NodesChange, vars, callVars
<1> QED
  BY <1>1, <1>2, <1>3, <1>4, <1>5, <1>6 DEF Next, Arrive, Resume

\* producer.py, "Returns None when Kafka is unavailable", as far as it is true
\* of the token endpoint: with Kafka found inactive at start-up every call with
\* a token has its worker or its request, and only a send that raises while
\* Kafka is active leaves one without.
THEOREM AloneOnlyIfSendRaised ==
  Spec => [](\A c \in Calls : TokenAlone(c) => kafka /\ "produce" \in Faults)
<1>. DEFINE KafkaSubmits == \A c \in Calls : call[c].stage = "submit" => kafka
            AloneInv == \A c \in Calls : TokenAlone(c) => kafka /\ "produce" \in Faults
<1>1. Init => KafkaSubmits /\ AloneInv
  BY DEF Init, TokenAlone
<1>2. IInv /\ KafkaSubmits /\ [Next]_vars => KafkaSubmits'
  BY SubmitNeedsKafka, NothingIsTakenBack
<1>3. IInv /\ KafkaSubmits /\ AloneInv /\ [Next]_vars => AloneInv'
  BY TokenStep, NothingIsTakenBack DEF SendRaises
<1> HIDE DEF KafkaSubmits
<1>4. AloneInv => \A c \in Calls : TokenAlone(c) => kafka /\ "produce" \in Faults
  OBVIOUS
<1> HIDE DEF AloneInv
<1> QED
  BY <1>1, <1>2, <1>3, <1>4, Invariance, PTL DEF Spec
=============================================================================
