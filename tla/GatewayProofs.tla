---------------------------- MODULE GatewayProofs ----------------------------
(***************************************************************************)
(* Theorems of Gateway, for any number of requests, every route table's    *)
(* choice of kinds and all deadlines.                                      *)
(***************************************************************************)
EXTENDS Gateway, TLAPS

\* What a query has read was withdrawn while it was on its way, if at all.
ReadsAreRecent ==
  \A r \in Requests, p \in Products :
    At(r, "resume") /\ p \in req[r].seen \ modules => gone[p] <= req[r].age

\* A withdrawn product and the entry that still names it: the longer it is
\* gone, the less the entry has to live.
EntriesRunOut ==
  cache # None /\ cache.left > 0 =>
    \A p \in cache.products \ modules : gone[p] + cache.left <= TTL

\* A public send that has passed its check names recipients, all known.
SendsAreChecked ==
  \A r \in Requests : req[r] # None /\ req[r].kind.chain = "key_send" =>
    /\ req[r].pc \in {"known", "known_body"} => req[r].to # {}
    /\ req[r].pc \in {"send", "fetch", "body"} =>
         req[r].to # {} /\ req[r].to \subseteq {"user", "lead", "short"}

IInv == TypeOK /\ ReadsAreRecent /\ EntriesRunOut /\ SendsAreChecked

(* Every deadline is a positive number of ticks.                            *)
LEMMA Deadlines ==
  ASSUME NEW kind
  PROVE  /\ Wait(kind) \in Nat \ {0} /\ Deadline(kind) = Wait(kind)
         /\ KnownTimeout \in Nat \ {0} /\ MaxRead \in Nat \ {0}
         /\ Slow(kind) = Wait(kind) + KnownTimeout + MaxRead
BY GatewayAssumption DEF Wait, Deadline, Slow

(* Which steps a route's chain has.                                         *)
LEMMA StepsOfChains ==
  ASSUME NEW kind
  PROVE  /\ Steps(kind) \subseteq Pcs
         /\ {"send", "fetch", "body", "done"} \subseteq Steps(kind)
         /\ kind.chain \notin {"open", "limit"} => "auth" \in Steps(kind)
         /\ kind.chain = "key_send" => {"users", "known", "known_body"} \subseteq Steps(kind)
         /\ kind.chain \notin {"open", "limit", "key", "limit_key", "key_send"} =>
              "product" \in Steps(kind)
         /\ \A pc \in {"product", "read", "resume", "role"} : pc \in Steps(kind) =>
              /\ kind.chain \notin {"open", "limit", "key", "limit_key", "key_send"}
              /\ AfterProduct(kind) \in Steps(kind)
              /\ kind.product # None => {"read", "resume"} \subseteq Steps(kind)
         /\ \A pc \in {"users", "known", "known_body"} : pc \in Steps(kind) =>
              kind.chain = "key_send"
BY DEF Steps, Pcs, AfterProduct

(* A request has its fields.                                                *)
LEMMA Fields ==
  ASSUME NEW x \in Request
  PROVE  /\ x # None
         /\ x.kind \in KindsInUse /\ x.age \in Nat /\ x.left \in Nat
         /\ x.to \in Recipients /\ x.seen \in SUBSET Products /\ x.pc \in Pcs
         /\ x.status \in Nat \cup {None}
BY NoneAssumption DEF Request

(* A request that asks for a product asks for one the slots know.           *)
LEMMA GatedByProducts ==
  ASSUME NEW x \in Request, x.kind.product # None
  PROVE  x.kind.product \in Products
BY Fields DEF Products

(* What the invariant asks of a request x whose service is at w.            *)
Sound(x, w) ==
  /\ x \in Request
  /\ x.pc \in Steps(x.kind)
  /\ x.pc = "fetch" => x.age + x.left = Wait(x.kind)
  /\ x.pc = "known" => x.age + x.left = KnownTimeout
  /\ x.age <= Slow(x.kind)
  /\ (x.status = None) = (x.pc \notin {"body", "done"})
  /\ x.pc \in {"fetch", "body"} => w # "none"
  /\ x.pc = "resume" => \A p \in x.seen \ modules : gone[p] <= x.age
  /\ x.kind.chain = "key_send" =>
       /\ x.pc \in {"known", "known_body"} => x.to # {}
       /\ x.pc \in {"send", "fetch", "body"} =>
            x.to # {} /\ x.to \subseteq {"user", "lead", "short"}

(* It holds of every request in flight.                                     *)
LEMMA RequestsAreSound ==
  ASSUME IInv, NEW r \in Requests, req[r] # None
  PROVE  Sound(req[r], work[r])
<1>1. req[r] \in Request
  BY DEF IInv, TypeOK
<1>2. \A p \in req[r].seen : p \in Products
  BY <1>1, Fields
<1> QED
  BY <1>1, <1>2 DEF IInv, TypeOK, ReadsAreRecent, SendsAreChecked, Sound, At

(* A step of one request keeps the invariant if its new state is sound and  *)
(* so is what it stores.                                                    *)
LEMMA SoundMove ==
  ASSUME IInv, NEW r \in Requests, NEW x, NEW w \in {"none", "running", "done"},
         Sound(x, w),
         req' = [req EXCEPT ![r] = x], work' = [work EXCEPT ![r] = w],
         UNCHANGED <<modules, gone>>,
         cache' \in [products: SUBSET Products, left: 0..TTL] \cup {None},
         EntriesRunOut'
  PROVE  IInv'
<1>1. x \in Request /\ x # None
  BY Fields DEF Sound
<1>2. /\ req'[r] = x /\ work'[r] = w
      /\ \A s \in Requests \ {r} : req'[s] = req[s] /\ work'[s] = work[s]
  BY DEF IInv, TypeOK
<1>3. TypeOK'
  <2>1. /\ req' \in [Requests -> Request \cup {None}]
        /\ work' \in [Requests -> {"none", "running", "done"}]
    BY <1>1 DEF IInv, TypeOK
  <2>2. \A s \in Requests : req'[s] # None =>
          /\ req'[s].pc \in Steps(req'[s].kind)
          /\ req'[s].pc = "fetch" => req'[s].age + req'[s].left = Wait(req'[s].kind)
          /\ req'[s].pc = "known" => req'[s].age + req'[s].left = KnownTimeout
          /\ req'[s].age <= Slow(req'[s].kind)
          /\ (req'[s].status = None) = (req'[s].pc \notin {"body", "done"})
          /\ req'[s].pc \in {"fetch", "body"} => work'[s] # "none"
    BY <1>2 DEF Sound, IInv, TypeOK
  <2>3. \A s \in Requests : req'[s] = None => work'[s] = "none"
    BY <1>1, <1>2 DEF IInv, TypeOK
  <2> QED
    BY <2>1, <2>2, <2>3 DEF IInv, TypeOK
<1>4. ReadsAreRecent'
  BY <1>2 DEF Sound, IInv, ReadsAreRecent, At
<1>5. SendsAreChecked'
  BY <1>2 DEF Sound, IInv, SendsAreChecked
<1> QED
  BY <1>3, <1>4, <1>5 DEF IInv

(* A request goes on to a step that knows nothing yet.                      *)
LEMMA ToIsSound ==
  ASSUME IInv, NEW r \in Requests, NEW pc \in Pcs, To(r, pc), req[r] # None,
         req[r].pc \notin {"body", "done"}, pc \in Steps(req[r].kind),
         pc \notin {"fetch", "body", "done", "resume", "known"},
         req[r].kind.chain = "key_send" =>
           /\ pc = "known_body" => req[r].to # {}
           /\ pc = "send" => req[r].to # {} /\ req[r].to \subseteq {"user", "lead", "short"},
         UNCHANGED <<work, modules, gone>>,
         cache' \in [products: SUBSET Products, left: 0..TTL] \cup {None},
         EntriesRunOut'
  PROVE  IInv'
<1> DEFINE x == [req[r] EXCEPT !.pc = pc, !.age = 0, !.left = 0, !.seen = {}]
<1>1. Sound(req[r], work[r]) /\ req[r] \in Request
  BY RequestsAreSound DEF Sound
<1>2. req' = [req EXCEPT ![r] = x]
  BY DEF To
<1>3. /\ x \in Request
      /\ x.pc = pc /\ x.age = 0 /\ x.kind = req[r].kind /\ x.to = req[r].to
      /\ x.status = req[r].status
  BY <1>1 DEF Request
<1>4. Sound(x, work[r])
  <2> HIDE DEF x
  <2> QED
    BY <1>1, <1>3, Deadlines DEF Sound
<1>5. work' = [work EXCEPT ![r] = work[r]] /\ work[r] \in {"none", "running", "done"}
  BY DEF IInv, TypeOK
<1> HIDE DEF x
<1> QED
  BY <1>2, <1>4, <1>5, SoundMove

(* A request is answered.                                                   *)
LEMMA AnswerIsSound ==
  ASSUME IInv, NEW r \in Requests, NEW status \in Nat, Answer(r, status), req[r] # None,
         NEW w \in {"none", "running", "done"}, work' = [work EXCEPT ![r] = w],
         UNCHANGED <<modules, gone>>,
         cache' \in [products: SUBSET Products, left: 0..TTL] \cup {None},
         EntriesRunOut'
  PROVE  IInv'
<1> DEFINE x == [req[r] EXCEPT !.pc = "done", !.status = status, !.to = {},
                               !.age = 0, !.left = 0, !.seen = {}]
<1>1. req[r] \in Request
  BY RequestsAreSound DEF Sound
<1>2. req' = [req EXCEPT ![r] = x]
  BY DEF Answer
<1>3. /\ x \in Request
      /\ x.pc = "done" /\ x.age = 0 /\ x.status = status
  BY <1>1 DEF Request, Pcs, Recipients
<1>4. Sound(x, w)
  <2>1. status # None
    BY NoneAssumption
  <2> HIDE DEF x
  <2> QED
    BY <1>3, <2>1, Deadlines, StepsOfChains DEF Sound
<1> HIDE DEF x
<1> QED
  BY <1>2, <1>4, SoundMove

(* A step that leaves the modules and the cache alone leaves the entry.     *)
LEMMA CacheStays ==
  ASSUME IInv, UNCHANGED <<modules, gone, cache>>
  PROVE  /\ cache' \in [products: SUBSET Products, left: 0..TTL] \cup {None}
         /\ EntriesRunOut'
BY DEF IInv, TypeOK, EntriesRunOut

(* With or without the licence: a public send is never asked for one.       *)
LEMMA JudgeKeepsIInv ==
  ASSUME IInv, NEW r \in Requests, NEW products, Judge(r, products), req[r] # None,
         req[r].pc \in {"product", "resume"}, UNCHANGED <<work, modules, gone>>,
         cache' \in [products: SUBSET Products, left: 0..TTL] \cup {None},
         EntriesRunOut'
  PROVE  IInv'
<1>1. /\ req[r].kind.chain # "key_send"
      /\ AfterProduct(req[r].kind) \in Steps(req[r].kind)
  BY StepsOfChains DEF IInv, TypeOK
<1>2. AfterProduct(req[r].kind) \in {"role", "send"}
  BY DEF AfterProduct
<1>3. work' = [work EXCEPT ![r] = work[r]] /\ work[r] \in {"none", "running", "done"}
  BY DEF IInv, TypeOK
<1>4. CASE To(r, AfterProduct(req[r].kind))
  <2> DEFINE next == AfterProduct(req[r].kind)
  <2>1. /\ next \in Pcs /\ next \notin {"fetch", "body", "done", "resume", "known"}
        /\ req[r].pc \notin {"body", "done"}
        /\ next \in Steps(req[r].kind)
    BY <1>1, <1>2 DEF Pcs
  <2>2. To(r, next)
    BY <1>4
  <2> HIDE DEF next
  <2> QED
    BY <1>1, <2>1, <2>2, ToIsSound
<1>5. CASE Answer(r, 403)
  <2>1. UNCHANGED <<modules, gone>> /\ work' = [work EXCEPT ![r] = work[r]]
    BY <1>3
  <2>2. 403 \in Nat
    OBVIOUS
  <2> HIDE DEF EntriesRunOut
  <2> QED
    BY ONLY IInv, r \in Requests, <1>3, <1>5, <2>1, <2>2, AnswerIsSound, req[r] # None,
            cache' \in [products: SUBSET Products, left: 0..TTL] \cup {None}, EntriesRunOut'
<1> QED
  BY <1>4, <1>5 DEF Judge

(* The chain's own steps.                                                   *)
LEMMA HandleKeepsIInv ==
  ASSUME IInv, NEW r \in Requests, Handle(r)
  PROVE  IInv'
<1>1. req[r] # None
  BY DEF Handle, At, Authenticate, CheckProduct, ReadModules, StoreProducts,
         ReadFails, CheckRole, FindUsers, Send, FetchTimesOut, KnownTimesOut
<1>2. Sound(req[r], work[r]) /\ req[r] \in Request
  BY <1>1, RequestsAreSound DEF Sound
<1>3. work[r] \in {"none", "running", "done"} /\ work = [work EXCEPT ![r] = work[r]]
  BY DEF IInv, TypeOK
<1>4. CASE Authenticate(r)
  <2> DEFINE next == CASE req[r].kind.chain \in {"key", "limit_key"} -> "send"
                       [] req[r].kind.chain = "key_send" -> "users"
                       [] OTHER -> "product"
  <2>0. req[r].pc \in Steps(req[r].kind)
    BY <1>2 DEF Sound
  <2>1. next \in {"send", "users", "product"} /\ next \in Steps(req[r].kind)
    <3>1. req[r].kind.chain \notin {"open", "limit"}
      BY <1>4, <2>0 DEF Authenticate, At, Steps
    <3> QED
      BY <3>1, StepsOfChains
  <2>2. req[r].kind.chain = "key_send" => next = "users"
    OBVIOUS
  <2>3. /\ UNCHANGED <<work, modules, gone, cache>> /\ req[r].pc = "auth"
        /\ \/ Answer(r, 401)
           \/ To(r, next)
           \/ req[r].kind.chain \in {"user", "super"} /\ To(r, AfterProduct(req[r].kind))
    BY <1>4 DEF Authenticate, At
  <2>4. CASE Answer(r, 401)
    BY <1>1, <1>3, <2>3, <2>4, AnswerIsSound, CacheStays
  <2>5. CASE To(r, next)
    <3> HIDE DEF next
    <3> QED
      BY <1>1, <2>1, <2>2, <2>3, <2>5, ToIsSound, CacheStays DEF Pcs
  <2>6. CASE req[r].kind.chain \in {"user", "super"} /\ To(r, AfterProduct(req[r].kind))
    <3>1. AfterProduct(req[r].kind) \in {"role", "send"} \cap Steps(req[r].kind)
      <4>1. "product" \in Steps(req[r].kind)
        BY <2>6, StepsOfChains
      <4> QED
        BY <4>1, StepsOfChains DEF AfterProduct
    <3> QED
      BY <1>1, <2>3, <2>6, <3>1, ToIsSound, CacheStays DEF Pcs
  <2> QED
    BY <2>3, <2>4, <2>5, <2>6
<1>5. CASE CheckProduct(r)
  <2>1. UNCHANGED <<work, modules, gone, cache>> /\ req[r].pc = "product"
    BY <1>5 DEF CheckProduct, At
  <2>2. /\ req[r].kind.chain # "key_send"
        /\ AfterProduct(req[r].kind) \in Steps(req[r].kind)
        /\ req[r].kind.product # None => {"read", "resume"} \subseteq Steps(req[r].kind)
    BY <1>2, <2>1, StepsOfChains DEF Sound
  <2>3. CASE To(r, AfterProduct(req[r].kind))
    <3>1. AfterProduct(req[r].kind) \in {"role", "send"}
      BY DEF AfterProduct
    <3> QED
      BY <1>1, <2>1, <2>2, <2>3, <3>1, ToIsSound, CacheStays DEF Pcs
  <2>4. CASE Judge(r, cache.products)
    BY <1>1, <2>1, <2>4, JudgeKeepsIInv, CacheStays
  <2>5. CASE /\ req[r].kind.product # None
             /\ req' = [req EXCEPT ![r].pc = "read", ![r].age = 0]
    <3> DEFINE x == [req[r] EXCEPT !.pc = "read", !.age = 0]
    <3>1. /\ x \in Request /\ x.pc = "read" /\ x.age = 0
          /\ x.kind = req[r].kind /\ x.status = req[r].status
      BY <1>2 DEF Request, Pcs
    <3>2. req' = [req EXCEPT ![r] = x]
      BY <2>5
    <3>2a. "read" \in Steps(req[r].kind) /\ Slow(req[r].kind) \in Nat
      BY <2>2, <2>5, Deadlines
    <3> HIDE DEF x
    <3>3. Sound(x, work[r])
      BY <1>2, <2>1, <2>2, <3>1, <3>2a DEF Sound
    <3> QED
      BY <1>3, <2>1, <3>2, <3>3, SoundMove, CacheStays
  <2> QED
    BY <1>5, <2>3, <2>4, <2>5 DEF CheckProduct
<1>6. CASE ReadModules(r)
  <2> DEFINE x == [req[r] EXCEPT !.pc = "resume", !.seen = modules]
  <2>1. UNCHANGED <<work, modules, gone, cache>> /\ req[r].pc = "read"
    BY <1>6 DEF ReadModules, At
  <2>2. /\ x \in Request /\ x.pc = "resume" /\ x.age = req[r].age
        /\ x.kind = req[r].kind /\ x.status = req[r].status /\ x.seen = modules
    BY <1>2 DEF Request, Pcs, IInv, TypeOK
  <2>3. req' = [req EXCEPT ![r] = x]
    BY <1>6 DEF ReadModules
  <2> HIDE DEF x
  <2>4. Sound(x, work[r])
    <3>1. "resume" \in Steps(req[r].kind)
      BY <1>2, <2>1 DEF Sound, Steps
    <3> QED
      BY <1>2, <2>1, <2>2, <3>1 DEF Sound
  <2> QED
    BY <1>3, <2>1, <2>3, <2>4, SoundMove, CacheStays
<1>6a. CASE ReadFails(r)
  BY <1>1, <1>3, <1>6a, AnswerIsSound, CacheStays DEF ReadFails
<1>7. CASE StoreProducts(r)
  <2> DEFINE entry == [products |-> req[r].seen, left |-> Life(r)]
  <2>1. /\ req[r].pc = "resume" /\ UNCHANGED <<work, modules, gone>>
        /\ cache' = entry /\ Judge(r, req[r].seen)
    BY <1>7 DEF StoreProducts, At
  <2>2. Life(r) \in 0..TTL /\ (Life(r) > 0 => Life(r) + req[r].age = TTL)
    BY <1>2, Fields, GatewayAssumption DEF Life
  <2>3. entry \in [products: SUBSET Products, left: 0..TTL]
    BY <1>2, <2>2, Fields
  <2>4. ASSUME Life(r) > 0, NEW p \in req[r].seen \ modules
        PROVE  gone[p] + Life(r) <= TTL
    <3>1. gone[p] <= req[r].age
      BY <1>2, <2>1 DEF Sound
    <3>2. gone[p] \in Nat
      <4>1. p \in Products
        BY <1>2, Fields
      <4> QED
        BY <4>1 DEF IInv, TypeOK
    <3>3. TTL \in Nat /\ req[r].age \in Nat
      BY <1>2, Fields, GatewayAssumption
    <3> QED
      BY <2>2, <2>4, <3>1, <3>2, <3>3
  <2>5. EntriesRunOut'
    BY <2>1, <2>4 DEF EntriesRunOut
  <2> QED
    BY <1>1, <2>1, <2>3, <2>5, JudgeKeepsIInv
<1>8. CASE CheckRole(r)
  <2>1. UNCHANGED <<work, modules, gone, cache>> /\ req[r].pc = "role"
    BY <1>8 DEF CheckRole, At
  <2>2. req[r].kind.chain # "key_send" /\ "send" \in Steps(req[r].kind)
    BY <1>2, <2>1, StepsOfChains DEF Sound
  <2>3. CASE Answer(r, 403)
    BY <1>1, <1>3, <2>1, <2>3, AnswerIsSound, CacheStays
  <2>4. CASE To(r, "send")
    BY <1>1, <2>1, <2>2, <2>4, ToIsSound, CacheStays DEF Pcs
  <2> QED
    BY <1>8, <2>3, <2>4 DEF CheckRole
<1>9. CASE FindUsers(r)
  <2>1. UNCHANGED <<work, modules, gone, cache>> /\ req[r].pc = "users"
    BY <1>9 DEF FindUsers, At
  <2>2. ASSUME NEW status \in Nat, Answer(r, status)
        PROVE  IInv'
    BY <1>1, <1>3, <2>1, <2>2, AnswerIsSound, CacheStays
  <2> DEFINE to == req[r].to
             others == LookedUp(to) \ KnownUserContacts(LookedUp(to))
  <2>3. CASE to # {} /\ others = {} /\ To(r, "send")
    <3>1. to \subseteq {"user", "short"}
      BY <2>3 DEF LookedUp, KnownUserContacts
    <3>2. "send" \in Steps(req[r].kind)
      BY StepsOfChains
    <3> QED
      BY <1>1, <2>1, <2>3, <3>1, <3>2, ToIsSound, CacheStays DEF Pcs
  <2>4. CASE /\ to # {}
             /\ req' = [req EXCEPT ![r].pc = "known", ![r].age = 0,
                                   ![r].left = KnownTimeout]
    <3> DEFINE x == [req[r] EXCEPT !.pc = "known", !.age = 0, !.left = KnownTimeout]
    <3>0. "known" \in Steps(req[r].kind)
      BY <1>2, <2>1 DEF Sound, Steps
    <3>1. /\ x \in Request /\ x.pc = "known" /\ x.age = 0 /\ x.left = KnownTimeout
          /\ x.kind = req[r].kind /\ x.status = req[r].status /\ x.to = to
      BY <1>2, GatewayAssumption DEF Request, Pcs
    <3>2. req' = [req EXCEPT ![r] = x]
      BY <2>4
    <3> HIDE DEF x
    <3>3. Sound(x, work[r])
      BY <1>2, <2>1, <2>4, <3>0, <3>1, Deadlines DEF Sound
    <3> QED
      BY <1>3, <2>1, <3>2, <3>3, SoundMove, CacheStays
  <2> QED
    BY <1>9, <2>2, <2>3, <2>4 DEF FindUsers
<1>10. CASE Send(r)
  <2> DEFINE x == [req[r] EXCEPT !.pc = "fetch", !.age = 0, !.left = Deadline(req[r].kind)]
  <2>1. /\ UNCHANGED <<modules, gone, cache>> /\ req[r].pc = "send"
        /\ req' = [req EXCEPT ![r] = x] /\ work' = [work EXCEPT ![r] = "running"]
    BY <1>10 DEF Send, At
  <2>2. /\ x \in Request /\ x.pc = "fetch" /\ x.age = 0 /\ x.left = Wait(x.kind)
        /\ x.kind = req[r].kind /\ x.status = req[r].status /\ x.to = req[r].to
    BY <1>2, Deadlines DEF Request, Pcs
  <2> HIDE DEF x
  <2>3. Sound(x, "running")
    BY <1>2, <2>1, <2>2, Deadlines, StepsOfChains DEF Sound
  <2> QED
    BY <2>1, <2>3, SoundMove, CacheStays
<1>11. CASE FetchTimesOut(r)
  BY <1>1, <1>3, <1>11, AnswerIsSound, CacheStays DEF FetchTimesOut
<1>12. CASE KnownTimesOut(r)
  BY <1>1, <1>3, <1>12, AnswerIsSound, CacheStays DEF KnownTimesOut, KnownFails, RefuseUnknown
<1> QED
  BY <1>4, <1>5, <1>6, <1>6a, <1>7, <1>8, <1>9, <1>10, <1>11, <1>12 DEF Handle

(* What the services and the network do.                                    *)
LEMMA UpstreamKeepsIInv ==
  ASSUME IInv, NEW r \in Requests,
         \/ WorkEnds(r) \/ Headers(r) \/ BodyEnds(r) \/ FetchFails(r)
         \/ KnownHeaders(r) \/ KnownAnswers(r) \/ KnownFails(r)
  PROVE  IInv'
<1>1. work[r] \in {"none", "running", "done"} /\ work = [work EXCEPT ![r] = work[r]]
  BY DEF IInv, TypeOK
<1>2. CASE WorkEnds(r)
  <2>1. /\ req[r] # None /\ req = [req EXCEPT ![r] = req[r]]
    BY <1>2 DEF WorkEnds, IInv, TypeOK
  <2>2. Sound(req[r], "done")
    BY <2>1, RequestsAreSound DEF Sound
  <2> QED
    BY <1>2, <2>1, <2>2, SoundMove, CacheStays DEF WorkEnds
<1>3. ASSUME req[r] # None, NEW status \in Nat, Answer(r, status),
             NEW w \in {"none", "running", "done"}, work' = [work EXCEPT ![r] = w],
             UNCHANGED <<modules, gone, cache>>
      PROVE  IInv'
  BY <1>3, AnswerIsSound, CacheStays
<1>4. CASE Headers(r)
  <2> DEFINE x == [req[r] EXCEPT !.pc = "body", !.status = 200, !.age = 0, !.left = 0]
  <2>1. /\ req[r] # None /\ req[r].pc = "fetch" /\ work[r] = "done"
        /\ req' = [req EXCEPT ![r] = x] /\ UNCHANGED <<work, modules, gone, cache>>
    BY <1>4 DEF Headers, At
  <2>2. Sound(req[r], work[r]) /\ req[r] \in Request
    BY <2>1, RequestsAreSound DEF Sound
  <2>3. /\ x \in Request /\ x.pc = "body" /\ x.age = 0 /\ x.status = 200
        /\ x.kind = req[r].kind /\ x.to = req[r].to
    BY <2>2, ZenonT(40) DEF Request, Pcs
  <2>4. Sound(x, work[r])
    <3>1. 200 # None
      BY NoneAssumption
    <3> HIDE DEF x
    <3> QED
      BY <2>1, <2>2, <2>3, <3>1, Deadlines, StepsOfChains DEF Sound
  <2> HIDE DEF x
  <2> QED
    BY <1>1, <2>1, <2>4, SoundMove, CacheStays
<1>5. CASE BodyEnds(r)
  <2>1. req[r] # None /\ req[r].status \in Nat
    <3>1. req[r] # None /\ req[r].pc = "body"
      BY <1>5 DEF BodyEnds, At
    <3>2. Sound(req[r], work[r]) /\ req[r].status \in Nat \cup {None}
      BY <3>1, RequestsAreSound, Fields DEF Sound
    <3> QED
      BY <3>1, <3>2 DEF Sound
  <2> QED
    BY <1>1, <1>3, <1>5, <2>1 DEF BodyEnds
<1>6. CASE FetchFails(r)
  <2>1. PICK w \in {"none", "running", "done"} : work' = [work EXCEPT ![r] = w]
    BY <1>1, <1>6 DEF FetchFails
  <2>2. req[r] # None /\ Answer(r, 502) /\ UNCHANGED <<modules, gone, cache>>
    BY <1>6 DEF FetchFails, At
  <2>3. 502 \in Nat
    OBVIOUS
  <2> QED
    BY <2>1, <2>2, <2>3, AnswerIsSound, CacheStays
<1>7. CASE KnownHeaders(r)
  <2>1. /\ req[r] # None /\ req[r].pc = "known"
        /\ To(r, "known_body") /\ UNCHANGED <<work, modules, gone, cache>>
    BY <1>7 DEF KnownHeaders, At
  <2>2. /\ req[r].kind.chain = "key_send" => req[r].to # {}
        /\ "known_body" \in Steps(req[r].kind)
    BY <2>1 DEF IInv, TypeOK, SendsAreChecked, Steps
  <2> QED
    BY <2>1, <2>2, ToIsSound, CacheStays DEF Pcs
<1>8. CASE KnownAnswers(r)
  <2>1. /\ req[r] # None /\ req[r].pc = "known_body"
        /\ UNCHANGED <<work, modules, gone, cache>>
    BY <1>8 DEF KnownAnswers, At
  <2>2. CASE LookedUp(req[r].to) \subseteq {"user", "lead"} /\ To(r, "send")
    <3>1. req[r].kind.chain = "key_send" =>
            req[r].to # {} /\ req[r].to \subseteq {"user", "lead", "short"}
      BY <2>1, <2>2 DEF IInv, SendsAreChecked, LookedUp
    <3> QED
      BY <2>1, <2>2, <3>1, StepsOfChains, ToIsSound, CacheStays DEF Pcs
  <2>3. CASE Answer(r, 400)
    BY <1>1, <1>3, <2>1, <2>3
  <2> QED
    BY <1>8, <2>2, <2>3 DEF KnownAnswers
<1>9. CASE KnownFails(r)
  BY <1>1, <1>3, <1>9 DEF KnownFails, RefuseUnknown, At
<1> QED
  BY <1>2, <1>4, <1>5, <1>6, <1>7, <1>8, <1>9

(* A request comes in, checked by nobody yet.                               *)
LEMMA ArriveKeepsIInv ==
  ASSUME IInv, NEW r \in Requests, NEW kind \in Kinds[r], NEW to \in Recipients,
         Arrive(r, kind, to)
  PROVE  IInv'
<1> DEFINE starts == CASE kind.chain = "limit" -> {"send", "done"}
                       [] kind.chain = "limit_key" -> {"auth", "done"}
                       [] kind.chain = "open" -> {"send"}
                       [] OTHER -> {"auth"}
<1>1. PICK pc \in starts :
        req' = [req EXCEPT ![r] =
         [kind |-> kind, age |-> 0, left |-> 0, to |-> to, seen |-> {}, pc |-> pc,
          status |-> IF pc = "done" THEN 429 ELSE None]]
  BY DEF Arrive
<1>2. /\ pc \in {"send", "done", "auth"} /\ (kind.chain = "key_send" => pc = "auth")
      /\ pc \in Steps(kind)
  <2>1. /\ pc \in {"send", "done", "auth"} /\ (kind.chain = "key_send" => pc = "auth")
        /\ pc = "auth" => kind.chain \notin {"open", "limit"}
    BY <1>1
  <2> QED
    BY <2>1, StepsOfChains
<1> HIDE DEF starts
<1> DEFINE x == [kind |-> kind, age |-> 0, left |-> 0, to |-> to, seen |-> {}, pc |-> pc,
                 status |-> IF pc = "done" THEN 429 ELSE None]
<1>3. x \in Request
  BY <1>2 DEF Request, Pcs, KindsInUse
<1>4. /\ x.pc = pc /\ x.age = 0 /\ x.kind = kind
      /\ x.status = IF pc = "done" THEN 429 ELSE None
  OBVIOUS
<1>5. 429 # None
  BY NoneAssumption
<1>6. Sound(x, work[r])
  <2> HIDE DEF x
  <2> QED
    BY <1>2, <1>3, <1>4, <1>5, Deadlines DEF Sound
<1>7. work[r] \in {"none", "running", "done"} /\ work = [work EXCEPT ![r] = work[r]]
  BY DEF IInv, TypeOK
<1>8. req' = [req EXCEPT ![r] = x] /\ UNCHANGED <<work, modules, gone, cache>>
  BY <1>1 DEF Arrive
<1> HIDE DEF x
<1> QED
  BY <1>6, <1>7, <1>8, SoundMove, CacheStays

(* The slot is free again.                                                  *)
LEMMA CloseKeepsIInv ==
  ASSUME IInv, NEW r \in Requests, Close(r)
  PROVE  IInv'
<1>1. /\ req' \in [Requests -> Request \cup {None}]
      /\ work' \in [Requests -> {"none", "running", "done"}]
      /\ req'[r] = None /\ work'[r] = "none"
      /\ \A s \in Requests \ {r} : req'[s] = req[s] /\ work'[s] = work[s]
      /\ UNCHANGED <<modules, gone, cache>>
  BY DEF Close, IInv, TypeOK
<1>2. TypeOK'
  BY <1>1 DEF IInv, TypeOK
<1>3. ReadsAreRecent' /\ SendsAreChecked'
  BY <1>1 DEF IInv, ReadsAreRecent, SendsAreChecked, At
<1> QED
  BY <1>1, <1>2, <1>3, CacheStays DEF IInv

(* The memory of the process is lost.                                       *)
LEMMA RestartKeepsIInv ==
  ASSUME IInv, Restart
  PROVE  IInv'
BY DEF Restart, IInv, TypeOK, ReadsAreRecent, SendsAreChecked, EntriesRunOut, At

(* A product that is withdrawn now is gone for no time yet.                 *)
LEMMA ChangeModulesKeepsIInv ==
  ASSUME IInv, NEW p \in Products, ChangeModules(p)
  PROVE  IInv'
<1>1. /\ modules' = IF p \in modules THEN modules \ {p} ELSE modules \cup {p}
      /\ gone' = [gone EXCEPT ![p] = IF p \in modules THEN 0 ELSE None]
      /\ UNCHANGED <<req, work, cache>>
  BY DEF ChangeModules
<1>2. /\ gone'[p] = IF p \in modules THEN 0 ELSE None
      /\ \A q \in Products \ {p} : gone'[q] = gone[q] /\ (q \in modules' <=> q \in modules)
      /\ 0 # None
  BY <1>1, NoneAssumption DEF IInv, TypeOK
<1>3. TypeOK'
  BY <1>1, <1>2 DEF IInv, TypeOK
<1>4. ReadsAreRecent'
  <2> SUFFICES ASSUME NEW r \in Requests, NEW q \in Products, At(r, "resume"),
                      q \in req[r].seen, q \notin modules'
               PROVE  gone'[q] <= req[r].age
    BY <1>1 DEF ReadsAreRecent, At
  <2>1. CASE q = p
    <3>1. gone'[q] = 0
      BY <1>1, <1>2, <2>1
    <3>2. req[r].age \in Nat
      BY Fields DEF At, IInv, TypeOK
    <3> QED
      BY <3>1, <3>2
  <2>2. CASE q # p
    BY <1>2, <2>2 DEF IInv, ReadsAreRecent
  <2> QED
    BY <2>1, <2>2
<1>5. EntriesRunOut'
  <2> SUFFICES ASSUME cache # None, cache.left > 0,
                      NEW q \in cache.products, q \notin modules'
               PROVE  gone'[q] + cache.left <= TTL
    BY <1>1 DEF EntriesRunOut
  <2>1. cache.products \subseteq Products /\ cache.left \in 0..TTL
    BY DEF IInv, TypeOK
  <2>2. CASE q = p
    <3>1. gone'[q] = 0
      BY <1>1, <1>2, <2>2
    <3> QED
      BY <2>1, <3>1, GatewayAssumption
  <2>3. CASE q # p
    BY <1>2, <2>1, <2>3 DEF IInv, EntriesRunOut
  <2> QED
    BY <2>2, <2>3
<1> QED
  BY <1>1, <1>3, <1>4, <1>5 DEF IInv, SendsAreChecked

(* Reads, entries and withdrawals age together.                             *)
LEMMA TickKeepsIInv ==
  ASSUME IInv, Tick
  PROVE  IInv'
<1> DEFINE Aged(x) == [x EXCEPT !.age = IF @ < Slow(x.kind) THEN @ + 1 ELSE @,
                                !.left = IF @ \in {0, None} THEN @ ELSE @ - 1]
<1>1. /\ TimeMayPass
      /\ req' = [r \in Requests |->
           IF req[r] # None /\ req[r].pc \in Timed THEN Aged(req[r]) ELSE req[r]]
      /\ gone' = [p \in Products |->
           IF gone[p] = None \/ gone[p] > TTL + MaxRead THEN gone[p] ELSE gone[p] + 1]
      /\ cache' = IF cache = None \/ cache.left = 0 THEN cache
                  ELSE [cache EXCEPT !.left = @ - 1]
      /\ UNCHANGED <<work, modules>>
  BY DEF Tick
<1>2. ASSUME NEW x \in Request
      PROVE  /\ Aged(x) \in Request
             /\ Aged(x).kind = x.kind /\ Aged(x).pc = x.pc /\ Aged(x).status = x.status
             /\ Aged(x).to = x.to /\ Aged(x).seen = x.seen
             /\ x.age <= Slow(x.kind) => Aged(x).age <= Slow(x.kind)
             /\ x.age < Slow(x.kind) => Aged(x).age = x.age + 1
             /\ x.left # 0 => Aged(x).left = x.left - 1
  <2>1. /\ x.age \in Nat /\ x.left \in Nat /\ Slow(x.kind) \in Nat
        /\ x.left # None
        /\ x = [kind |-> x.kind, age |-> x.age, left |-> x.left, to |-> x.to,
                seen |-> x.seen, pc |-> x.pc, status |-> x.status]
    BY Fields, Deadlines, NoneAssumption DEF Request
  <2> DEFINE a == IF x.age < Slow(x.kind) THEN x.age + 1 ELSE x.age
             l == IF x.left \in {0, None} THEN x.left ELSE x.left - 1
  <2>2. /\ a \in Nat /\ l \in Nat
        /\ x.age <= Slow(x.kind) => a <= Slow(x.kind)
        /\ x.age < Slow(x.kind) => a = x.age + 1
        /\ x.left # 0 => l = x.left - 1
    BY <2>1
  <2>3. Aged(x) = [x EXCEPT !.age = a, !.left = l]
    OBVIOUS
  <2> HIDE DEF a, l
  <2> QED
    BY <2>1, <2>2, <2>3 DEF Request
<1> HIDE DEF Aged
<1>3. ASSUME NEW r \in Requests, req'[r] # None
      PROVE  /\ req[r] # None /\ req[r] \in Request
             /\ req'[r].kind = req[r].kind /\ req'[r].pc = req[r].pc
             /\ req'[r].status = req[r].status /\ req'[r].to = req[r].to
             /\ req'[r].seen = req[r].seen
             /\ req'[r].age <= Slow(req[r].kind)
             /\ req[r].pc \in {"resume", "fetch", "known"} => req'[r].age = req[r].age + 1
             /\ req[r].pc \in {"fetch", "known"} => req'[r].left = req[r].left - 1
  <2>1. req[r] # None /\ req[r] \in Request /\ req[r].age <= Slow(req[r].kind)
    BY <1>1, <1>3 DEF IInv, TypeOK
  <2>2. /\ req[r].pc = "resume" => req[r].age < MaxRead
        /\ req[r].pc \in {"fetch", "known"} => req[r].left # 0
        /\ req[r].pc \in {"resume", "fetch", "known"} => req[r].pc \in Timed
    BY <1>1, <2>1 DEF TimeMayPass, Timed
  <2>3. req'[r] = IF req[r].pc \in Timed THEN Aged(req[r]) ELSE req[r]
    BY <1>1, <2>1
  <2>4. req[r].pc \in {"resume", "fetch", "known"} => req[r].age < Slow(req[r].kind)
    <3>1. /\ req[r].pc = "fetch" => req[r].age + req[r].left = Wait(req[r].kind)
          /\ req[r].pc = "known" => req[r].age + req[r].left = KnownTimeout
      BY <2>1 DEF IInv, TypeOK
    <3>2. req[r].age \in Nat /\ req[r].left \in Nat
      BY <2>1, Fields
    <3> QED
      BY <2>2, <3>1, <3>2, Deadlines
  <2> QED
    BY <1>2, <2>1, <2>2, <2>3, <2>4
<1>4. \A p \in Products : p \notin modules =>
        /\ gone[p] \in Nat /\ gone'[p] \in Nat /\ gone'[p] <= gone[p] + 1
  <2>1. \A p \in Products : p \notin modules => gone[p] \in Nat
    BY DEF IInv, TypeOK
  <2>2. TTL \in Nat /\ MaxRead \in Nat
    BY GatewayAssumption
  <2> QED
    BY <1>1, <2>1, <2>2, NoneAssumption
<1>5. TypeOK'
  <2>1. req' \in [Requests -> Request \cup {None}]
    BY <1>1, <1>2 DEF IInv, TypeOK
  <2>2. gone' \in [Products -> Nat \cup {None}]
    <3>1. \A p \in Products : gone'[p] \in Nat \cup {None}
      BY <1>1, <1>4 DEF IInv, TypeOK
    <3> QED
      BY <1>1, <3>1
  <2>3. cache' \in [products: SUBSET Products, left: 0..TTL] \cup {None}
    BY <1>1, GatewayAssumption DEF IInv, TypeOK
  <2>4. \A r \in Requests : req'[r] # None =>
          /\ req'[r].pc \in Steps(req'[r].kind)
          /\ req'[r].age <= Slow(req'[r].kind)
          /\ (req'[r].status = None) = (req'[r].pc \notin {"body", "done"})
          /\ req'[r].pc \in {"fetch", "body"} => work'[r] # "none"
    BY <1>1, <1>3 DEF IInv, TypeOK
  <2>4a. ASSUME NEW r \in Requests, req'[r] # None
         PROVE  /\ req'[r].pc = "fetch" => req'[r].age + req'[r].left = Wait(req'[r].kind)
                /\ req'[r].pc = "known" => req'[r].age + req'[r].left = KnownTimeout
    <3>1. /\ req[r].pc = "fetch" => req[r].age + req[r].left = Wait(req[r].kind)
          /\ req[r].pc = "known" => req[r].age + req[r].left = KnownTimeout
          /\ req[r].age \in Nat /\ req[r].left \in Nat
      BY <1>3, <2>4a, Fields DEF IInv, TypeOK
    <3> QED
      BY <1>3, <2>4a, <3>1
  <2>5. \A r \in Requests : req'[r] = None => req[r] = None
    BY <1>1, <1>2, Fields DEF IInv, TypeOK
  <2>6. \A p \in Products : (gone'[p] = None) = (gone[p] = None)
    BY <1>1, <1>4, NoneAssumption DEF IInv, TypeOK
  <2> QED
    BY <1>1, <2>1, <2>2, <2>3, <2>4, <2>4a, <2>5, <2>6 DEF IInv, TypeOK
<1>6. ReadsAreRecent'
  <2> SUFFICES ASSUME NEW r \in Requests, NEW p \in Products,
                      req'[r] # None, req'[r].pc = "resume",
                      p \in req'[r].seen, p \notin modules
               PROVE  gone'[p] <= req'[r].age
    BY <1>1 DEF ReadsAreRecent, At
  <2>1. /\ req[r] # None /\ req[r].pc = "resume" /\ p \in req[r].seen
        /\ req'[r].age = req[r].age + 1 /\ req[r].age \in Nat
    BY <1>3, Fields
  <2>2. gone[p] <= req[r].age
    BY <2>1 DEF IInv, ReadsAreRecent, At
  <2> QED
    BY <1>4, <2>1, <2>2
<1>7. EntriesRunOut'
  <2> SUFFICES ASSUME cache' # None, cache'.left > 0,
                      NEW p \in cache'.products, p \notin modules
               PROVE  gone'[p] + cache'.left <= TTL
    BY <1>1 DEF EntriesRunOut
  <2>1. /\ cache # None /\ cache.left \in 0..TTL /\ cache.products \subseteq Products
        /\ cache.left > 0 /\ cache'.left = cache.left - 1 /\ cache'.products = cache.products
    BY <1>1, GatewayAssumption DEF IInv, TypeOK
  <2>2. gone[p] + cache.left <= TTL
    BY <2>1 DEF IInv, EntriesRunOut
  <2>3. gone[p] \in Nat /\ gone'[p] \in Nat /\ gone'[p] <= gone[p] + 1
    BY <1>4, <2>1
  <2> QED
    BY <2>1, <2>2, <2>3, GatewayAssumption
<1>8. SendsAreChecked'
  BY <1>3 DEF IInv, SendsAreChecked
<1> QED
  BY <1>5, <1>6, <1>7, <1>8 DEF IInv

(* Nothing is in flight and every licence is in force.                      *)
LEMMA InitIInv == Init => IInv
BY DEF Init, IInv, TypeOK, ReadsAreRecent, EntriesRunOut, SendsAreChecked, At

(* One step per action of the gateway and of the world around it.           *)
LEMMA NextIInv == IInv /\ [Next]_vars => IInv'
<1> SUFFICES ASSUME IInv, [Next]_vars PROVE IInv'
  OBVIOUS
<1>1. CASE \E r \in Requests : \E kind \in Kinds[r] :
             \E to \in (IF kind.chain = "key_send" THEN Recipients ELSE {{}}) :
               Arrive(r, kind, to)
  <2>1. PICK r \in Requests : \E kind \in Kinds[r] :
          \E to \in (IF kind.chain = "key_send" THEN Recipients ELSE {{}}) :
            Arrive(r, kind, to)
    BY <1>1
  <2>2. PICK kind \in Kinds[r] :
          \E to \in (IF kind.chain = "key_send" THEN Recipients ELSE {{}}) :
            Arrive(r, kind, to)
    BY <2>1
  <2>3. PICK to \in Recipients : Arrive(r, kind, to)
    BY <2>2 DEF Recipients
  <2> QED
    BY <2>3, ArriveKeepsIInv
<1>2. CASE \E r \in Requests : Handle(r)
  BY <1>2, HandleKeepsIInv
<1>3. CASE \E r \in Requests : Close(r)
  BY <1>3, CloseKeepsIInv
<1>4. CASE \E r \in Requests :
             \/ WorkEnds(r) \/ Headers(r) \/ BodyEnds(r) \/ FetchFails(r)
             \/ KnownHeaders(r) \/ KnownAnswers(r) \/ KnownFails(r)
  BY <1>4, UpstreamKeepsIInv
<1>5. CASE \E p \in Products : ChangeModules(p)
  BY <1>5, ChangeModulesKeepsIInv
<1>6. CASE Restart
  BY <1>6, RestartKeepsIInv
<1>7. CASE Tick
  BY <1>7, TickKeepsIInv
<1>8. CASE UNCHANGED vars
  BY <1>8 DEF vars, IInv, TypeOK, ReadsAreRecent, EntriesRunOut, SendsAreChecked, At
<1> QED
  BY <1>1, <1>2, <1>3, <1>4, <1>5, <1>6, <1>7, <1>8 DEF Next

(* The invariant holds of every behaviour, with or without fairness.        *)
THEOREM Invariance == Spec => []IInv
<1>1. Init => IInv
  BY InitIInv
<1>2. IInv /\ [Next]_vars => IInv'
  BY NextIInv
<1> QED
  BY <1>1, <1>2, PTL DEF Spec

(* A request is at a step of its own route's chain, and while it waits for  *)
(* a service the time it has waited and the time it has left make up its    *)
(* route's deadline; work runs only in the slot of a request it was sent    *)
(* for.                                                                     *)
THEOREM TypeCorrect == Spec => []TypeOK
<1>1. IInv => TypeOK
  BY DEF IInv
<1> QED
  BY <1>1, Invariance, PTL

(* The public send fails closed, however the check of its recipients ends:  *)
(* publicCommsGuard lets nothing through that names nobody, or a stranger   *)
(* by anything but a phone number too short for it to look up.              *)
THEOREM PublicSendsFailClosed == Spec => []OnlyShortPhonesGoUnchecked
<1>1. IInv => OnlyShortPhonesGoUnchecked
  BY DEF IInv, SendsAreChecked, OnlyShortPhonesGoUnchecked
<1> QED
  BY <1>1, Invariance, PTL

(* What one step of the gateway may let through for a product that has been *)
(* withdrawn: what the cache still names, and what its own query has read.  *)
LEMMA LetThroughRecently ==
  ASSUME IInv, [Next]_vars, NEW r \in Requests,
         At(r, "product") \/ At(r, "resume"),
         req'[r] # None, req'[r].pc \in {"role", "send"},
         req[r].kind.product # None, req[r].kind.product \notin modules
  PROVE  \/ gone[req[r].kind.product] < TTL
         \/ At(r, "resume") /\ gone[req[r].kind.product] <= req[r].age
<1> DEFINE p == req[r].kind.product
<1>1. /\ req[r] # None /\ req[r] \in Request /\ req[r].pc \in {"product", "resume"}
      /\ p \in Products /\ p \notin modules
  <2>1. req[r] # None /\ req[r].pc \in {"product", "resume"}
    BY DEF At
  <2>2. req[r] \in Request
    BY <2>1 DEF IInv, TypeOK
  <2> QED
    BY <2>1, <2>2, GatedByProducts
<1>2. gone[p] \in Nat
  BY <1>1 DEF IInv, TypeOK
<1>3. req'[r].pc # req[r].pc
  BY <1>1
<1>4. CheckProduct(r) \/ StoreProducts(r)
  <2>1. ASSUME NEW s \in Requests, s # r, NEW x, req' = [req EXCEPT ![s] = x]
        PROVE  FALSE
    BY <1>3, <2>1 DEF IInv, TypeOK
  <2>2. ASSUME NEW s \in Requests, NEW kind \in Kinds[s], NEW to, Arrive(s, kind, to)
        PROVE  FALSE
    BY <1>1, <2>1, <2>2 DEF Arrive
  <2>3. ASSUME NEW s \in Requests, s # r PROVE ~ \E pc : To(s, pc) \/ Answer(s, pc)
    BY <1>3, <2>3 DEF To, Answer, IInv, TypeOK
  <2>4. ASSUME NEW s \in Requests, Handle(s) PROVE CheckProduct(r) \/ StoreProducts(r)
    <3>1. CASE s # r
      <4>1. ASSUME NEW x, req' = [req EXCEPT ![s] = x] PROVE FALSE
        BY <2>1, <3>1, <4>1
      <4>2. ASSUME NEW pc, To(s, pc) \/ Answer(s, pc) PROVE FALSE
        BY <2>3, <3>1, <4>2
      <4>3. ~ Judge(s, cache.products) /\ ~ Judge(s, req[s].seen)
        BY <4>2 DEF Judge
      <4>4. ~ Authenticate(s) /\ ~ CheckRole(s) /\ ~ FetchTimesOut(s) /\ ~ KnownTimesOut(s)
            /\ ~ ReadFails(s)
        BY <4>2 DEF Authenticate, CheckRole, ReadFails, FetchTimesOut, KnownTimesOut, KnownFails,
                    RefuseUnknown
      <4>5. ~ CheckProduct(s) /\ ~ StoreProducts(s) /\ ~ ReadModules(s)
        BY <4>1, <4>2, <4>3 DEF CheckProduct, StoreProducts, ReadModules
      <4>6. ~ FindUsers(s) /\ ~ Send(s)
        BY <4>1, <4>2 DEF FindUsers, Send
      <4> QED
        BY <2>4, <4>4, <4>5, <4>6 DEF Handle
    <3>2. CASE s = r
      BY <1>1, <2>4, <3>2 DEF Handle, At, Authenticate, ReadModules,
        ReadFails, CheckRole, FindUsers, Send, FetchTimesOut, KnownTimesOut
    <3> QED
      BY <3>1, <3>2
  <2>5. ASSUME NEW s \in Requests,
               \/ WorkEnds(s) \/ Headers(s) \/ BodyEnds(s) \/ FetchFails(s)
               \/ KnownHeaders(s) \/ KnownAnswers(s) \/ KnownFails(s) \/ Close(s)
        PROVE  FALSE
    <3>1. ~ WorkEnds(s)
      BY <1>3 DEF WorkEnds
    <3>2. CASE s # r
      <4>1. ASSUME NEW x, req' = [req EXCEPT ![s] = x] PROVE FALSE
        BY <2>1, <3>2, <4>1
      <4>2. ASSUME NEW pc, To(s, pc) \/ Answer(s, pc) PROVE FALSE
        BY <2>3, <3>2, <4>2
      <4> QED
        BY <2>5, <3>1, <4>1, <4>2 DEF Headers, BodyEnds, FetchFails, KnownHeaders,
          KnownAnswers, KnownFails, RefuseUnknown, Close
    <3>3. CASE s = r
      BY <1>1, <2>5, <3>1, <3>3 DEF Headers, BodyEnds, FetchFails, KnownHeaders,
        KnownAnswers, KnownFails, Close, At
    <3> QED
      BY <3>2, <3>3
  <2>6. ~ Restart /\ ~ (\E q \in Products : ChangeModules(q)) /\ ~ UNCHANGED vars
    BY <1>3 DEF Restart, ChangeModules, vars
  <2>7. ~ Tick
    <3> SUFFICES ASSUME Tick PROVE FALSE
      OBVIOUS
    <3>1. req'[r] = IF req[r].pc \in Timed
                    THEN [req[r] EXCEPT !.age = IF @ < Slow(req[r].kind) THEN @ + 1 ELSE @,
                                        !.left = IF @ \in {0, None} THEN @ ELSE @ - 1]
                    ELSE req[r]
      BY <1>1 DEF Tick
    <3> QED
      BY <1>1, <1>3, <3>1 DEF Request
  <2> QED
    BY <2>2, <2>4, <2>5, <2>6, <2>7 DEF Next
<1>5. CASE CheckProduct(r)
  <2>1. cache # None /\ cache.left > 0 /\ p \in cache.products
    <3>1. CASE cache # None /\ cache.left > 0
      <4>1. Judge(r, cache.products)
        BY <1>5, <3>1 DEF CheckProduct
      <4>2. ~ Answer(r, 403)
        BY <1>1 DEF Answer, IInv, TypeOK, Request
      <4> QED
        BY <3>1, <4>1, <4>2 DEF Judge
    <3>2. CASE ~ (cache # None /\ cache.left > 0)
      <4>1. req' = [req EXCEPT ![r].pc = "read", ![r].age = 0]
        BY <1>5, <3>2 DEF CheckProduct
      <4> QED
        BY <1>1, <4>1 DEF IInv, TypeOK, Request
    <3> QED
      BY <3>1, <3>2
  <2>2. cache.left \in Nat /\ gone[p] + cache.left <= TTL
    BY <1>1, <2>1, GatewayAssumption DEF IInv, TypeOK, EntriesRunOut
  <2> QED
    BY <1>2, <2>1, <2>2, GatewayAssumption
<1>6. CASE StoreProducts(r)
  <2>1. At(r, "resume") /\ Judge(r, req[r].seen)
    BY <1>6 DEF StoreProducts
  <2>2. ~ Answer(r, 403)
    BY <1>1 DEF Answer, IInv, TypeOK, Request
  <2>3. p \in req[r].seen
    BY <2>1, <2>2 DEF Judge
  <2> QED
    BY <1>1, <2>1, <2>3 DEF IInv, ReadsAreRecent
<1> QED
  BY <1>4, <1>5, <1>6

(* productGuard's cache: overlapping reads stored in any order never let a  *)
(* withdrawn product be used for longer than the TTL, or the query itself.  *)
THEOREM LicencesLapse == Spec => EntitlementsAreRecent
<1>1. IInv /\ [Next]_vars =>
        \A r \in Requests :
          /\ At(r, "product") \/ At(r, "resume")
          /\ req'[r] # None /\ req'[r].pc \in {"role", "send"}
          /\ req[r].kind.product # None /\ req[r].kind.product \notin modules
          => \/ gone[req[r].kind.product] < TTL
             \/ At(r, "resume") /\ gone[req[r].kind.product] <= req[r].age
  BY LetThroughRecently
<1> QED
  BY <1>1, Invariance, PTL DEF Spec, EntitlementsAreRecent

=============================================================================
