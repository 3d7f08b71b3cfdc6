---------------------------- MODULE RulesProofs ----------------------------
(***************************************************************************)
(* The rules keep their promises on every question: any library, any       *)
(* request, any settings, any history of the disk, within the assumptions  *)
(* that Rules makes on the questions.                                      *)
(***************************************************************************)
EXTENDS Rules, RuleLemmas

\* An answer is what the rule of the question gives.
RulesInv ==
    /\ question \in PlanQuestions \cup MergeQuestions \cup RequestQuestions
                       \cup ConfigQuestions \cup DiskQuestions
    /\ answer # Unanswered =>
          /\ question.ask = "plan" => answer.is = Planned(question)
          /\ question.ask = "merge" => answer.is = Merged(question)
          /\ question.ask = "request" => answer.is = Served(question)
          /\ question.ask = "config" => answer.is = Started(question)
          /\ question.ask = "disk" => answer.is = Watched(question)

\* A question is of the kind it says.
LEMMA Kinds ==
  ASSUME RulesInv
  PROVE  /\ question.ask = "plan" => question \in PlanQuestions
         /\ question.ask = "merge" => question \in MergeQuestions
         /\ question.ask = "request" => question \in RequestQuestions
         /\ question.ask = "config" => question \in ConfigQuestions
         /\ question.ask = "disk" => question \in DiskQuestions
  BY PlanAssumption, MergeAssumption, RequestAssumption, ConfigAssumption, DiskAssumption
     DEF RulesInv

\* Every question is answered by its rule.
LEMMA RulesInvariant == Spec => []RulesInv
<1>1. Init => RulesInv
  BY DEF Init, RulesInv
<1>2. RulesInv /\ [Next]_vars => RulesInv'
  <2> SUFFICES ASSUME RulesInv, [Next]_vars PROVE RulesInv'
    OBVIOUS
  <2>1. CASE Plan
    BY <2>1 DEF RulesInv, Plan, Answer
  <2>2. CASE Merge
    BY <2>2 DEF RulesInv, Merge, Answer
  <2>3. CASE Serve
    BY <2>3 DEF RulesInv, Serve, Answer
  <2>4. CASE Start
    BY <2>4 DEF RulesInv, Start, Answer
  <2>5. CASE Watch
    BY <2>5 DEF RulesInv, Watch, Answer
  <2>6. CASE UNCHANGED vars
    BY <2>6 DEF RulesInv, vars
  <2> QED
    BY <2>1, <2>2, <2>3, <2>4, <2>5, <2>6 DEF Next
<1> QED
  BY <1>1, <1>2, PTL DEF Spec

-----------------------------------------------------------------------------
(* Eviction plans.                                                         *)

\* What an answered plan question is about.
LEMMA AnsweredPlan ==
  ASSUME RulesInv, Answered("plan")
  PROVE  /\ PlanInput(question.cands, question.incoming, question.limit, question.disk_free,
                      question.min_free)
         /\ answer.is = CatalogPlan(question.cands, TotalSize(question.cands),
                           question.disk_free, question.incoming, question.limit,
                           question.min_free)
<1>1. answer # Unanswered
  BY DEF Answered, Unanswered
<1>2. question.ask = "plan" /\ question \in PlanQuestions
  BY Kinds DEF Answered
<1> QED
  BY <1>1, <1>2, PlanAssumption DEF RulesInv, Planned

\* A granted plan (MediaCatalog::plan) makes room: the catalog with the incoming movie
\* stays within the budget, and the disk keeps its floor.
THEOREM GrantedPlanMakesRoom == Spec => []PlanMakesRoom
<1>1. RulesInv => PlanMakesRoom
  <2> SUFFICES ASSUME RulesInv, Granted
      PROVE  /\ TotalSize(question.cands \ Evicted) + question.incoming <= question.limit
             /\ question.disk_free + TotalSize(Evicted) >= question.incoming + question.min_free
             /\ answer.is.used_after = TotalSize(question.cands \ Evicted)
    BY DEF PlanMakesRoom
  <2> QED
    BY AnsweredPlan, PlanGranted DEF Granted, Evicted
<1> QED
  BY <1>1, RulesInvariant, PTL

\* The planner's loop (eviction::plan) takes the least recently used movies in order,
\* spares the protected ones, and stops as soon as enough is freed.
THEOREM PlanTakesLeastRecentlyUsed == Spec => []PlanIsLeastRecentlyUsed
<1>1. RulesInv => PlanIsLeastRecentlyUsed
  <2> SUFFICES ASSUME RulesInv, Granted PROVE PlanIsLeastRecentlyUsed
    BY DEF PlanIsLeastRecentlyUsed
  <2> DEFINE cs == question.cands
             e == answer.is.evict
             needed == Needed(TotalSize(cs), question.incoming, question.limit,
                         Extra(question.incoming, question.min_free, question.disk_free))
  <2>1. PlanInput(cs, question.incoming, question.limit, question.disk_free, question.min_free)
    BY AnsweredPlan DEF Granted
  <2>2. /\ needed \in Nat
        /\ LeastUsed(e, cs, needed)
        /\ \A x \in Nat : x < needed =>
              \/ TotalSize(cs) - x + question.incoming > question.limit
              \/ question.disk_free + x < question.incoming + question.min_free
    BY AnsweredPlan, PlanGranted DEF Granted
  <2> HIDE DEF cs, e, needed
  <2>3. /\ \A c \in ToSet(e) : ~c.protected
        /\ \A c \in ToSet(e), d \in Unprotected(cs) \ ToSet(e) : Before(c, d)
        /\ \A i, j \in DOMAIN e : i < j => Before(e[i], e[j])
    BY <2>2 DEF LeastUsed, Unprotected
  <2>4. ASSUME e # <<>>
        PROVE  LET rest == ToSet(e) \ {Last(e)} IN
               \/ TotalSize(cs \ rest) + question.incoming > question.limit
               \/ question.disk_free + TotalSize(rest) < question.incoming + question.min_free
    <3> DEFINE rest == ToSet(e) \ {Last(e)}
    <3>1. TotalSize(rest) < needed /\ rest \in SUBSET cs
      BY <2>2, <2>4 DEF LeastUsed, Unprotected
    <3>2. TotalSize(cs) = TotalSize(rest) + TotalSize(cs \ rest) /\ TotalSize(rest) \in Nat
          /\ TotalSize(cs \ rest) \in Nat
      <4>1. cs \in SUBSET cs /\ cs \ rest \in SUBSET cs /\ IsLibrary(cs)
        BY <2>1 DEF PlanInput
      <4> HIDE DEF rest
      <4> QED
        BY <3>1, <4>1, SizeFacts
    <3> HIDE DEF rest
    <3>3. TotalSize(cs) - TotalSize(rest) = TotalSize(cs \ rest)
      BY <3>2
    <3> QED
      BY <2>2, <3>1, <3>2, <3>3 DEF rest
  <2> QED
    BY <2>3, <2>4 DEF PlanIsLeastRecentlyUsed, Evicted, cs, e
<1> QED
  BY <1>1, RulesInvariant, PTL

\* The plan refuses (PlanError) only a movie larger than the budget, or one for which
\* all unprotected movies together are not enough.
THEOREM PlanRefusesTheImpossible == Spec => []PlanRefusesOnlyTheImpossible
<1>1. RulesInv => PlanRefusesOnlyTheImpossible
  BY AnsweredPlan, PlanRefused DEF PlanRefusesOnlyTheImpossible
<1> QED
  BY <1>1, RulesInvariant, PTL

-----------------------------------------------------------------------------
(* Requests.                                                               *)

\* What an answered request is about.
LEMMA AnsweredRequest ==
  ASSUME RulesInv, Answered("request")
  PROVE  /\ question \in RequestQuestions
         /\ answer.is = shared(question.cfg, question.req)
<1>1. answer # Unanswered
  BY DEF Answered, Unanswered
<1>2. question.ask = "request" /\ question \in RequestQuestions
  BY Kinds DEF Answered
<1> QED
  BY <1>1, <1>2 DEF RulesInv, Served

\* The last untrusted hop.
LEMMA LastHop ==
  ASSUME NEW acl, NEW xff \in Seq(Hops), Untrusted(acl, xff) # {}
  PROVE  \E i \in Untrusted(acl, xff) :
            /\ \A j \in Untrusted(acl, xff) : j <= i
            /\ \A peer : is_proxy(acl, peer) => client_ip(acl, peer, xff) = unmap(xff[i].ip)
<1> DEFINE U == Untrusted(acl, xff)
           n == Len(xff)
<1>1. n \in Nat /\ U \in SUBSET (1..n) /\ U \in SUBSET Nat
  BY DEF Untrusted
<1>2. IsFiniteSet(U)
  <2>1. IsFiniteSet(1..n)
    BY <1>1, FS_Interval
  <2> QED
    BY <1>1, <2>1, FS_Subset
<1> HIDE DEF U
<1>3. PICK i \in U : \A j \in U : j <= i
  BY <1>1, <1>2, MaxOf DEF U
<1> DEFINE k == CHOOSE k \in U : \A j \in U : k >= j
<1>4. k \in U /\ \A j \in U : k >= j
  BY <1>1, <1>3
<1>5. \A peer : is_proxy(acl, peer) => client_ip(acl, peer, xff) = unmap(xff[k].ip)
  BY DEF client_ip, U
<1> HIDE DEF k
<1>6. \A j \in U : j <= k
  BY <1>1, <1>4
<1> QED
  BY <1>4, <1>5, <1>6 DEF U

\* The client of a request is the peer or one of the hops.
LEMMA ClientIsSomeone ==
  ASSUME NEW acl, NEW peer \in Address, NEW xff \in Seq(Hops)
  PROVE  \E a \in Address :
            /\ client_ip(acl, peer, xff) = unmap(a)
            /\ a = peer \/ \E h \in ToSet(xff) : h.ip = a
<1>1. CASE ~is_proxy(acl, peer) \/ Untrusted(acl, xff) = {}
  BY <1>1 DEF client_ip
<1>2. CASE is_proxy(acl, peer) /\ Untrusted(acl, xff) # {}
  <2>1. PICK i \in Untrusted(acl, xff) : client_ip(acl, peer, xff) = unmap(xff[i].ip)
    BY <1>2, LastHop
  <2>2. i \in DOMAIN xff
    BY DEF Untrusted
  <2>3. xff[i] \in Hops
    BY <2>2
  <2>4. xff[i] \in ToSet(xff)
    BY <2>2 DEF ToSet
  <2> QED
    BY <2>1, <2>3, <2>4 DEF Hops
<1> QED
  BY <1>1, <1>2

\* The hops that are looked at are hops.
LEMMA ForwardedHops ==
  ASSUME NEW req, req.xff \in Seq(HeaderLine)
  PROVE  Forwarded(req) \in Seq(Hops)
<1> DEFINE line == req.xff[1]
<1>1. CASE req.xff # <<>> /\ line.ascii
  <2>1. line \in HeaderLine
    BY <1>1
  <2>2. Forwarded(req) = line.hops
    BY <1>1 DEF Forwarded
  <2> HIDE DEF line
  <2> QED
    BY <2>1, <2>2 DEF HeaderLine
<1>2. CASE ~(req.xff # <<>> /\ line.ascii)
  <2>1. Forwarded(req) = <<>>
    BY <1>2 DEF Forwarded
  <2> QED
    BY <2>1
<1> QED
  BY <1>1, <1>2

\* Without an allowed address among them, no request gets past the source check.
LEMMA OutsiderStopped ==
  ASSUME RulesInv, Answered("request")
  PROVE  OutsiderGetsNothing
<1> DEFINE acl == question.cfg.acl
           req == question.req
           peer == req.peer[1]
           hops == Forwarded(req)
<1>1. /\ req.peer \in Seq(Address) /\ req.xff \in Seq(HeaderLine)
      /\ answer.is = shared(question.cfg, req)
  BY AnsweredRequest, RequestAssumption
<1>2. SUFFICES ASSUME ~allows_everything(acl), req.peer # <<>>,
                      Addresses(req) \cap acl.allow = {}
      PROVE  answer.is = Refused(403)
  BY DEF OutsiderGetsNothing
<1>3. ~allows(acl, client_ip(acl, peer, hops))
  <2>1. PICK a \in Address :
           /\ client_ip(acl, peer, hops) = unmap(a)
           /\ a = peer \/ \E h \in ToSet(hops) : h.ip = a
    <3>1. peer \in Address /\ hops \in Seq(Hops)
      BY <1>1, <1>2, ForwardedHops
    <3> HIDE DEF peer, hops, acl
    <3> QED
      BY <3>1, ClientIsSomeone
  <2>2. a.net \in Addresses(req)
    <3>1. peer \in ToSet(req.peer)
      BY <1>1, <1>2 DEF ToSet
    <3>2. ASSUME NEW h \in ToSet(hops) PROVE req.xff # <<>> /\ h \in ToSet(req.xff[1].hops)
      <4>1. ToSet(<<>>) = {}
        BY DEF ToSet
      <4> QED
        BY <1>1, <3>2, <4>1 DEF Forwarded
    <3> HIDE DEF peer, hops
    <3> QED
      BY <2>1, <3>1, <3>2 DEF Addresses
  <2>3. unmap(unmap(a)).net = a.net
    BY DEF unmap, Address
  <2>4. ASSUME NEW r \in acl.allow, InRange(unmap(unmap(a)), r) PROVE FALSE
    <3>1. r # a.net /\ r \notin {"any4", "any6"}
      BY <1>2, <2>2 DEF allows_everything
    <3> QED
      BY <2>3, <2>4, <3>1 DEF InRange
  <2> QED
    BY <2>1, <2>4 DEF allows
<1> QED
  BY <1>1, <1>2, <1>3 DEF shared, require_allowed_source, peer, hops

\* Behind a proxy, and with a hop of no proxy, a hop put in front changes nothing.
LEMMA FrontHopIgnored ==
  ASSUME NEW acl, NEW peer, NEW xff \in Seq(Hops),
         NEW h \in Hops,
         Untrusted(acl, xff) # {}
  PROVE  client_ip(acl, peer, <<h>> \o xff) = client_ip(acl, peer, xff)
<1> DEFINE long == <<h>> \o xff
           U == Untrusted(acl, xff)
           V == Untrusted(acl, long)
           n == Len(xff)
<1>1. /\ n \in Nat /\ long \in Seq(Hops) /\ Len(long) = n + 1
      /\ DOMAIN xff = 1..n /\ DOMAIN long = 1..(n + 1)
      /\ \A i \in 1..n : long[i + 1] = xff[i]
  OBVIOUS
<1> HIDE DEF long
<1>2. \A i \in 1..n : i \in U <=> i + 1 \in V
  BY <1>1 DEF Untrusted
<1>3. U \subseteq 1..n /\ V \subseteq 1..(n + 1)
  BY <1>1 DEF Untrusted
<1> HIDE DEF U, V
<1>4. U # {} /\ V # {}
  BY <1>2, <1>3 DEF U
<1>5. PICK i \in U : /\ \A j \in U : j <= i
                     /\ \A p : is_proxy(acl, p) => client_ip(acl, p, xff) = unmap(xff[i].ip)
  BY <1>4, LastHop DEF U
<1>6. PICK k \in V : /\ \A j \in V : j <= k
                     /\ \A p : is_proxy(acl, p) => client_ip(acl, p, long) = unmap(long[k].ip)
  BY <1>1, <1>4, LastHop DEF V
<1>7. k = i + 1
  <2>1. i \in 1..n /\ k \in 1..(n + 1) /\ i + 1 \in V
    BY <1>2, <1>3
  <2>2. i + 1 <= k
    BY <1>6, <2>1
  <2>3. k - 1 \in 1..n /\ (k - 1) + 1 = k
    BY <1>1, <2>1, <2>2
  <2>4. k - 1 \in U
    BY <1>2, <2>3
  <2>5. k - 1 <= i
    BY <1>5, <2>4
  <2> QED
    BY <1>1, <2>1, <2>2, <2>5
<1>8. long[k] = xff[i]
  BY <1>1, <1>3, <1>7
<1>9. CASE is_proxy(acl, peer)
  BY <1>5, <1>6, <1>8, <1>9 DEF long
<1>10. CASE ~is_proxy(acl, peer)
  BY <1>10 DEF client_ip, long
<1> QED
  BY <1>9, <1>10

\* The layers behind the source check do not look at the addresses.
LEMMA InnerLayers ==
  ASSUME NEW cfg, NEW q, NEW r,
         \A f \in {"path", "method", "body", "patch", "fault", "bearer", "api_token", "asked"} :
            q[f] = r[f]
  PROVE  allow_private_network(cfg, q) = allow_private_network(cfg, r)
<1>1. /\ q.path = r.path /\ q.method = r.method /\ q.body = r.body /\ q.patch = r.patch
      /\ q.fault = r.fault /\ q.bearer = r.bearer /\ q.api_token = r.api_token /\ q.asked = r.asked
  OBVIOUS
<1>2. ASSUME NEW handler PROVE Handle(handler, q) = Handle(handler, r)
  BY <1>1 DEF Handle, healthz, api_pause_put, api_add, api_delete, Plain, Answers
<1>3. Routed(q) = Routed(r)
  BY <1>1, <1>2 DEF Routed
<1>4. Protected(q) = Protected(r) /\ Presented(q) = Presented(r)
  BY <1>1 DEF Protected, Presented
<1>5. require_token(cfg, q) = require_token(cfg, r)
  BY <1>3, <1>4 DEF require_token
<1> QED
  BY <1>1, <1>5 DEF allow_private_network, Cors

\* A request that differs from the answered one in its header lines only, and that comes
\* from the same client as far as it comes over a socket, is answered alike.
LEMMA SameClient ==
  ASSUME RulesInv, Answered("request"), NEW xff,
         LET acl == question.cfg.acl
             req == question.req
         IN  req.peer # <<>> =>
               client_ip(acl, req.peer[1], Forwarded([req EXCEPT !.xff = xff]))
                 = client_ip(acl, req.peer[1], Forwarded(req))
  PROVE  AnsweredAlike(xff)
<1> DEFINE cfg == question.cfg
           req == question.req
           new == [req EXCEPT !.xff = xff]
<1>1. /\ answer.is = shared(cfg, req)
      /\ DOMAIN req = {"path", "method", "body", "patch", "fault", "peer", "xff", "bearer",
                       "api_token", "asked"}
  BY AnsweredRequest, RequestAssumption
<1>2. new.peer = req.peer
  BY <1>1
<1>3. \A f \in {"path", "method", "body", "patch", "fault", "bearer", "api_token", "asked"} :
        new[f] = req[f]
  BY <1>1
<1>4. req.peer # <<>> => client_ip(cfg.acl, req.peer[1], Forwarded(new))
                           = client_ip(cfg.acl, req.peer[1], Forwarded(req))
  OBVIOUS
<1> HIDE DEF new
<1>5. allow_private_network(cfg, new) = allow_private_network(cfg, req)
  BY <1>3, InnerLayers
<1>6. shared(cfg, new) = shared(cfg, req)
  BY <1>2, <1>4, <1>5 DEF shared, require_allowed_source
<1> QED
  BY <1>1, <1>6 DEF new, AnsweredAlike

\* Header lines that name the same first line, or the same hops, are read alike.
LEMMA FirstLineRead ==
  ASSUME NEW req, "xff" \in DOMAIN req, NEW line
  PROVE  Forwarded([req EXCEPT !.xff = <<line>>]) = IF line.ascii THEN line.hops ELSE <<>>
<1> DEFINE new == [req EXCEPT !.xff = <<line>>]
<1>1. new.xff = <<line>>
  OBVIOUS
<1> HIDE DEF new
<1> QED
  BY <1>1 DEF Forwarded, new

\* The header of a peer that is no proxy, lines after the first, and hops that a client
\* writes in front of the ones of the proxies are ignored.
LEMMA ForgedHop ==
  ASSUME RulesInv, Answered("request")
  PROVE  ForgedHopsIgnored
<1> DEFINE acl == question.cfg.acl
           req == question.req
           xff == req.xff
           line == xff[1]
           longer(i) == [line EXCEPT !.hops = <<Hop(i)>> \o @]
<1>1. /\ req.peer \in Seq(Address) /\ xff \in Seq(HeaderLine) /\ Ips \subseteq Address
      /\ "xff" \in DOMAIN req
  BY AnsweredRequest, RequestAssumption
<1>2. ASSUME \A p \in ToSet(req.peer) : ~is_proxy(acl, p) PROVE AnsweredAlike(<<>>)
  <2>1. req.peer # <<>> => ~is_proxy(acl, req.peer[1])
    BY <1>1, <1>2 DEF ToSet
  <2>2. \A h : req.peer # <<>> => client_ip(acl, req.peer[1], h) = unmap(req.peer[1])
    BY <2>1 DEF client_ip
  <2> QED
    BY <2>2, SameClient
<1>3. ASSUME xff # <<>> PROVE AnsweredAlike(<<line>>)
  <2>1. Forwarded(req) = IF line.ascii THEN line.hops ELSE <<>>
    BY <1>1, <1>3 DEF Forwarded
  <2>2. Forwarded([req EXCEPT !.xff = <<line>>]) = Forwarded(req)
    BY <1>1, <2>1, FirstLineRead
  <2> QED
    BY <2>2, SameClient
<1>4. ASSUME xff # <<>>, NEW h \in ToSet(line.hops), h.form # "junk", ~is_proxy(acl, h.ip),
             NEW i \in Ips
      PROVE  AnsweredAlike(<<longer(i)>>)
  <2>1. line \in HeaderLine /\ Hop(i) \in Hops
    <3>1. i \in Address
      BY <1>1
    <3> QED
      BY <1>1, <1>4, <3>1 DEF Hop, Hops
  <2>2. /\ line.ascii \in BOOLEAN /\ line.hops \in Seq(Hops)
        /\ longer(i).ascii = line.ascii /\ longer(i).hops = <<Hop(i)>> \o line.hops
    <3> HIDE DEF line
    <3> QED
      BY <2>1 DEF HeaderLine
  <2>3. Forwarded(req) = IF line.ascii THEN line.hops ELSE <<>>
    BY <1>1, <1>4 DEF Forwarded
  <2>4. Forwarded([req EXCEPT !.xff = <<longer(i)>>])
          = IF line.ascii THEN <<Hop(i)>> \o line.hops ELSE <<>>
    <3> HIDE DEF longer
    <3> QED
      BY <1>1, <2>2, FirstLineRead
  <2>5. Untrusted(acl, line.hops) # {}
    BY <1>4 DEF ToSet, Untrusted, parse_hop
  <2>6. client_ip(acl, req.peer[1], <<Hop(i)>> \o line.hops)
          = client_ip(acl, req.peer[1], line.hops)
    <3> HIDE DEF acl, req, line
    <3> QED
      BY <2>1, <2>2, <2>5, FrontHopIgnored
  <2>7. client_ip(acl, req.peer[1], Forwarded([req EXCEPT !.xff = <<longer(i)>>]))
          = client_ip(acl, req.peer[1], Forwarded(req))
    BY <2>3, <2>4, <2>6
  <2> QED
    BY <2>7, SameClient
<1> HIDE DEF longer
<1> QED
  BY <1>2, <1>3, <1>4 DEF ForgedHopsIgnored, longer

\* A handler that ran is the one of a route, or none.
LEMMA RanIsRouted ==
  ASSUME NEW req, Routed(req).ran \in Writes
  PROVE  Protected(req)
<1> DEFINE here == {r \in AllRoutes : r.path = req.path}
           found == {r \in here : r.method = IF req.method = "HEAD" THEN "GET" ELSE req.method}
           r == CHOOSE r \in found : TRUE
<1>1. None \notin Writes
  BY DEF None, Writes
<1>2. here # {} /\ found # {} /\ Routed(req) = Handle(r.handler, req)
  BY <1>1 DEF Routed, Refused
<1>3. r \in AllRoutes /\ r.path = req.path
      /\ r.method = IF req.method = "HEAD" THEN "GET" ELSE req.method
  BY <1>2
<1> HIDE DEF r, here, found
<1>4. Handle(r.handler, req).ran \in {r.handler, None}
  <2>1. \A h, s : Ran(h, s).ran = h /\ Refused(s).ran = None
    BY DEF Ran, Refused
  <2>2. \A f : api_patch(req.patch, f).ran \in {"api_patch", None}
    BY <2>1 DEF api_patch
  <2> HIDE DEF r
  <2> QED
    BY <2>1, <2>2 DEF Handle, healthz, api_pause_put, api_add, api_delete, Plain, Answers
<1>5. r.handler \in Writes
  BY <1>1, <1>2, <1>4
<1>6. r.path \in ApiPaths /\ r.method \in {"POST", "PUT", "PATCH", "DELETE"}
  <2>1. r \in routes
    <3>1. \A x \in playback : x.handler \notin Writes
      BY DEF Writes, playback, Route
    <3> QED
      BY <1>3, <1>5, <3>1 DEF AllRoutes
  <2>2. r.path \notin {"/", "/healthz", "/metrics"} /\ r.method \in {"POST", "PUT", "PATCH", "DELETE"}
    <3>1. \A x \in routes : x.handler \in Writes =>
             /\ x.path \notin {"/", "/healthz", "/metrics"}
             /\ x.method \in {"POST", "PUT", "PATCH", "DELETE"}
      <4>1. MoviePath \notin {"/", "/healthz", "/metrics"}
        BY Zenon DEF MoviePath
      <4> QED
        BY <4>1 DEF Writes, routes, Route
    <3> QED
      BY <1>5, <2>1, <3>1
  <2> QED
    BY <2>1, <2>2 DEF ApiPaths
<1> QED
  BY <1>3, <1>6 DEF Protected

\* A write that ran was presented with the token, when one is set.
LEMMA WriteHasToken ==
  ASSUME RulesInv, Answered("request")
  PROVE  WritesNeedToken
<1> DEFINE cfg == question.cfg
           req == question.req
<1>1. cfg.token # None /\ answer.is = shared(cfg, req)
  BY AnsweredRequest, RequestAssumption
<1>2. SUFFICES ASSUME answer.is.ran \in Writes
               PROVE  \/ cfg.token \in {"", req.bearer}
                      \/ req.bearer = None /\ req.api_token = cfg.token
  BY DEF WritesNeedToken
<1>3. None \notin Writes /\ \A s : Refused(s).ran = None
  BY DEF None, Writes, Refused
<1>4. shared(cfg, req) = allow_private_network(cfg, req)
  BY <1>1, <1>2, <1>3 DEF shared, require_allowed_source
<1>5. \A f : [f EXCEPT !.pna = req.asked].ran \in Writes => f.ran \in Writes
  BY DEF Writes
<1>6. Cors(cfg, req).ran \in Writes
  BY <1>1, <1>2, <1>4, <1>5 DEF allow_private_network
<1>7. require_token(cfg, req).ran \in Writes
  BY <1>3, <1>6 DEF Cors
<1>8. /\ require_token(cfg, req) = Routed(req)
      /\ ApiToken(cfg.token) = None \/ ~Protected(req) \/ Presented(req) = ApiToken(cfg.token)
  BY <1>3, <1>7 DEF require_token
<1>9. Protected(req)
  BY <1>7, <1>8, RanIsRouted
<1> QED
  BY <1>1, <1>8, <1>9 DEF ApiToken, Presented

\* The HTTP layers (http::shared): a caller without an allowed address gets a bare
\* 403; the header counts only behind a proxy, in its first line, and there from the
\* last untrusted hop on; and no write runs without the token.
THEOREM AccessIsGuarded == Spec => []AccessHolds
<1>1. RulesInv => AccessHolds
  BY OutsiderStopped, ForgedHop, WriteHasToken DEF AccessHolds
<1> QED
  BY <1>1, RulesInvariant, PTL

-----------------------------------------------------------------------------
(* Settings.                                                               *)

\* What an answered start is about.
LEMMA AnsweredConfig ==
  ASSUME RulesInv, Answered("config")
  PROVE  /\ question \in ConfigQuestions
         /\ answer.is = start(question.files, Default, question.env)
<1>1. answer # Unanswered
  BY DEF Answered, Unanswered
<1>2. question.ask = "config" /\ question \in ConfigQuestions
  BY Kinds DEF Answered
<1> QED
  BY <1>1, <1>2 DEF RulesInv, Started

\* No string at all is a list of strings.
LEMMA EmptyStrings == <<>> \in Seq(STRING)
  OBVIOUS

\* A setting that counts has the value of a line.
LEMMA LastHasValue ==
  ASSUME NEW env \in Seq(EnvLine), NEW k \in DOMAIN last(env)
  PROVE  last(env)[k] \in Seq(STRING) \ {<<>>}
<1> DEFINE set == parse_env_file(env)
           at == {i \in set : env[i].key = k}
           n == Len(env)
           m == CHOOSE i \in at : \A j \in at : j <= i
<1>1. at # {} /\ last(env)[k] = env[m].value
  BY DEF last
<1>2. n \in Nat /\ at \in SUBSET (1..n) /\ at \in SUBSET Nat
  BY DEF parse_env_file
<1>3. IsFiniteSet(at)
  <2>1. IsFiniteSet(1..n)
    BY <1>2, FS_Interval
  <2> QED
    BY <1>2, <2>1, FS_Subset
<1>4. m \in at
  <2> HIDE DEF at
  <2>1. Max(at) \in at /\ \A j \in at : j <= Max(at)
    BY <1>1, <1>2, <1>3, MaxOf
  <2> QED
    BY <2>1
<1>5. env[m] \in EnvLine /\ env[m].form = "set"
  <2>1. m \in 1..n /\ m \in set
    BY <1>2, <1>4
  <2> QED
    BY <2>1 DEF parse_env_file
<1>6. env[m] \in [form : {"set"}, key : STRING, value : Seq(STRING) \ {<<>>}]
  BY <1>5 DEF EnvLine
<1> QED
  BY <1>1, <1>6

\* No source named in the environment, no source added.
LEMMA NoSourceAdded ==
  ASSUME NEW sources
  PROVE  WithSources(sources, <<>>) = sources
<1> DEFINE Op(src, out) == IF \E s \in ToSet(out) : s.url = SourceOf(src).url THEN out
                           ELSE Append(out, SourceOf(src))
           none == <<>>
           Step(h) == [t \in SUBSET {} |->
                         IF t = {} THEN sources ELSE Op(none[Max(t)], h[t \ {Max(t)}])]
           h == CHOOSE h : h = Step(h)
           w == [t \in SUBSET {} |-> sources]
<1>1. DOMAIN none = {}
  OBVIOUS
<1>2. WithSources(sources, none) = h[{}]
  BY <1>1 DEF WithSources, FoldLeft, MapThenFoldSet
<1>3. w = Step(w)
  OBVIOUS
<1>4. h = Step(h)
  <2> HIDE DEF w, Step
  <2> QED
    BY <1>3
<1> HIDE DEF h
<1>5. h[{}] = sources
  BY <1>4
<1> QED
  BY <1>2, <1>5

\* What the environment without tracker settings does to the tracker settings of
\* the file: it may switch the feed off.
LEMMA TrackersResolved ==
  ASSUME NEW fc, IsFileConfig(fc), NEW env, DOMAIN last(env) \cap TrackerSettings = {}
  PROVE  LET t == fc.trackers
             u == resolve_file_config(fc, last(env)).trackers
         IN  /\ u.enabled => t.enabled
             /\ u.schemes = t.schemes /\ u.max = t.max /\ u.fetch_timeout = t.fetch_timeout
             /\ u.sources = t.sources /\ u.add = t.add /\ u.block = t.block
<1> DEFINE t == fc.trackers
           v == last(env)
           on == t.enabled /\ Override(v, "TORNAS_TRACKERS_DISABLE", <<"false">>) # <<"true">>
           schemes == Override(v, "TORNAS_TRACKER_SCHEMES", t.schemes)
           sources == WithSources(t.sources, Override(v, "TORNAS_TRACKER_SOURCES", <<>>))
           more == [i \in DOMAIN Override(v, "TORNAS_TRACKERS", <<>>) |->
                            [kind |-> v["TORNAS_TRACKERS"][i], scheme |-> "udp",
                             host |-> <<>>, upper |-> FALSE, ip |-> FALSE, port |-> 0,
                             path |-> ""]]
           u == resolve_file_config(fc, v).trackers
<1>1. u = [t EXCEPT !.enabled = on, !.schemes = schemes, !.sources = sources,
                    !.add = t.add \o more]
  BY DEF resolve_file_config
<1>2. /\ DOMAIN t = {"enabled", "schemes", "max", "fetch_timeout", "sources", "add", "block"}
      /\ t.enabled \in BOOLEAN /\ t.add \in Seq(TrackerLine)
  BY DEF IsFileConfig
<1>3. \A k \in TrackerSettings : \A x : Override(v, k, x) = x
  BY DEF Override
<1>4. schemes = t.schemes
  BY <1>3 DEF TrackerSettings
<1>5. sources = t.sources
  BY <1>3, NoSourceAdded DEF TrackerSettings
<1>6. t.add \o more = t.add
  <2>1. Override(v, "TORNAS_TRACKERS", <<>>) = <<>>
    BY <1>3 DEF TrackerSettings
  <2>2. more = <<>>
    <3>1. more \in [{} -> {}]
      BY <2>1
    <3> HIDE DEF more
    <3> QED
      BY <3>1
  <2> HIDE DEF t, more
  <2> QED
    BY <1>2, <2>2
<1>7. on => t.enabled
  OBVIOUS
<1> HIDE DEF t, on, schemes, sources, more, u
<1>8. /\ u.enabled => t.enabled
      /\ u.schemes = t.schemes /\ u.max = t.max /\ u.fetch_timeout = t.fetch_timeout
      /\ u.sources = t.sources /\ u.add = t.add /\ u.block = t.block
  BY <1>1, <1>2, <1>4, <1>5, <1>6, <1>7
<1> QED
  BY <1>8 DEF t, u

\* A file without errors has none either with its feed switched off.
LEMMA FewerTrackerErrors ==
  ASSUME NEW t, NEW u, tracker_errors(t) = {}, u.enabled => t.enabled,
         u.schemes = t.schemes, u.max = t.max, u.fetch_timeout = t.fetch_timeout,
         u.sources = t.sources, u.add = t.add, u.block = t.block
  PROVE  tracker_errors(u) = {}
<1>1. /\ ~(t.enabled /\ t.schemes = <<>>)
      /\ ~(t.enabled /\ ToSet(t.schemes) \ (Engine_schemes \cup WebTorrent) # {})
  BY DEF tracker_errors, When
<1>2. /\ ~(u.enabled /\ u.schemes = <<>>)
      /\ ~(u.enabled /\ ToSet(u.schemes) \ (Engine_schemes \cup WebTorrent) # {})
  BY <1>1
<1>3. /\ When(u.enabled /\ u.schemes = <<>>, "schemes_empty") = {}
      /\ When(u.enabled /\ ToSet(u.schemes) \ (Engine_schemes \cup WebTorrent) # {},
              "unknown_scheme") = {}
  BY <1>2 DEF When
<1> DEFINE rest(x) ==
             When(x.max = 0, "max_zero")
             \cup When(x.fetch_timeout = 0, "fetch_timeout_zero")
             \cup UNION {source_errors(s) : s \in ToSet(x.sources)}
             \cup When(DuplicateNames(x.sources), "source_name_twice")
             \cup When(\E a \in ToSet(x.add) : normalize(a) = <<>>, "add_not_tracker_url")
             \cup When(Contains(x.block, "blank"), "block_entry_empty")
<1>4. rest(u) = rest(t)
  OBVIOUS
<1>5. rest(t) \subseteq tracker_errors(t)
  BY DEF tracker_errors
<1>6. tracker_errors(u) = When(u.enabled /\ u.schemes = <<>>, "schemes_empty")
        \cup When(u.enabled /\ ToSet(u.schemes) \ (Engine_schemes \cup WebTorrent) # {},
                  "unknown_scheme")
        \cup rest(u)
  BY DEF tracker_errors
<1> HIDE DEF rest
<1> QED
  BY <1>3, <1>4, <1>5, <1>6

\* What the check says of an address list holds of the list the server starts with.
LEMMA AddressListResolved ==
  ASSUME NEW env \in Seq(EnvLine), NEW k, NEW current, parse(current).ok,
         parse(Get(last(env), k)).ok
  PROVE  LET list == Override(last(env), k, current) IN
         /\ parse(list).ok
         /\ current # <<>> => list # <<>>
<1> DEFINE v == last(env)
<1>1. CASE k \notin DOMAIN v
  BY <1>1 DEF Override
<1>2. CASE k \in DOMAIN v /\ v[k] # <<"blank">>
  <2>1. v[k] # <<>>
    BY <1>2, LastHasValue
  <2> HIDE DEF v
  <2> QED
    BY <1>2, <2>1 DEF Override, Get, v
<1>3. CASE k \in DOMAIN v /\ v[k] = <<"blank">>
  <2>1. ~Contains(<<"blank">>, "junk")
    BY DEF Contains
  <2>2. parse(<<"blank">>).ok /\ <<"blank">> # <<>>
    BY <2>1 DEF parse
  <2> HIDE DEF v
  <2> QED
    BY <1>3, <2>2 DEF Override, v
<1> QED
  BY <1>1, <1>2, <1>3

\* A configuration that `tornas config check` passes, with a budget and without
\* tracker settings in the environment, is one the server starts with, if the value
\* checks ran and the file checked is the one that the server reads.
THEOREM CheckedConfigStarts == Spec => []CheckedStarts
<1>1. RulesInv => CheckedStarts
  <2> DEFINE files == question.files
             given == question.given
             env == question.env
             v == last(env)
             path == ConfigFile(Named(v), files)
             read == load(Named(v), files, Default)
             fc == resolve_file_config(read.fc, v)
             n == read.fc.network
             report == check_env_text(env, DOMAIN files, question.runs)
  <2> SUFFICES ASSUME RulesInv, Answered("config"), Budgeted,
                      DOMAIN v \cap TrackerSettings = {},
                      ConfigFile(given, files) = path, question.runs,
                      check(given, files, env, question.runs)
               PROVE  answer.is.ok
    BY DEF CheckedStarts
  <2>1. /\ env \in Seq(EnvLine) /\ answer.is = start(files, Default, env)
        /\ \A p \in DOMAIN files : IsFileConfig(files[p].fc) /\ files[p].parses \in BOOLEAN
        /\ IsFileConfig(Default) /\ validate_file_config(Default).errors = {}
    BY AnsweredConfig, ConfigAssumption
  <2>2. /\ read.ok /\ IsFileConfig(read.fc)
        /\ validate_file_config(read.fc).errors = {}
    <3>1. CASE path = <<>>
      BY <2>1, <3>1 DEF load
    <3>2. CASE path # <<>>
      <4> DEFINE p == path[1]
      <4>1. p \in ToSet(path)
        <5>1. Named(v) \in Seq(STRING)
          BY <2>1, LastHasValue, EmptyStrings DEF Named
        <5>2. ASSUME Named(v) # <<>> PROVE p \in ToSet(path)
          BY <5>1, <5>2 DEF ConfigFile, ToSet
        <5>3. ASSUME Named(v) = <<>> PROVE p \in ToSet(path)
          <6>1. path = <<Standard>>
            BY <3>2, <5>3 DEF ConfigFile, discover
          <6> QED
            BY <6>1 DEF ToSet
        <5> QED
          BY <5>2, <5>3
      <4>2. p \in DOMAIN files /\ check_toml_text(files[p]).errors = {}
        BY <4>1 DEF check
      <4>3. files[p].parses
        BY <4>2 DEF check_toml_text, Report
      <4>4. validate_file_config(files[p].fc).errors \subseteq check_toml_text(files[p]).errors
        BY <4>3 DEF check_toml_text, Report
      <4>5. read = [ok |-> files[p].parses, fc |-> files[p].fc]
        BY <3>2, <4>2 DEF load
      <4> HIDE DEF read
      <4> QED
        BY <2>1, <4>2, <4>3, <4>4, <4>5
    <3> QED
      BY <3>1, <3>2
  <2>3. /\ tracker_errors(read.fc.trackers) = {} /\ network_errors(n) = {}
    BY <2>2 DEF validate_file_config, Report
  <2>4. report.errors = {}
    BY DEF check
  <2>5. ClapErrors(v) \subseteq report.errors
    BY DEF check_env_text, Report
  <2>6. /\ parse(Get(v, "TORNAS_ALLOW_FROM")).ok
        /\ parse(Get(v, "TORNAS_TRUSTED_PROXIES")).ok
    <3>1. /\ When(~parse(Get(v, "TORNAS_ALLOW_FROM")).ok, "allow_from")
                \subseteq report.errors
          /\ When(~parse(Get(v, "TORNAS_TRUSTED_PROXIES")).ok, "trusted_proxies")
                \subseteq report.errors
      BY DEF check_env_text, Report
    <3> QED
      BY <2>4, <3>1 DEF When
  <2>7. tracker_errors(fc.trackers) = {}
    <3> DEFINE t == read.fc.trackers
               u == fc.trackers
    <3>1. /\ u.enabled => t.enabled
          /\ u.schemes = t.schemes /\ u.max = t.max /\ u.fetch_timeout = t.fetch_timeout
          /\ u.sources = t.sources /\ u.add = t.add /\ u.block = t.block
      <4> HIDE DEF read, env
      <4> QED
        BY <2>2, TrackersResolved
    <3> HIDE DEF t, u
    <3>2. tracker_errors(t) = {}
      BY <2>3 DEF t
    <3>3. tracker_errors(u) = {}
      BY <3>1, <3>2, FewerTrackerErrors
    <3> QED
      BY <3>3 DEF u
  <2>8. network_errors(fc.network) = {}
    <3>1. parse(n.allow_from).ok /\ parse(n.trusted_proxies).ok /\ n.allow_from # <<>>
      BY <2>3 DEF network_errors, When, Acl
    <3> DEFINE allow == Override(v, "TORNAS_ALLOW_FROM", n.allow_from)
               proxies == Override(v, "TORNAS_TRUSTED_PROXIES", n.trusted_proxies)
    <3>2. fc.network.allow_from = allow /\ fc.network.trusted_proxies = proxies
      BY DEF resolve_file_config
    <3>3. parse(allow).ok /\ allow # <<>>
      BY <2>1, <2>6, <3>1, AddressListResolved
    <3>4. parse(proxies).ok
      BY <2>1, <2>6, <3>1, AddressListResolved
    <3> HIDE DEF allow, proxies, fc
    <3>5. Acl(fc.network.allow_from, fc.network.trusted_proxies).ok
      BY <3>2, <3>3, <3>4 DEF Acl
    <3> QED
      BY <3>2, <3>3, <3>5 DEF network_errors, When
  <2>9. validate_file_config(fc).errors = {}
    <3> HIDE DEF fc
    <3> QED
      BY <2>7, <2>8 DEF validate_file_config, Report
  <2>10. ClapErrors(v) = {} /\ "TORNAS_DISK_BUDGET" \in DOMAIN v
    BY <2>4, <2>5 DEF Budgeted
  <2>11. answer.is.ok = /\ ClapErrors(v) = {}
                        /\ "TORNAS_DISK_BUDGET" \in DOMAIN v
                        /\ read.ok
                        /\ validate_file_config(fc).errors = {}
    BY <2>1 DEF start
  <2> HIDE DEF v, read, fc
  <2> QED
    BY <2>2, <2>9, <2>10, <2>11
<1> QED
  BY <1>1, RulesInvariant, PTL

-----------------------------------------------------------------------------
(* The data disk.                                                          *)

\* The devices a disk has had, the mount tables they leave, and the states of the
\* world: the root at the bottom, and over it mounts of the disk at Point.
Disks(major) == [major : {major}, minor : Nat \ {0}]
Tables(major) ==
    {t \in Seq([at : {<<>>, Point}, dev : {Root} \cup Disks(major)]) :
        /\ Len(t) >= 1
        /\ t[1] = Mount(<<>>, Root)
        /\ \A i \in 2..Len(t) : t[i].at = Point /\ t[i].dev \in Disks(major)}
Worlds(major) ==
    [dev : Disks(major), there : BOOLEAN, host : Tables(major), ns : Tables(major)]

\* No disk has the root's numbers.
LEMMA DiskIsNotRoot ==
  ASSUME NEW major, NEW dev \in Disks(major)
  PROVE  dev # Root /\ dev.major = major
  BY DEF Disks, Root

\* The length of a table, and where its mounts are.
LEMMA TableFacts ==
  ASSUME NEW major, NEW t \in Tables(major)
  PROVE  /\ Len(t) = 1 \/ Len(t) > 1
         /\ \A i \in DOMAIN t : t[i].at = <<>> \/ t[i].at = Point
<1>1. Len(t) \in Nat /\ Len(t) >= 1 /\ DOMAIN t = 1..Len(t)
  BY DEF Tables
<1>2. t[1].at = <<>> /\ \A i \in 2..Len(t) : t[i].at = Point
  BY DEF Tables, Mount
<1>3. \A i \in 1..Len(t) : i = 1 \/ i \in 2..Len(t)
  BY <1>1
<1>4. Len(t) = 1 \/ Len(t) > 1
  <2> DEFINE n == Len(t)
  <2>1. n \in Nat /\ n >= 1
    BY <1>1
  <2> HIDE DEF n
  <2>2. n = 1 \/ n > 1
    BY <2>1
  <2> QED
    BY <2>2 DEF n
<1> QED
  BY <1>1, <1>2, <1>3, <1>4

\* The mount point is a path.
LEMMA PointPath == Point \in Seq({"var", "tornas"}) /\ IsPrefix(Point, Point)
<1>1. Point \in Seq({"var", "tornas"})
  BY DEF Point
<1>2. Len(Point) <= Len(Point)
  BY <1>1
<1> QED
  BY <1>1, <1>2 DEF IsPrefix

\* What stat says: of the root directory the root, and at or below Point the disk
\* mounted last, or the root if there is none.
LEMMA StatOf ==
  ASSUME NEW major, NEW t \in Tables(major),
         NEW S, NEW path \in Seq(S), IsPrefix(Point, path)
  PROVE  /\ Stat(t, <<>>) = Root
         /\ Stat(t, path) = t[Len(t)].dev
         /\ Len(t) = 1 => Stat(t, path) = Root
         /\ Len(t) > 1 => t[Len(t)].at = Point /\ t[Len(t)].dev \in Disks(major)
<1> DEFINE n == Len(t)
           M == [at : {<<>>, Point}, dev : {Root} \cup Disks(major)]
<1>1. /\ n \in Nat /\ n >= 1 /\ t \in Seq(M) /\ DOMAIN t = 1..n
      /\ t[1] = Mount(<<>>, Root)
      /\ \A i \in 2..n : t[i].at = Point /\ t[i].dev \in Disks(major)
  BY DEF Tables
<1>2. t[1].at = <<>> /\ t[1].dev = Root
  BY <1>1 DEF Mount
<1> HIDE DEF n, M
<1>3. IsPrefix(<<>>, path) /\ IsPrefix(<<>>, <<>>) /\ ~IsPrefix(Point, <<>>)
  <2>1. Len(Point) = 2
    BY DEF Point
  <2>2. SubSeq(path, 1, 0) = <<>>
    OBVIOUS
  <2>3. Len(path) \in Nat
    OBVIOUS
  <2> QED
    BY <2>1, <2>2, <2>3 DEF IsPrefix
<1>4. \A i \in 1..n : i = 1 \/ i \in 2..n
  BY <1>1
<1>5. {i \in DOMAIN t : IsPrefix(t[i].at, <<>>)} = {1}
  BY <1>1, <1>2, <1>3, <1>4
<1>6. {i \in DOMAIN t : IsPrefix(t[i].at, path)} = 1..n
  BY <1>1, <1>2, <1>3, <1>4
<1>7. Stat(t, <<>>) = Root
  <2>1. (CHOOSE i \in {1} : \A j \in {1} : j <= i) = 1
    OBVIOUS
  <2> QED
    BY <1>2, <1>5, <2>1 DEF Stat
<1>8. Stat(t, path) = t[n].dev
  <2> DEFINE k == CHOOSE i \in 1..n : \A j \in 1..n : j <= i
  <2>1. n \in 1..n /\ \A j \in 1..n : j <= n
    BY <1>1
  <2>2. k \in 1..n /\ \A j \in 1..n : j <= k
    BY <2>1
  <2>3. k = n
    <3> HIDE DEF k
    <3>1. n \in 1..n
      BY <1>1
    <3> QED
      BY <1>1, <2>2, <3>1
  <2>4. Stat(t, path) = t[k].dev
    BY <1>6 DEF Stat
  <2> HIDE DEF k
  <2> QED
    BY <2>3, <2>4
<1>9. n > 1 => n \in 2..n
  BY <1>1
<1> QED
  BY <1>1, <1>2, <1>7, <1>8, <1>9 DEF n

\* The device mounted exactly at Point is the last one, if there is one.
LEMMA MountedOf ==
  ASSUME NEW major, NEW t \in Tables(major)
  PROVE  mounted_device(t, Point) = IF Len(t) > 1 THEN <<t[Len(t)].dev>> ELSE <<>>
<1> DEFINE n == Len(t)
           at == {i \in DOMAIN t : t[i].at = Point}
<1>1. /\ n \in Nat /\ n >= 1 /\ DOMAIN t = 1..n
      /\ t[1] = Mount(<<>>, Root)
      /\ \A i \in 2..n : t[i].at = Point /\ t[i].dev \in Disks(major)
  BY DEF Tables
<1>2. t[1].at # Point
  BY <1>1 DEF Mount, Point
<1> HIDE DEF n
<1>3. at = 2..n
  <2>1. \A i \in 1..n : i = 1 \/ i \in 2..n
    BY <1>1
  <2>2. \A i \in 2..n : i \in 1..n
    BY <1>1
  <2> QED
    BY <1>1, <1>2, <2>1, <2>2
<1>4. CASE n = 1
  <2>1. at = {}
    BY <1>3, <1>4
  <2> QED
    BY <1>4, <2>1 DEF mounted_device, n
<1>5. CASE n > 1
  <2> DEFINE k == CHOOSE i \in at : \A j \in at : j <= i
  <2>1. n \in at /\ \A j \in at : j <= n
    BY <1>1, <1>3, <1>5
  <2>2. k \in at /\ \A j \in at : j <= k
    <3> HIDE DEF at
    <3> QED
      BY <2>1
  <2>3. k = n
    <3> HIDE DEF k
    <3> QED
      BY <1>1, <1>3, <2>1, <2>2
  <2>4. mounted_device(t, Point) = <<t[k].dev>>
    BY <2>1 DEF mounted_device
  <2> HIDE DEF k
  <2> QED
    BY <1>5, <2>3, <2>4 DEF n
<1> QED
  BY <1>1, <1>4, <1>5

\* Whatever happens to a disk leaves such a state.
LEMMA HappensInWorlds ==
  ASSUME NEW major, NEW w \in Worlds(major), NEW e \in DiskEvents
  PROVE  Happens(w, e) \in Worlds(major)
<1>1. /\ w.dev \in Disks(major) /\ w.there \in BOOLEAN
      /\ w.host \in Tables(major) /\ w.ns \in Tables(major)
  BY DEF Worlds
<1> DEFINE M == [at : {<<>>, Point}, dev : {Root} \cup Disks(major)]
           n == Len(w.host)
<1>2. /\ n \in Nat /\ n >= 1 /\ w.host \in Seq(M)
      /\ w.host[1] = Mount(<<>>, Root)
      /\ \A i \in 2..n : w.host[i].at = Point /\ w.host[i].dev \in Disks(major)
  BY <1>1 DEF Tables
<1>3. Pull(w) \in Worlds(major) /\ Restarted(w) \in Worlds(major)
  BY <1>1 DEF Pull, Restarted, Worlds
<1>4. Plug(w) \in Worlds(major)
  <2>1. [w.dev EXCEPT !.minor = @ + 1] \in Disks(major)
    BY <1>1 DEF Disks
  <2>2. [w EXCEPT !.there = TRUE, !.dev.minor = @ + 1] \in Worlds(major)
    BY <1>1, <2>1 DEF Worlds
  <2> QED
    BY <2>2 DEF Plug
<1>5. MountIt(w) \in Worlds(major)
  <2> DEFINE new == Append(w.host, Mount(Point, w.dev))
  <2>1. Mount(Point, w.dev) \in M
    BY <1>1 DEF Mount
  <2>2. Mount(Point, w.dev).at = Point /\ Mount(Point, w.dev).dev = w.dev
    BY DEF Mount
  <2> HIDE DEF M
  <2>3. /\ new \in Seq(M) /\ Len(new) = n + 1
        /\ \A i \in 1..n : new[i] = w.host[i]
        /\ new[n + 1] = Mount(Point, w.dev)
    BY <1>2, <2>1
  <2> HIDE DEF new, n
  <2>4. new[1] = Mount(<<>>, Root)
    BY <1>2, <2>3
  <2>5. ASSUME NEW i \in 2..(n + 1) PROVE new[i].at = Point /\ new[i].dev \in Disks(major)
    <3>1. CASE i = n + 1
      BY <1>1, <2>2, <2>3, <3>1
    <3>2. CASE i \in 2..n
      BY <1>2, <2>3, <3>2
    <3> QED
      BY <1>2, <3>1, <3>2
  <2>6. new \in Tables(major)
    BY <1>2, <2>3, <2>4, <2>5 DEF Tables, M
  <2>7. [w EXCEPT !.host = new] \in Worlds(major)
    BY <1>1, <2>6 DEF Worlds
  <2> QED
    BY <2>7 DEF MountIt, new
<1>6. Release(w) \in Worlds(major)
  <2> SUFFICES ASSUME Stat(w.host, Point) # Root
               PROVE  [w EXCEPT !.host = Front(w.host)] \in Worlds(major)
    BY DEF Release
  <2> DEFINE new == Front(w.host)
  <2>1. Point \in Seq({"var", "tornas"}) /\ IsPrefix(Point, Point)
    BY PointPath
  <2>2. n # 1
    BY <1>1, <2>1, StatOf
  <2>3. n > 1
    <3> HIDE DEF n
    <3> QED
      BY <1>2, <2>2
  <2> HIDE DEF M
  <2>4. /\ new \in Seq(M) /\ Len(new) = n - 1
        /\ \A i \in 1..(n - 1) : new[i] = w.host[i]
    BY <1>2, <2>3 DEF Front
  <2> HIDE DEF new, n
  <2>5. new \in Tables(major)
    <3>1. 1 \in 1..(n - 1) /\ n - 1 >= 1 /\ \A i \in 2..(n - 1) : i \in 2..n /\ i \in 1..(n - 1)
      BY <1>2, <2>3
    <3> QED
      BY <1>2, <2>4, <3>1 DEF Tables, M
  <2> QED
    BY <1>1, <2>5 DEF Worlds, new
<1> QED
  BY <1>3, <1>4, <1>5, <1>6 DEF Happens

\* The disk starts plugged in and mounted, and every history leads to such a state.
LEMMA WorldInWorlds ==
  ASSUME NEW major, NEW managed \in BOOLEAN, NEW events \in Seq(DiskEvents)
  PROVE  World(major, managed, events) \in Worlds(major)
<1> DEFINE n == Len(events)
           A == Worlds(major)
           base == Plugged(major)
           next == [p \in A \X (1..n) |-> Happens(p[1], events[p[2]])]
<1>1. n \in Nat /\ DOMAIN events = 1..n /\ \A i \in 1..n : events[i] \in DiskEvents
  OBVIOUS
<1>2. base \in A
  <2> DEFINE dev == [major |-> major, minor |-> 1]
             M == [at : {<<>>, Point}, dev : {Root} \cup Disks(major)]
             m1 == Mount(<<>>, Root)
             m2 == Mount(Point, dev)
  <2>1. dev \in Disks(major)
    BY DEF Disks
  <2>2. m1 \in M /\ m2 \in M /\ m2.at = Point /\ m2.dev = dev
    BY <2>1 DEF Mount
  <2> HIDE DEF M, m1, m2, dev
  <2>3. <<m1, m2>> \in Seq(M) /\ Len(<<m1, m2>>) = 2
    BY <2>2
  <2>4. \A i \in 2..2 : <<m1, m2>>[i] = m2
    OBVIOUS
  <2>5. <<m1, m2>> \in Tables(major)
    BY <2>1, <2>2, <2>3, <2>4 DEF Tables, M, m1
  <2>6. base = [dev |-> dev, there |-> TRUE, host |-> <<m1, m2>>, ns |-> <<m1, m2>>]
    BY DEF Plugged, m1, m2, dev
  <2> HIDE DEF base
  <2> QED
    BY <2>1, <2>5, <2>6 DEF Worlds
<1> HIDE DEF A, base, n
<1>3. ASSUME NEW a \in A, NEW j \in 1..n PROVE Happens(a, events[j]) \in A
  BY <1>1, HappensInWorlds DEF A
<1>4. next \in [A \X (1..n) -> A]
  BY <1>3
<1>5. \A a \in A, j \in 1..n : next[<<a, j>>] = Happens(a, events[j])
  OBVIOUS
<1> HIDE DEF next
<1>6. Foldable(1..n, A, base, Top(n), next)
  BY <1>1, <1>2, <1>4, PrefixFold
<1>7. PICK g : Folded(g, 1..n, A, base, Top(n), next)
  BY <1>6, FoldExists
<1> DEFINE Step(h) == [t \in SUBSET (1..n) |->
                         IF t = {} THEN base
                         ELSE Happens(h[t \ {Max(t)}], events[Max(t)])]
           h == CHOOSE h : h = Step(h)
           f == [t \in SUBSET (1..n) |-> g[t]]
<1>8. FoldLeft(Happens, base, events) = h[1..n]
  BY <1>1 DEF FoldLeft, MapThenFoldSet
<1>9. \A t \in SUBSET (1..n) : t # {} => Top(n)[t] = Max(t) /\ Max(t) \in t
  BY <1>6 DEF Foldable, Top
<1>10. f = Step(f)
  <2>1. ASSUME NEW t \in SUBSET (1..n)
        PROVE  g[t] = IF t = {} THEN base ELSE Happens(f[t \ {Max(t)}], events[Max(t)])
    <3>1. CASE t = {}
      BY <1>7, <3>1 DEF Folded
    <3>2. CASE t # {}
      <4> DEFINE r == t \ {Max(t)}
      <4>1. Top(n)[t] = Max(t) /\ Max(t) \in 1..n /\ r \in SUBSET (1..n)
        BY <1>9, <3>2
      <4>2. g[t] = next[<<g[r], Max(t)>>] /\ g[r] \in A
        BY <1>7, <4>1, <3>2 DEF Folded
      <4> QED
        BY <1>5, <4>1, <4>2, <3>2
    <3> QED
      BY <3>1, <3>2
  <2> QED
    BY <2>1
<1>11. h = Step(h)
  <2> HIDE DEF f, Step
  <2> QED
    BY <1>10
<1> HIDE DEF h
<1>12. Follows(h, 1..n, A, base, Top(n), next)
  <2>1. h[{}] = base
    BY <1>11
  <2>2. ASSUME NEW t \in SUBSET (1..n), t # {}, h[t \ {Top(n)[t]}] \in A
        PROVE  h[t] = next[<<h[t \ {Top(n)[t]}], Top(n)[t]>>]
    <3>1. h[t] = Happens(h[t \ {Max(t)}], events[Max(t)])
      BY <1>11, <2>2
    <3>2. Top(n)[t] = Max(t) /\ Max(t) \in 1..n
      BY <1>9, <2>2
    <3> QED
      BY <1>5, <2>2, <3>1, <3>2
  <2> QED
    BY <2>1, <2>2 DEF Follows
<1> HIDE DEF Step, f
<1>13. h[1..n] \in A
  <2>1. h[1..n] = g[1..n]
    BY <1>6, <1>7, <1>12, FoldAgrees
  <2> QED
    BY <1>7, <2>1 DEF Folded
<1> DEFINE w == FoldLeft(Happens, base, events)
<1>14. w \in Worlds(major)
  BY <1>8, <1>13 DEF A
<1>15. World(major, managed, events) = IF managed THEN w ELSE Restarted(w)
  BY DEF World, base
<1> HIDE DEF w
<1>16. Restarted(w) \in Worlds(major)
  BY <1>14 DEF Restarted, Worlds
<1> QED
  BY <1>14, <1>15, <1>16

\* The signs of the disk (data_disk_ok, host_has_disk, check_mount): present only when
\* the files land on the disk that is plugged in; a restart only for a disk that the
\* next process finds; and a disk mounted again at the data directory is noticed.
THEOREM DiskSignsRight == Spec => []DiskVerdicts
<1>1. RulesInv => DiskVerdicts
  <2> SUFFICES ASSUME RulesInv, Answered("disk") PROVE DiskVerdicts
    BY DEF DiskVerdicts
  <2> DEFINE q == question
             w == World(q.major, q.managed, q.events)
             reads(t) == (w.there /\ Stat(t, q.path) = w.dev) \/ q.cached
             ok(t) == data_disk_ok(TRUE, t, Sys(w), q.path, reads(t))
  <2>1. question.ask = "disk" /\ question \in DiskQuestions /\ answer # Unanswered
    BY Kinds DEF Answered, Unanswered
  <2>2. /\ q.managed \in BOOLEAN /\ q.cached \in BOOLEAN
        /\ q.path \in Seq(STRING) /\ IsPrefix(Point, q.path) /\ q.events \in Seq(DiskEvents)
    BY <2>1, DiskAssumption
  <2>3. answer.is = [world |-> w, ok |-> ok(w.ns),
                     host  |-> host_has_disk(w.host, Sys(w), q.path),
                     again |-> check_mount(TRUE, w.host, q.path) /\ ok(w.host)]
    BY <2>1 DEF RulesInv, Watched
  <2>4. /\ answer.is.world = w /\ answer.is.ok = ok(w.ns)
        /\ answer.is.host = host_has_disk(w.host, Sys(w), q.path)
        /\ answer.is.again = (check_mount(TRUE, w.host, q.path) /\ ok(w.host))
    <3> HIDE DEF w, ok
    <3> QED
      BY <2>3
  <2>5. w \in Worlds(q.major)
    BY <2>2, WorldInWorlds
  <2> HIDE DEF w
  <2>6. /\ w.dev \in Disks(q.major) /\ w.there \in BOOLEAN
        /\ w.host \in Tables(q.major) /\ w.ns \in Tables(q.major)
    BY <2>5 DEF Worlds
  <2>7. w.dev # Root /\ w.dev.major = q.major
    BY <2>6, DiskIsNotRoot
  \* A table whose top mount is another device than the root, and a present one.
  <2>8. ASSUME NEW t \in Tables(q.major), q.major # 0, Stat(t, q.path) # Root,
               device_present_in(Sys(w), Stat(t, q.path))
        PROVE  w.there /\ Stat(t, q.path) = w.dev
    <3>1. Stat(t, q.path) = t[Len(t)].dev /\ Len(t) # 1
      BY <2>2, <2>8, StatOf
    <3>2. Len(t) > 1
      BY <3>1, TableFacts
    <3>3. Stat(t, q.path) \in Disks(q.major)
      BY <2>2, <3>1, <3>2, StatOf
    <3>4. Stat(t, q.path).major # 0
      BY <2>8, <3>3, DiskIsNotRoot
    <3> QED
      BY <2>8, <3>4 DEF device_present_in, Sys
  <2>9. \A t \in Tables(q.major) : Stat(t, <<>>) = Root
    BY <2>2, StatOf
  <2>10. answer.is.ok /\ q.major # 0 => OnDisk(w, w.ns)
    <3> SUFFICES ASSUME ok(w.ns), q.major # 0 PROVE w.there /\ Stat(w.ns, q.path) = w.dev
      BY <2>4 DEF OnDisk
    <3>1. Stat(w.ns, q.path) # Root /\ device_present_in(Sys(w), Stat(w.ns, q.path))
      BY <2>6, <2>9 DEF data_disk_ok, is_on_separate_filesystem, backing_device_present
    <3> QED
      BY <2>6, <2>8, <3>1
  <2>11. ASSUME host_has_disk(w.host, Sys(w), q.path), q.major # 0
         PROVE  check_mount(TRUE, w.host, q.path) /\ ok(w.host)
    <3> DEFINE d == mounted_device(w.host, q.path)
               n == Len(w.host)
               at == {i \in DOMAIN w.host : w.host[i].at = q.path}
    <3>1. d # <<>> /\ device_present_in(Sys(w), d[1])
      BY <2>11 DEF host_has_disk
    <3>2. at # {}
      BY <3>1 DEF mounted_device
    <3>3. q.path = Point
      <4>1. PICK i \in DOMAIN w.host : w.host[i].at = q.path
        BY <3>2
      <4>2. w.host[i].at = <<>> \/ w.host[i].at = Point
        BY <2>6, <4>1, TableFacts
      <4>3. ~IsPrefix(Point, <<>>)
        BY DEF IsPrefix, Point
      <4> QED
        BY <2>2, <4>1, <4>2, <4>3
    <3>4. d = <<w.host[n].dev>> /\ n > 1
      BY <2>6, <3>1, <3>3, MountedOf
    <3>5. d[1] = Stat(w.host, q.path) /\ Stat(w.host, q.path) \in Disks(q.major)
      BY <2>2, <2>6, <3>4, StatOf
    <3>6. Stat(w.host, q.path) # Root /\ device_present_in(Sys(w), Stat(w.host, q.path))
      BY <3>1, <3>5, DiskIsNotRoot
    <3>7. w.there /\ Stat(w.host, q.path) = w.dev
      BY <2>6, <2>8, <2>11, <3>6
    <3> QED
      BY <2>6, <2>9, <3>6, <3>7 DEF check_mount, data_disk_ok, is_on_separate_filesystem,
         backing_device_present
  <2>12. ASSUME q.path = Point, OnDisk(w, w.host)
         PROVE  host_has_disk(w.host, Sys(w), q.path)
    <3>1. w.there /\ Stat(w.host, q.path) = w.dev
      BY <2>12 DEF OnDisk
    <3>2. Stat(w.host, q.path) = w.host[Len(w.host)].dev /\ Len(w.host) # 1
      BY <2>2, <2>6, <2>7, <3>1, StatOf
    <3>3. Len(w.host) > 1
      BY <2>6, <3>2, TableFacts
    <3>4. mounted_device(w.host, q.path) = <<w.dev>>
      BY <2>6, <2>12, <3>1, <3>2, <3>3, MountedOf
    <3> QED
      BY <3>1, <3>4 DEF host_has_disk, device_present_in, Sys
  <2> HIDE DEF ok, q
  <2> QED
    BY <2>4, <2>10, <2>11, <2>12 DEF DiskVerdicts, q
<1> QED
  BY <1>1, RulesInvariant, PTL

-----------------------------------------------------------------------------
(* The merged tracker list.                                                *)

\* The canonical form of a line.
LEMMA CanonicalForm ==
  ASSUME NEW a \in TrackerLine, a.kind = "url"
  PROVE  normalize(a) = <<[kind |-> "url", scheme |-> a.scheme, host |-> a.host,
                           upper |-> FALSE, ip |-> a.ip,
                           port |-> IF a.port = DefaultPort(a.scheme) THEN 0 ELSE a.port,
                           path |-> PathOf(a)]>>
<1> DEFINE port == IF a.port = DefaultPort(a.scheme) THEN 0 ELSE a.port
           e == [a EXCEPT !.upper = FALSE, !.port = port, !.path = PathOf(a)]
<1>1. normalize(a) = <<e>>
  BY DEF normalize, PathOf
<1> HIDE DEF port
<1>2. e = [kind |-> "url", scheme |-> a.scheme, host |-> a.host, upper |-> FALSE,
           ip |-> a.ip, port |-> port, path |-> PathOf(a)]
  <2>1. e \in [kind : {"url"}, scheme : {a.scheme}, host : {a.host}, upper : {FALSE},
               ip : {a.ip}, port : {port}, path : {PathOf(a)}]
    BY DEF TrackerLine
  <2> HIDE DEF e
  <2> QED
    BY <2>1
<1> HIDE DEF e
<1> QED
  BY <1>1, <1>2 DEF port

\* A path that is normalized stays as it is.
LEMMA NormalizedPath ==
  \A scheme, path : NormalizePath(scheme, NormalizePath(scheme, path)) = NormalizePath(scheme, path)
  BY DEF NormalizePath

\* Two lines have one canonical form when they name the same tracker, and the
\* canonical form names it too.
LEMMA SameForm ==
  ASSUME NEW a \in TrackerLine, NEW b \in TrackerLine, a.kind = "url", b.kind = "url"
  PROVE  /\ normalize(a) = normalize(b) <=> SameTracker(a, b)
         /\ SameTracker(normalize(a)[1], a) /\ SameTracker(a, normalize(a)[1])
<1> DEFINE port(x) == IF x.port = DefaultPort(x.scheme) THEN 0 ELSE x.port
           form(x) == [kind |-> "url", scheme |-> x.scheme, host |-> x.host, upper |-> FALSE,
                       ip |-> x.ip, port |-> port(x), path |-> PathOf(x)]
<1>1. normalize(a) = <<form(a)>> /\ normalize(b) = <<form(b)>>
  BY CanonicalForm
<1>2. normalize(a) = normalize(b) <=> form(a) = form(b)
  <2> HIDE DEF form
  <2> QED
    BY <1>1
<1>3. form(a) = form(b) <=> /\ a.scheme = b.scheme /\ a.host = b.host /\ a.ip = b.ip
                            /\ port(a) = port(b) /\ PathOf(a) = PathOf(b)
  <2> HIDE DEF port
  <2> QED
    OBVIOUS
<1>4. DefaultPort(a.scheme) \in Nat /\ a.port \in Nat /\ b.port \in Nat
  BY DEF DefaultPort, TrackerLine
<1>5. a.scheme = b.scheme => (port(a) = port(b) <=> PortOf(a) = PortOf(b))
  BY <1>4 DEF PortOf
<1>6. normalize(a) = normalize(b) <=> SameTracker(a, b)
  BY <1>2, <1>3, <1>5 DEF SameTracker
<1>7. SameTracker(form(a), a) /\ SameTracker(a, form(a))
  <2>1. /\ form(a).scheme = a.scheme /\ form(a).host = a.host /\ form(a).ip = a.ip
        /\ form(a).port = port(a) /\ form(a).path = PathOf(a)
    OBVIOUS
  <2> HIDE DEF form
  <2>2. PortOf(form(a)) = PortOf(a)
    BY <1>4, <2>1 DEF PortOf
  <2>3. PathOf(form(a)) = PathOf(a)
    BY <2>1, NormalizedPath DEF PathOf
  <2> QED
    BY <2>1, <2>2, <2>3 DEF SameTracker
<1> QED
  BY <1>1, <1>6, <1>7

\* What an answered merge is about.
LEMMA AnsweredMerge ==
  ASSUME RulesInv, Answered("merge")
  PROVE  /\ answer.is = merge(question.cfg, question.lists)
         /\ question.cfg.max \in Nat
         /\ question.cfg.add \in Seq(TrackerLine) /\ question.cfg.block \in Seq(TrackerLine)
         /\ question.lists \in ListsOf(SUBSET STRING, TrackerLine)
<1>1. answer # Unanswered
  BY DEF Answered, Unanswered
<1>2. question.ask = "merge" /\ question \in MergeQuestions
  BY Kinds DEF Answered
<1> QED
  BY <1>1, <1>2, MergeAssumption DEF RulesInv, Merged, ListsOf

\* A line that a list has in one of its schemes; and the lists.
From(raw, l) == raw \in ToSet(l.list) /\ raw.scheme \in Allowed(question.cfg, l)
Sources == ToSet(question.lists) \cup {Statics(question.cfg)}

\* A line is usable when it comes from one of the lists or the static ones.
LEMMA UsableFrom ==
  ASSUME NEW raw
  PROVE  raw \in Usable <=>
           /\ raw.kind = "url"
           /\ ~(question.cfg.reject_ip_hosts /\ raw.ip)
           /\ \E l \in Sources : From(raw, l)
           /\ Unblocked(raw)
<1> DEFINE cfg == question.cfg
           lists == ToSet(question.lists)
           add == ToSet(cfg.add)
           has(l) == raw \in ToSet(l.list)
           fits(l) == raw.scheme \in (IF l.schemes = {} THEN cfg.schemes ELSE l.schemes)
           inLists == raw \in UNION {ToSet(l.list) : l \in lists}
           Some == \/ raw \in add /\ raw.scheme \in cfg.schemes
                   \/ \E l \in lists : has(l) /\ fits(l)
<1>1. raw \in Usable <=>
        /\ inLists \/ raw \in add
        /\ raw.kind = "url" /\ ~(cfg.reject_ip_hosts /\ raw.ip) /\ Some /\ Unblocked(raw)
  BY DEF Usable
<1>2. From(raw, Statics(cfg)) <=> raw \in add /\ raw.scheme \in cfg.schemes
  BY DEF From, Allowed, Statics
<1>3. \A l : From(raw, l) <=> has(l) /\ fits(l)
  BY DEF From, Allowed
<1> HIDE DEF lists
<1>4. \A l \in lists : has(l) => inLists
  OBVIOUS
<1> HIDE DEF add, has, fits, inLists
<1>5. Some <=> \E l \in lists \cup {Statics(cfg)} : From(raw, l)
  BY <1>2, <1>3
<1>6. Some => inLists \/ raw \in add
  BY <1>4
<1> HIDE DEF Some, cfg
<1>7. raw \in Usable <=>
        /\ raw.kind = "url" /\ ~(cfg.reject_ip_hosts /\ raw.ip)
        /\ (\E l \in lists \cup {Statics(cfg)} : From(raw, l)) /\ Unblocked(raw)
  BY <1>1, <1>5, <1>6
<1>8. Sources = lists \cup {Statics(cfg)}
  BY DEF Sources, lists, cfg
<1> QED
  BY <1>7, <1>8 DEF cfg

\* The canonical form of a line is admitted as the line is.
LEMMA AdmittedAsWritten ==
  ASSUME RulesInv, Answered("merge"), NEW raw \in TrackerLine, raw.kind = "url", NEW l
  PROVE  Admits(question.cfg, l, normalize(raw)[1]) <=>
           /\ raw.scheme \in Allowed(question.cfg, l)
           /\ ~(question.cfg.reject_ip_hosts /\ raw.ip)
           /\ Unblocked(raw)
<1> DEFINE cfg == question.cfg
           block == cfg.block
           t == normalize(raw)[1]
<1>1. normalize(raw) = <<t>> /\ t.scheme = raw.scheme /\ t.host = raw.host /\ t.ip = raw.ip
  BY CanonicalForm
<1>2. block \in Seq(TrackerLine)
  BY AnsweredMerge
<1> HIDE DEF t, block
<1>3. ASSUME NEW b \in ToSet(block)
      PROVE  ~Matches(t, b) <=>
               CASE b.kind = "glob" -> b.upper \/ ~IsSuffix(b.host, raw.host)
                 [] b.kind = "url"  -> ~SameTracker(b, raw)
                 [] OTHER           -> b.host # raw.host
  <2>1. b \in TrackerLine
    BY <1>2 DEF ToSet
  <2>2. CASE b.kind = "glob"
    BY <1>1, <2>2 DEF Matches
  <2>3. CASE b.kind = "url"
    <3>1. normalize(b) = <<t>> <=> SameTracker(b, raw)
      BY <1>1, <2>1, <2>3, SameForm
    <3> QED
      BY <2>3, <3>1 DEF Matches
  <2>4. CASE b.kind \notin {"glob", "url"}
    BY <1>1, <2>4 DEF Matches
  <2> QED
    BY <2>2, <2>3, <2>4
<1>4. blocked(t, block) <=> \E b \in ToSet(block) : Matches(t, b)
  BY DEF blocked, ToSet
<1>5. ~blocked(t, block) <=> Unblocked(raw)
  BY <1>3, <1>4 DEF Unblocked, block
<1> QED
  BY <1>1, <1>5 DEF Admits, t, block

\* The lines of a list are lines.
LEMMA UsableLines ==
  ASSUME RulesInv, Answered("merge")
  PROVE  Usable \subseteq TrackerLine
<1>1. \A l \in Sources : ToSet(l.list) \subseteq TrackerLine
  BY AnsweredMerge, SourceLines DEF Sources
<1>2. \A raw \in Usable : \E l \in Sources : raw \in ToSet(l.list)
  BY UsableFrom DEF From
<1> QED
  BY <1>1, <1>2

\* The merged list holds a tracker exactly when a usable line names it, up to the cap.
LEMMA AddedIsUsable ==
  ASSUME RulesInv, Answered("merge"), NEW t
  PROVE  t \in AllAdd(question.cfg, question.lists, TrackerLine) <=>
           \E raw \in Usable : normalize(raw) = <<t>>
<1> DEFINE cfg == question.cfg
           lists == question.lists
<1>1. /\ cfg.add \in Seq(TrackerLine) /\ lists \in ListsOf(SUBSET STRING, TrackerLine)
  BY AnsweredMerge
<1>2. \A l \in Sources : ToSet(l.list) \subseteq TrackerLine
  BY <1>1, SourceLines DEF Sources
<1>3. t \in AllAdd(cfg, lists, TrackerLine) <=>
        \E l \in Sources : \E raw \in ToSet(l.list) :
           normalize(raw) = <<t>> /\ Admits(cfg, l, t)
  BY <1>1, AddedFrom DEF Sources
<1> HIDE DEF lists
<1>4. ASSUME NEW l \in Sources, NEW raw \in ToSet(l.list), normalize(raw) = <<t>>,
             Admits(cfg, l, t)
      PROVE  raw \in Usable
  <2>1. raw.kind = "url"
    BY <1>4 DEF normalize
  <2>2. raw \in TrackerLine /\ normalize(raw)[1] = t
    BY <1>2, <1>4
  <2>3. /\ raw.scheme \in Allowed(cfg, l) /\ ~(cfg.reject_ip_hosts /\ raw.ip) /\ Unblocked(raw)
    BY <1>4, <2>1, <2>2, AdmittedAsWritten
  <2>4. From(raw, l)
    BY <2>3 DEF From
  <2> QED
    BY <2>1, <2>3, <2>4, UsableFrom
<1>5. ASSUME NEW raw \in Usable, normalize(raw) = <<t>>
      PROVE  \E l \in Sources : \E r \in ToSet(l.list) :
                normalize(r) = <<t>> /\ Admits(cfg, l, t)
  <2>1. /\ raw.kind = "url" /\ ~(cfg.reject_ip_hosts /\ raw.ip) /\ Unblocked(raw)
        /\ \E l \in Sources : From(raw, l)
    BY UsableFrom
  <2>2. PICK l \in Sources : From(raw, l)
    BY <2>1
  <2>3. raw \in ToSet(l.list) /\ raw.scheme \in Allowed(cfg, l)
    BY <2>2 DEF From
  <2>4. raw \in TrackerLine /\ normalize(raw)[1] = t
    BY <1>2, <1>5, <2>3
  <2>5. Admits(cfg, l, t)
    BY <2>1, <2>3, <2>4, AdmittedAsWritten
  <2> QED
    BY <1>5, <2>3, <2>5
<1> HIDE DEF cfg
<1>6. ASSUME t \in AllAdd(cfg, lists, TrackerLine)
      PROVE  \E raw \in Usable : normalize(raw) = <<t>>
  <2>1. PICK l \in Sources : \E raw \in ToSet(l.list) :
           normalize(raw) = <<t>> /\ Admits(cfg, l, t)
    BY <1>3, <1>6
  <2>2. PICK raw \in ToSet(l.list) : normalize(raw) = <<t>> /\ Admits(cfg, l, t)
    BY <2>1
  <2>3. raw \in Usable
    BY <1>4, <2>2
  <2> QED
    BY <2>2, <2>3
<1>7. ASSUME NEW raw \in Usable, normalize(raw) = <<t>>
      PROVE  t \in AllAdd(cfg, lists, TrackerLine)
  <2>1. \E l \in Sources : \E r \in ToSet(l.list) :
           normalize(r) = <<t>> /\ Admits(cfg, l, t)
    BY <1>5, <1>7
  <2> QED
    BY <1>3, <2>1
<1> QED
  BY <1>6, <1>7 DEF cfg, lists

\* The merged tracker list (trackers::merge) names no tracker twice, only usable ones
\* and at most `max`, and leaves one out only when the cap is reached.
THEOREM MergeNamesOnce == Spec => []MergedOnce
<1>1. RulesInv => MergedOnce
  <2> SUFFICES ASSUME RulesInv, Answered("merge") PROVE MergedOnce
    BY DEF MergedOnce
  <2> DEFINE cfg == question.cfg
             out == answer.is
             Added == AllAdd(cfg, question.lists, TrackerLine)
  <2>1. /\ out \in Once(TrackerLine) /\ Len(out) <= cfg.max /\ ToSet(out) \subseteq Added
        /\ Len(out) < cfg.max => ToSet(out) = Added
    <3>1. /\ cfg.add \in Seq(TrackerLine) /\ cfg.max \in Nat
          /\ question.lists \in ListsOf(SUBSET STRING, TrackerLine)
          /\ out = merge(cfg, question.lists)
      BY AnsweredMerge
    <3> HIDE DEF cfg, out, Added
    <3>2. /\ merge(cfg, question.lists) \in Once(TrackerLine)
          /\ Len(merge(cfg, question.lists)) <= cfg.max
          /\ ToSet(merge(cfg, question.lists)) \subseteq Added
          /\ Len(merge(cfg, question.lists)) < cfg.max =>
                ToSet(merge(cfg, question.lists)) = Added
      BY <3>1, MergeHolds DEF Added
    <3> QED
      BY <3>1, <3>2
  <2>2. \A t \in Added : \E raw \in Usable : normalize(raw) = <<t>>
    BY AddedIsUsable
  <2>3. \A raw \in Usable : \A t : normalize(raw) = <<t>> => t \in Added
    BY AddedIsUsable
  <2> HIDE DEF out, Added
  <2>4. \A i \in DOMAIN out : out[i] \in ToSet(out)
    BY DEF ToSet
  <2>5. \A raw \in Usable : raw \in TrackerLine /\ raw.kind = "url"
    BY UsableLines, UsableFrom
  <2>6. \A raw \in Usable : normalize(raw) = <<normalize(raw)[1]>>
    BY <2>5, CanonicalForm
  <2>7. ASSUME NEW i \in DOMAIN out, NEW j \in DOMAIN out, SameTracker(out[i], out[j])
        PROVE  i = j
    <3>1. PICK a \in Usable : normalize(a) = <<out[i]>>
      BY <2>1, <2>2, <2>4
    <3>2. PICK b \in Usable : normalize(b) = <<out[j]>>
      BY <2>1, <2>2, <2>4
    <3>3. SameTracker(a, out[i]) /\ SameTracker(out[j], b)
      BY <2>5, <3>1, <3>2, SameForm
    <3>4. SameTracker(a, b)
      BY <2>7, <3>3 DEF SameTracker
    <3>5. out[i] = out[j]
      BY <2>5, <3>1, <3>2, <3>4, SameForm
    <3> QED
      BY <2>1, <3>5 DEF Once
  <2>8. ASSUME NEW i \in DOMAIN out PROVE \E t \in Usable : SameTracker(out[i], t)
    <3>1. PICK a \in Usable : normalize(a) = <<out[i]>>
      BY <2>1, <2>2, <2>4
    <3>2. SameTracker(out[i], a)
      BY <2>5, <3>1, SameForm
    <3> QED
      BY <3>2
  <2>9. ASSUME Len(out) < cfg.max, NEW t \in Usable
        PROVE  \E i \in DOMAIN out : SameTracker(out[i], t)
    <3>1. normalize(t)[1] \in ToSet(out)
      BY <2>1, <2>3, <2>6, <2>9
    <3>2. PICK i \in DOMAIN out : out[i] = normalize(t)[1]
      BY <3>1 DEF ToSet
    <3>3. SameTracker(out[i], t)
      BY <2>5, <3>2, SameForm
    <3> QED
      BY <3>3
  <2> QED
    BY <2>1, <2>7, <2>8, <2>9 DEF MergedOnce, out
<1> QED
  BY <1>1, RulesInvariant, PTL

=============================================================================
