---------------------------- MODULE MCAnswering ----------------------------
(***************************************************************************)
(* Instances, for TLC, of what stands between a question and its answer:   *)
(* ControlPlane, the Retrieval it calls, the LegalGraph and SearchService  *)
(* behind their own routes, and the Caches in front of the tables.  They   *)
(* share the legal tables and no state of their own, so a behaviour        *)
(* exercises one of them, `subject`, while the others rest in an initial   *)
(* state; the walk and the cached chains of the graph, and the two caches, *)
(* are subjects of their own.                                              *)
(*                                                                         *)
(* Two calls share a trace id; each sample question differs from a plain   *)
(* one in one respect that some step tells apart.  Three passages, one of  *)
(* another jurisdiction and one named by the query, with at most one       *)
(* change of the corpus in between.  Four nodes in a diamond or a cycle,   *)
(* which the traversal has to cut.  Two requests for two rules through a   *)
(* cache of one entry; three checks of two ids.                            *)
(***************************************************************************)
EXTENDS ControlPlane, Retrieval, LegalGraph, SearchService, Caches, TLC

VARIABLE subject

PlainQuestion ==
    [dates |-> "ok", inScope |-> TRUE, jurisdiction |-> "served", rules |-> "limit",
     authorities |-> 1, facts |-> 1, raises |-> FALSE]
PlainAsk ==
    [domain |-> "operational", lane |-> "generative", q |-> PlainQuestion,
     useModel |-> TRUE, arabic |-> FALSE, consent |-> TRUE, urgent |-> FALSE,
     nextReview |-> FALSE, phrasing |-> {}]
SampleAsks ==
    {PlainAsk,
     [PlainAsk EXCEPT !.domain = "disabled"],
     [PlainAsk EXCEPT !.lane = "fast"],
     [PlainAsk EXCEPT !.q.rules = "none"],
     [PlainAsk EXCEPT !.q.dates = "missing_edt"],
     [PlainAsk EXCEPT !.q.raises = TRUE],
     [PlainAsk EXCEPT !.useModel = FALSE, !.consent = FALSE],
     [PlainAsk EXCEPT !.arabic = TRUE, !.phrasing = {"promise"}],
     [PlainAsk EXCEPT !.arabic = TRUE, !.phrasing = {"lawyer"}],
     [PlainAsk EXCEPT !.urgent = TRUE],
     [PlainAsk EXCEPT !.nextReview = TRUE]}

PlainReply ==
    [uuid |-> TRUE, badUuid |-> FALSE, cites |-> {"law"}, summary |-> {},
     weaknesses |-> {}, arguments |-> {}, honest |-> TRUE]
SampleReplies ==
    {PlainReply,
     [PlainReply EXCEPT !.uuid = FALSE],
     [PlainReply EXCEPT !.badUuid = TRUE],
     [PlainReply EXCEPT !.cites = {}],
     [PlainReply EXCEPT !.cites = {"law", "fake"}],
     [PlainReply EXCEPT !.weaknesses = {"govern_only"}],
     [PlainReply EXCEPT !.arguments = {"promise"}]}
SampleCollected == {{}, {"law"}}
OneTrace == [c \in Calls |-> "t1"]

KindsOfAuthorities ==
    "s1" :> "legislation" @@ "s2" :> "legislation" @@ "r1" :> "legislation" @@ "j1" :> "case_law"
OneRule == <<"r1">>

KindsOfNodes ==
    "n0" :> "claim_type" @@ "n1" :> "legal_test" @@ "n2" :> "deadline" @@ "n3" :> "remedy"
Diamond == {<<"n0", "n1">>, <<"n1", "n2">>, <<"n0", "n2">>, <<"n2", "n3">>}
Cycle == {<<"n0", "n1">>, <<"n1", "n2">>, <<"n2", "n0">>}
SampleShapes == {Diamond, Cycle}

\* What rests is fixed first, so that the choices of Init are those of the subject.
MCInit ==
    /\ subject \in {"control", "retrieval", "walk", "chain", "search", "rules", "guard"}
    /\ subject # "control" => ask = [c \in Calls |-> PlainAsk]
    /\ subject # "retrieval" =>
          /\ sourceRow = [p \in Passages |-> "in_force"]
          /\ chunkRow = [p \in Passages |-> "in_force"]
          /\ plane = "ready"
    /\ subject \notin {"walk", "chain"} => active = Nodes /\ edges = Diamond /\ neo = {}
    /\ subject # "search" => embedded = Chunks
    /\ subject # "rules" =>
          rq = [r \in Requests |-> [at |-> "idle", key |-> "k1", time |-> 0, val |-> 0]]
    /\ subject # "guard" =>
          ck = [c \in Checks |-> [at |-> "idle", id |-> "i1", valid |-> FALSE]]
    /\ Init /\ RetrievalInit /\ LegalGraphInit /\ SearchInit /\ CachesInit

MCNext ==
    /\ UNCHANGED subject
    /\ \/ subject = "control" /\ Next
          /\ UNCHANGED <<retrievalVars, legalGraphVars, searchVars, cacheVars>>
       \/ subject = "retrieval" /\ RetrievalNext
          /\ UNCHANGED <<vars, legalGraphVars, searchVars, cacheVars>>
       \/ subject = "walk" /\ WalkStep
          /\ UNCHANGED <<vars, retrievalVars, searchVars, cacheVars>>
       \/ subject = "chain" /\ (ChainStep \/ (EditGraph /\ UNCHANGED chainVars))
          /\ UNCHANGED <<vars, retrievalVars, searchVars, cacheVars>>
       \/ subject = "search" /\ SearchNext
          /\ UNCHANGED <<vars, retrievalVars, legalGraphVars, cacheVars>>
       \/ subject = "rules" /\ (CacheTick \/ RulesStep)
          /\ UNCHANGED <<vars, retrievalVars, legalGraphVars, searchVars>>
       \/ subject = "guard" /\ (CacheTick \/ GuardStep)
          /\ UNCHANGED <<vars, retrievalVars, legalGraphVars, searchVars>>

MCSpec ==
    MCInit /\ [][MCNext]_<<vars, retrievalVars, legalGraphVars, searchVars, cacheVars, subject>>
=============================================================================
