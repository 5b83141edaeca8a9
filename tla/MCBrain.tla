------------------------------- MODULE MCBrain -------------------------------
(***************************************************************************)
(* Small instances of Brain for TLC: two runs of one user for one case, the *)
(* second a repetition of the first under the same trace id.  The limits   *)
(* are such that one expensive and one cheap request fill the day exactly, *)
(* and that an expensive one is over the limit of a single request.        *)
(***************************************************************************)
EXTENDS Brain

CONSTANTS t1, u1, c1

SameTrace == [r \in Runs |-> t1]
SameUser == [r \in Runs |-> u1]
SameCase == [r \in Runs |-> c1]

\* The last day that counts as critical.
LastCriticalDay == {7}

PlainQuestion ==
    [dates |-> "ok", inScope |-> TRUE, jurisdiction |-> "served", rules |-> "limit",
     authorities |-> 1, facts |-> 1, raises |-> FALSE]

\* One question for each early return of assess and one that gets through for
\* each jurisdiction that does.
SampleQuestions ==
    {PlainQuestion,
     [PlainQuestion EXCEPT !.raises = TRUE],
     [PlainQuestion EXCEPT !.dates = "invalid_date"],
     [PlainQuestion EXCEPT !.inScope = FALSE],
     [PlainQuestion EXCEPT !.dates = "missing_edt"],
     [PlainQuestion EXCEPT !.dates = "missing_wages_date"],
     [PlainQuestion EXCEPT !.jurisdiction = "unverified"],
     [PlainQuestion EXCEPT !.jurisdiction = "unknown"],
     [PlainQuestion EXCEPT !.rules = "no_limit"]}

PlainReply ==
    [uuid |-> TRUE, badUuid |-> FALSE, cites |-> {"law"}, summary |-> {},
     weaknesses |-> {}, arguments |-> {}, honest |-> TRUE]

\* One reply of the model for each way a draft can offend.
SampleReplies ==
    {PlainReply,
     [PlainReply EXCEPT !.uuid = FALSE],
     [PlainReply EXCEPT !.badUuid = TRUE],
     [PlainReply EXCEPT !.cites = {}],
     [PlainReply EXCEPT !.cites = {"law", "fake"}],
     [PlainReply EXCEPT !.cites = {"provision"}],
     [PlainReply EXCEPT !.summary = {"safety_only"}],
     [PlainReply EXCEPT !.weaknesses = {"lawyer"}],
     [PlainReply EXCEPT !.weaknesses = {"govern_only"}],
     [PlainReply EXCEPT !.summary = {"wrong_deadline"}],
     [PlainReply EXCEPT !.arguments = {"promise"}],
     [PlainReply EXCEPT !.honest = FALSE]}

\* The questions that differ in what later steps can tell apart.
FewQuestions ==
    {PlainQuestion, [PlainQuestion EXCEPT !.inScope = FALSE],
     [PlainQuestion EXCEPT !.rules = "no_limit"]}

SampleCollected == {{}, {"law"}}
==============================================================================
