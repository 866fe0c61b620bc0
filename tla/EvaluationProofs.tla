--------------------------- MODULE EvaluationProofs ---------------------------
(***************************************************************************)
(* The theorems about Evaluation, for any number of runners, scenarios,    *)
(* cases and runs.                                                         *)
(***************************************************************************)
EXTENDS FraudRulesProofs, Sums

(* Some labelled case had a run that was not right. *)
Flawed(p) ==
    \E i \in DOMAIN p.results : p.results[i].labelled /\ p.results[i].correct < p.runs

(* Counts within their bounds, as in EvaluationTypeOK. *)
Counted(p) ==
    /\ p.tries < p.runs /\ p.correct <= p.tries
    /\ Len(p.results) <= Len(p.cases)
    /\ \A i \in DOMAIN p.results : p.results[i].correct <= p.runs

(* What a runner carries in each phase: where its loops stand, and that its  *)
(* results so far are those of the cases before the next one.                *)
Phased(p) ==
    /\ p.at \in {"start", "truncate", "check"} => p.next = 1
    /\ p.at \in {"build", "resolve"} => p.next \in DOMAIN Builders
    /\ p.at \in {"truncate", "build", "resolve", "check"} => p.cases # <<>>
    /\ p.at \in {"start", "truncate", "build", "resolve", "check"} =>
          p.tries = 0 /\ p.slips = 0 /\ p.results = <<>>
    /\ p.at = "truncate" =>
          p.reads \in {<<"transactions", "accounts">>, <<"accounts">>, <<>>}
    /\ p.at \in {"invoke", "profile"} =>
          /\ p.next \in DOMAIN p.cases /\ Len(p.results) = p.next - 1
          /\ \A i \in DOMAIN p.cases : p.cases[i].scenario \in Keys
    /\ p.exit = 0 => p.at = "done"

(* A slip leaves a trace: a flawed result, or, while its case is still being *)
(* run, fewer correct runs than runs.                                        *)
SlipsKept(p) ==
    p.at \in {"invoke", "profile", "report"} /\ p.slips > 0 =>
        \/ Flawed(p)
        \/ /\ p.at # "report" /\ p.cases[p.next].verdict # Unlabelled
           /\ p.correct < p.tries

Honest(r, p) == r \notin Mocked /\ p.exit = 0 => p.slips = 0

Sound(r, p) ==
    p \in Progress /\ Counted(p) /\ Phased(p) /\ SlipsKept(p) /\ Honest(r, p)

(* It has nothing to build any more. *)
Late(r, p) ==
    p.at \notin {"start", "truncate", "build"} /\ p.seen \in {run[r].seen, Waiting.seen}

Runs == run \in [Runners -> Progress] /\ \A r \in Runners : Sound(r, run[r])

-------------------------------------------------------------------------------
(* There is a scenario to build, and each is one of the keys. *)
LEMMA BuildersTypes ==
    /\ Builders \in Seq(Keys) /\ Len(Builders) \in Nat \ {0}
    /\ DOMAIN Builders = 1 .. Len(Builders)
    /\ \A i \in DOMAIN Builders : Builders[i] \in Keys
  BY EvaluationAssumption DEF Keys, Range

(* A data set is a sequence, the empty one among them. *)
LEMMA CasesTypes ==
    ASSUME NEW cases \in Datasets \cup {Golden, <<>>}
    PROVE  Len(cases) \in Nat /\ DOMAIN cases = 1 .. Len(cases)
  <1>1. CASE cases = <<>>
    BY <1>1
  <1>2. CASE cases # <<>>
    <2>1. cases \in Seq(Range(cases))
      BY <1>2, EvaluationAssumption
    <2>2. QED
      BY <2>1
  <1>3. QED
    BY <1>1, <1>2

(* Every runner begins in order. *)
LEMMA WaitingSound == \A r : Sound(r, Waiting)
  <1>1. Waiting \in Progress
    BY DEF Waiting, Progress
  <1>2. Counted(Waiting) /\ Phased(Waiting) /\ SlipsKept(Waiting)
    BY DEF Waiting, Counted, Phased, SlipsKept
  <1>3. QED
    BY <1>1, <1>2 DEF Sound, Honest, Waiting

(* A runner that gives up leaves a sound record and looks up nothing more. *)
LEMMA AbortSound ==
    ASSUME NEW r \in Runners, Abort(r)
    PROVE  \E p : Become(r, p) /\ Sound(r, p) /\ Late(r, p)
  <1> DEFINE p == [Waiting EXCEPT !.at = "aborted"]
  <1>1. p \in Progress
    <2>1. Waiting \in Progress
      BY WaitingSound DEF Sound
    <2>2. QED
      BY <2>1 DEF Progress
  <1>2. Counted(p) /\ Phased(p) /\ SlipsKept(p) /\ Honest(r, p)
    BY DEF Waiting, Counted, Phased, SlipsKept, Honest
  <1>3. p.at = "aborted" /\ p.seen = Waiting.seen
    BY DEF Waiting
  <1>4. Become(r, p)
    BY DEF Abort
  <1> HIDE DEF p
  <1>5. QED
    BY <1>1, <1>2, <1>3, <1>4 DEF Sound, Late

(* The command line is parsed: what it chooses is within the types. *)
LEMMA StartSound ==
    ASSUME Runs, NEW r \in Runners, Start(r)
    PROVE  \E p : /\ Become(r, p) /\ Sound(r, p)
                  /\ p.seen \in {run[r].seen, Waiting.seen}
                  /\ p.at = "truncate" => p.reads # <<>>
  <1>1. CASE Abort(r)
    BY <1>1, AbortSound DEF Late
  <1>2. ASSUME NEW cases \in Datasets \cup {Golden}, NEW runs \in 1 .. MaxRuns,
               NEW seed \in BOOLEAN, ValidDataset(cases),
               Become(r, [run[r] EXCEPT
                            !.at = IF seed THEN "truncate" ELSE "resolve",
                            !.cases = cases, !.runs = runs, !.reads = TruncateReads])
        PROVE  \E p : /\ Become(r, p) /\ Sound(r, p)
                      /\ p.seen \in {run[r].seen, Waiting.seen}
                      /\ p.at = "truncate" => p.reads # <<>>
    <2> DEFINE p == [run[r] EXCEPT
                       !.at = IF seed THEN "truncate" ELSE "resolve",
                       !.cases = cases, !.runs = runs, !.reads = TruncateReads]
    <2>1. /\ run[r] \in Progress /\ Counted(run[r]) /\ Phased(run[r])
          /\ Honest(r, run[r]) /\ run[r].at = "start"
      BY DEF Runs, Sound, Start, At
    <2>2. /\ runs \in Nat \ {0} /\ Len(cases) \in Nat /\ cases # <<>>
          /\ TruncateReads \in Seq(Parts)
      BY <1>2, EvaluationAssumption, CasesTypes DEF ValidDataset, TruncateReads, Parts
    <2>3. p \in Progress
      BY <2>1, <2>2 DEF Progress
    <2>4. /\ p.at \in {"truncate", "resolve"} /\ p.cases = cases /\ p.runs = runs
          /\ p.reads = <<"transactions", "accounts">> /\ p.next = 1 /\ p.tries = 0
          /\ p.correct = 0 /\ p.slips = 0 /\ p.results = <<>> /\ p.exit # 0
          /\ p.seen = run[r].seen
      BY <2>1 DEF Progress, Phased, Counted, TruncateReads
    <2>5. Become(r, p)
      BY <1>2
    <2> HIDE DEF p
    <2>6. Counted(p) /\ Phased(p) /\ SlipsKept(p) /\ Honest(r, p)
      BY <2>2, <2>4, BuildersTypes DEF Counted, Phased, SlipsKept, Honest
    <2>7. p.reads # <<>>
      BY <2>4
    <2>8. Sound(r, p)
      BY <2>3, <2>6 DEF Sound
    <2>9. QED
      BY <2>4, <2>5, <2>7, <2>8
  <1>3. PICK cases \in IF r \in Mocked THEN {Golden} ELSE Datasets,
             runs \in IF r \in Mocked THEN {1} ELSE 1 .. MaxRuns,
             seed \in IF r \in Mocked THEN {TRUE} ELSE BOOLEAN :
               IF ValidDataset(cases)
               THEN Become(r, [run[r] EXCEPT
                                 !.at = IF seed THEN "truncate" ELSE "resolve",
                                 !.cases = cases, !.runs = runs,
                                 !.reads = TruncateReads])
               ELSE Abort(r)
    BY Zenon DEF Start
  <1>4. runs \in 1 .. MaxRuns /\ cases \in Datasets \cup {Golden} /\ seed \in BOOLEAN
    <2>1. 1 \in 1 .. MaxRuns
      BY EvaluationAssumption
    <2>2. CASE r \in Mocked
      BY <2>1, <2>2
    <2>3. CASE r \notin Mocked
      BY <2>3
    <2>4. QED
      BY <2>2, <2>3
  <1>5. QED
    BY <1>1, <1>2, <1>3, <1>4

(* One SELECT of the truncation notes what it finds. *)
LEMMA ReadMarkedSound ==
    ASSUME Runs, NEW r \in Runners, ReadMarked(r),
           \A part \in Parts : Marked(part) \subseteq Keys \X Runners
    PROVE  \E p : /\ Become(r, p) /\ Sound(r, p)
                  /\ p.at = "truncate" /\ p.reads = Tail(run[r].reads)
                  /\ p.seen = [run[r].seen EXCEPT ![Head(run[r].reads)] =
                                                    Marked(Head(run[r].reads))]
  <1> DEFINE part == Head(run[r].reads)
             p == [run[r] EXCEPT !.reads = Tail(@),
                                 !.seen = [@ EXCEPT ![part] = Marked(part)]]
  <1>1. /\ run[r] \in Progress /\ Counted(run[r]) /\ Phased(run[r])
        /\ Honest(r, run[r]) /\ run[r].at = "truncate" /\ run[r].reads # <<>>
    BY DEF Runs, Sound, ReadMarked, At
  <1>2. run[r].reads \in {<<"transactions", "accounts">>, <<"accounts">>}
    BY <1>1 DEF Phased
  <1>3. /\ part \in Parts /\ Tail(run[r].reads) \in Seq(Parts)
        /\ Tail(run[r].reads) \in {<<"accounts">>, <<>>}
    <2>0. <<"accounts">> \in Seq(Parts) /\ <<>> \in Seq(Parts)
      BY DEF Parts
    <2>1. CASE run[r].reads = <<"transactions", "accounts">>
      <3>1. part = "transactions" /\ Tail(run[r].reads) = <<"accounts">>
        BY <2>1
      <3>2. QED
        BY <2>0, <3>1 DEF Parts
    <2>2. CASE run[r].reads = <<"accounts">>
      <3>1. part = "accounts" /\ Tail(run[r].reads) = <<>>
        BY <2>2
      <3>2. QED
        BY <2>0, <3>1 DEF Parts
    <2>3. QED
      BY <1>2, <2>1, <2>2
  <1>4. p \in Progress
    BY <1>1, <1>3 DEF Progress
  <1>5. /\ p.at = "truncate" /\ p.reads = Tail(run[r].reads)
        /\ p.seen = [run[r].seen EXCEPT ![part] = Marked(part)]
        /\ p.cases = run[r].cases /\ p.runs = run[r].runs
        /\ p.next = run[r].next /\ p.tries = run[r].tries
        /\ p.correct = run[r].correct /\ p.slips = run[r].slips
        /\ p.results = run[r].results /\ p.exit = run[r].exit
    BY <1>1 DEF Progress
  <1>6. Become(r, p)
    BY DEF ReadMarked
  <1> HIDE DEF p, part
  <1>7. Counted(p) /\ Phased(p) /\ SlipsKept(p) /\ Honest(r, p)
    BY <1>1, <1>3, <1>5 DEF Counted, Phased, SlipsKept, Honest
  <1>8. QED
    BY <1>4, <1>5, <1>6, <1>7 DEF Sound, part

(* The DELETE ends the truncation and forgets what the SELECTs found. *)
LEMMA TruncateSound ==
    ASSUME Runs, NEW r \in Runners, Truncate(r), ~Restricted(r)
    PROVE  \E p : /\ Become(r, p) /\ Sound(r, p)
                  /\ p.at = "build" /\ p.seen = Waiting.seen
  <1> DEFINE p == [run[r] EXCEPT !.at = "build", !.seen = Waiting.seen]
  <1>1. /\ run[r] \in Progress /\ Counted(run[r]) /\ Phased(run[r])
        /\ Honest(r, run[r]) /\ run[r].at = "truncate"
    BY DEF Runs, Sound, Truncate, At
  <1>2. Waiting.seen \in [Parts -> SUBSET (Keys \X Runners)]
    BY DEF Waiting
  <1>3. p \in Progress
    BY <1>1, <1>2 DEF Progress
  <1>4. /\ p.at = "build" /\ p.seen = Waiting.seen
        /\ p.cases = run[r].cases /\ p.runs = run[r].runs
        /\ p.next = 1 /\ p.tries = run[r].tries
        /\ p.correct = run[r].correct /\ p.slips = run[r].slips
        /\ p.results = run[r].results /\ p.exit = run[r].exit
    BY <1>1 DEF Progress, Phased
  <1>5. Become(r, p)
    BY DEF Truncate
  <1> HIDE DEF p
  <1>6. Counted(p) /\ Phased(p) /\ SlipsKept(p) /\ Honest(r, p)
    BY <1>1, <1>4, BuildersTypes DEF Counted, Phased, SlipsKept, Honest
  <1>7. QED
    BY <1>3, <1>4, <1>5, <1>6 DEF Sound

(* A step of the loop over the scenarios stays in the loop or ends it. *)
LEMMA AdvanceSound ==
    ASSUME Runs, NEW r \in Runners, run[r].at \in {"build", "resolve"},
           NEW mapping \in [Keys -> Runners \cup {Nobody}],
           Advance(r, "check", mapping)
    PROVE  \E p : /\ Become(r, p) /\ Sound(r, p) /\ p.seen = run[r].seen
                  /\ \/ p.at = "check"
                     \/ p.at = run[r].at /\ p.next = run[r].next + 1
  <1>1. /\ run[r] \in Progress /\ Counted(run[r]) /\ Phased(run[r])
        /\ Honest(r, run[r])
    BY DEF Runs, Sound
  <1>2. /\ run[r].next \in Nat /\ run[r].next + 1 \in Nat \ {0}
        /\ run[r].next \in DOMAIN Builders
    BY <1>1 DEF Progress, Phased
  <1>3. CASE run[r].next < Len(Builders)
    <2> DEFINE p == [run[r] EXCEPT !.next = @ + 1, !.mapping = mapping]
    <2>1. Become(r, p)
      BY <1>3 DEF Advance
    <2>2. p \in Progress
      BY <1>1, <1>2 DEF Progress
    <2>3. /\ p.at = run[r].at /\ p.seen = run[r].seen
          /\ p.cases = run[r].cases /\ p.runs = run[r].runs
          /\ p.next = run[r].next + 1 /\ p.tries = run[r].tries
          /\ p.correct = run[r].correct /\ p.slips = run[r].slips
          /\ p.results = run[r].results /\ p.exit = run[r].exit
      BY <1>1 DEF Progress
    <2> HIDE DEF p
    <2>4. p.next \in DOMAIN Builders
      BY <1>2, <1>3, <2>3, BuildersTypes
    <2>5. Counted(p) /\ Phased(p) /\ SlipsKept(p) /\ Honest(r, p)
      BY <1>1, <2>3, <2>4 DEF Counted, Phased, SlipsKept, Honest
    <2>6. QED
      BY <2>1, <2>2, <2>3, <2>5 DEF Sound
  <1>4. CASE ~(run[r].next < Len(Builders))
    <2> DEFINE p == [run[r] EXCEPT !.next = 1, !.mapping = mapping, !.at = "check"]
    <2>1. Become(r, p)
      BY <1>4 DEF Advance
    <2>2. p \in Progress
      <3>1. 1 \in Nat \ {0} /\ mapping \in [Keys -> Runners \cup {Nobody}]
        OBVIOUS
      <3>2. QED
        BY <1>1, <3>1 DEF Progress
    <2>3. /\ p.at = "check" /\ p.seen = run[r].seen
          /\ p.cases = run[r].cases /\ p.runs = run[r].runs
          /\ p.next = 1 /\ p.tries = run[r].tries
          /\ p.correct = run[r].correct /\ p.slips = run[r].slips
          /\ p.results = run[r].results /\ p.exit = run[r].exit
      BY <1>1 DEF Progress
    <2> HIDE DEF p
    <2>4. Counted(p) /\ Phased(p) /\ SlipsKept(p) /\ Honest(r, p)
      BY <1>1, <2>3 DEF Counted, Phased, SlipsKept, Honest
    <2>5. QED
      BY <2>1, <2>2, <2>3, <2>4 DEF Sound
  <1>5. QED
    BY <1>3, <1>4

(* The guard against missing fixtures only compares. *)
LEMMA CheckMissingSound ==
    ASSUME Runs, NEW r \in Runners, CheckMissing(r)
    PROVE  \E p : Become(r, p) /\ Sound(r, p) /\ Late(r, p)
  <1>1. CASE Abort(r)
    BY <1>1, AbortSound
  <1>2. CASE /\ \A i \in DOMAIN run[r].cases : Resolved(r, run[r].cases[i].scenario)
             /\ Become(r, [run[r] EXCEPT !.at = "invoke"])
    <2> DEFINE p == [run[r] EXCEPT !.at = "invoke"]
    <2>1. /\ run[r] \in Progress /\ Counted(run[r]) /\ Phased(run[r])
          /\ Honest(r, run[r]) /\ run[r].at = "check"
      BY DEF Runs, Sound, CheckMissing, At
    <2>2. p \in Progress
      BY <2>1 DEF Progress
    <2>3. /\ p.at = "invoke" /\ p.seen = run[r].seen
          /\ p.cases = run[r].cases /\ p.runs = run[r].runs
          /\ p.next = 1 /\ p.tries = 0 /\ p.correct = run[r].correct
          /\ p.slips = 0 /\ p.results = <<>> /\ p.exit = run[r].exit
          /\ p.cases # <<>>
      BY <2>1 DEF Progress, Phased
    <2>4. Become(r, p)
      BY <1>2
    <2>5. \A i \in DOMAIN run[r].cases : run[r].cases[i].scenario \in Keys
      BY <1>2 DEF Resolved
    <2> HIDE DEF p
    <2>6. p.next \in DOMAIN p.cases
      <3>1. p.cases \in Datasets \cup {Golden, <<>>}
        BY <2>2 DEF Progress
      <3>2. CASE p.cases \in Datasets \cup {Golden}
        <4>1. p.cases \in Seq(Range(p.cases))
          BY <3>2, EvaluationAssumption
        <4>2. QED
          BY <2>3, <4>1
      <3>3. QED
        BY <2>3, <3>1, <3>2
    <2>7. Counted(p) /\ Phased(p) /\ SlipsKept(p) /\ Honest(r, p)
      BY <2>1, <2>3, <2>5, <2>6 DEF Counted, Phased, SlipsKept, Honest
    <2>8. QED
      BY <2>2, <2>3, <2>4, <2>7 DEF Sound, Late
  <1>3. QED
    BY <1>1, <1>2 DEF CheckMissing

(* One more run of a case: what SlipsKept keeps track of while it is run.    *)
LEMMA ScoreSound ==
    ASSUME Runs, NEW r \in Runners, run[r].at \in {"invoke", "profile"},
           NEW verdict, Score(r, verdict)
    PROVE  \E p : Become(r, p) /\ Sound(r, p) /\ Late(r, p)
  <1> DEFINE hit == Hit(r, verdict)
             slip == Slip(r, verdict)
             old == run[r]
  <1>1. /\ old \in Progress /\ Counted(old) /\ Phased(old) /\ SlipsKept(old)
        /\ Honest(r, old)
    BY DEF Runs, Sound
  <1>2. /\ old.next \in DOMAIN old.cases /\ Len(old.results) = old.next - 1
        /\ \A i \in DOMAIN old.cases : old.cases[i].scenario \in Keys
        /\ old.exit # 0
    BY <1>1 DEF Phased
  <1>3. /\ hit \in {0, 1} /\ slip \in {0, 1}
        /\ slip = 1 => hit = 0 /\ old.cases[old.next].verdict # Unlabelled
    BY DEF Hit, Slip, Case
  <1>4. /\ old.tries \in Nat /\ old.runs \in Nat /\ old.correct \in Nat
        /\ old.slips \in Nat /\ old.next \in Nat /\ old.next > 0
        /\ old.tries < old.runs /\ old.correct <= old.tries
    BY <1>1 DEF Progress, Counted
  <1>5. Len(old.cases) \in Nat /\ DOMAIN old.cases = 1 .. Len(old.cases)
    <2>1. old.cases \in Datasets \cup {Golden, <<>>}
      BY <1>1 DEF Progress
    <2>2. QED
      BY <2>1, CasesTypes
  <1>6. CASE /\ ~LastRun(r)
             /\ Become(r, [run[r] EXCEPT !.at = "invoke", !.tries = @ + 1,
                                         !.correct = @ + hit, !.slips = @ + slip])
    <2> DEFINE p == [run[r] EXCEPT !.at = "invoke", !.tries = @ + 1,
                                   !.correct = @ + hit, !.slips = @ + slip]
    <2>1. Become(r, p)
      BY <1>6
    <2>2. p \in Progress
      <3>1. /\ old.tries + 1 \in Nat /\ old.correct + hit \in Nat
            /\ old.slips + slip \in Nat
        BY <1>3, <1>4
      <3> HIDE DEF hit, slip
      <3>2. QED
        BY <1>1, <3>1 DEF Progress
    <2>3. /\ p.at = "invoke" /\ p.seen = old.seen
          /\ p.cases = old.cases /\ p.runs = old.runs
          /\ p.next = old.next /\ p.tries = old.tries + 1
          /\ p.correct = old.correct + hit /\ p.slips = old.slips + slip
          /\ p.results = old.results /\ p.exit = old.exit
      <3> HIDE DEF hit, slip
      <3>1. QED
        BY <1>1 DEF Progress
    <2>4. old.tries + 1 < old.runs
      BY <1>4, <1>6 DEF LastRun
    <2> HIDE DEF p, hit, slip
    <2>5. Counted(p) /\ Phased(p) /\ Honest(r, p)
      BY <1>1, <1>2, <1>3, <1>4, <2>3, <2>4 DEF Counted, Phased, Honest
    <2>6. SlipsKept(p)
      <3>1. CASE slip = 1
        BY <1>3, <1>4, <2>3, <3>1 DEF SlipsKept
      <3>2. CASE slip = 0 /\ old.slips > 0
        <4>1. \/ Flawed(old)
              \/ old.cases[old.next].verdict # Unlabelled /\ old.correct < old.tries
          BY <1>1, <3>2 DEF SlipsKept
        <4>2. CASE Flawed(old)
          BY <2>3, <4>2 DEF Flawed, SlipsKept
        <4>3. CASE old.cases[old.next].verdict # Unlabelled /\ old.correct < old.tries
          BY <1>3, <1>4, <2>3, <4>3 DEF SlipsKept
        <4>4. QED
          BY <4>1, <4>2, <4>3
      <3>3. CASE slip = 0 /\ old.slips = 0
        BY <2>3, <3>3 DEF SlipsKept
      <3>4. QED
        BY <1>3, <1>4, <3>1, <3>2, <3>3
    <2>7. QED
      BY <2>1, <2>2, <2>3, <2>5, <2>6 DEF Sound, Late
  <1> DEFINE result == [scenario |-> Scenario(r), correct |-> run[r].correct + hit,
                        labelled |-> Case(r).verdict # Unlabelled]
             place == IF run[r].next < Len(run[r].cases) THEN "invoke" ELSE "report"
  <1>7. CASE /\ LastRun(r)
             /\ Become(r, [run[r] EXCEPT
                   !.at = place, !.next = @ + 1, !.tries = 0, !.correct = 0,
                   !.slips = @ + slip, !.results = Append(@, result)])
    <2> DEFINE p == [run[r] EXCEPT
                       !.at = place, !.next = @ + 1, !.tries = 0, !.correct = 0,
                       !.slips = @ + slip, !.results = Append(@, result)]
    <2>1. Become(r, p)
      BY <1>7
    <2>2. /\ result \in [scenario : Keys, correct : Nat, labelled : BOOLEAN]
          /\ result.correct = old.correct + hit
          /\ result.labelled = (old.cases[old.next].verdict # Unlabelled)
      <3>1. Scenario(r) \in Keys /\ old.correct + hit \in Nat
        BY <1>2, <1>3, <1>4 DEF Scenario, Case
      <3> HIDE DEF hit
      <3>2. QED
        BY <3>1 DEF Case
    <2>3. /\ place \in {"invoke", "report"}
          /\ place = "invoke" <=> old.next < Len(old.cases)
      OBVIOUS
    <2> HIDE DEF hit, slip, result, place
    <2>4. old.results \in Seq([scenario : Keys, correct : Nat, labelled : BOOLEAN])
      BY <1>1 DEF Progress
    <2>5. /\ Append(old.results, result) \in
                Seq([scenario : Keys, correct : Nat, labelled : BOOLEAN])
          /\ Len(Append(old.results, result)) = old.next
          /\ DOMAIN Append(old.results, result) = 1 .. old.next
          /\ DOMAIN old.results = 1 .. old.next - 1
          /\ \A i \in 1 .. old.next - 1 :
                Append(old.results, result)[i] = old.results[i]
          /\ Append(old.results, result)[old.next] = result
      BY <1>2, <1>4, <2>2, <2>4
    <2>6. p \in Progress
      <3>1. /\ old.next + 1 \in Nat \ {0} /\ old.slips + slip \in Nat
            /\ 0 \in Nat
            /\ place \in {"start", "truncate", "build", "resolve", "check", "invoke",
                          "profile", "report", "done", "aborted"}
        BY <1>3, <1>4, <2>3
      <3>2. QED
        BY <1>1, <2>5, <3>1 DEF Progress
    <2>7. /\ p.at = place /\ p.seen = old.seen
          /\ p.cases = old.cases /\ p.runs = old.runs
          /\ p.next = old.next + 1 /\ p.tries = 0
          /\ p.correct = 0 /\ p.slips = old.slips + slip
          /\ p.results = Append(old.results, result) /\ p.exit = old.exit
      BY <1>1 DEF Progress
    <2>8. old.tries + 1 = old.runs
      BY <1>7 DEF LastRun
    <2> HIDE DEF p
    <2>9. old.next \in DOMAIN p.results /\ p.results[old.next] = result
      BY <1>4, <2>5, <2>7
    <2>10. ASSUME NEW i \in DOMAIN old.results
           PROVE  i \in DOMAIN p.results /\ p.results[i] = old.results[i]
      <3>1. i \in 1 .. old.next - 1
        BY <2>5
      <3>2. i \in 1 .. old.next
        BY <1>4, <3>1
      <3>3. i \in DOMAIN p.results
        BY <2>5, <2>7, <3>2
      <3>4. p.results[i] = old.results[i]
        BY <2>5, <2>7, <3>1
      <3> QED BY <3>3, <3>4
    <2>11. ASSUME NEW i \in DOMAIN p.results, i # old.next
           PROVE  i \in DOMAIN old.results /\ p.results[i] = old.results[i]
      <3>1. i \in 1 .. old.next
        BY <2>5, <2>7
      <3>2. i \in 1 .. old.next - 1
        BY <1>4, <2>11, <3>1
      <3> QED BY <2>5, <2>7, <3>2
    <2>12. Counted(p)
      <3>1. p.tries < p.runs /\ p.correct <= p.tries
        BY <1>4, <2>7
      <3>2. Len(p.results) <= Len(p.cases)
        BY <1>2, <1>5, <2>5, <2>7
      <3>3. ASSUME NEW i \in DOMAIN p.results PROVE p.results[i].correct <= p.runs
        <4>1. CASE i = old.next
          <5>1. p.results[i].correct = old.correct + hit
            <6>1. p.results[i] = result
              BY <2>9, <4>1
            <6> QED BY <2>2, <6>1
          <5>2. old.correct + hit <= old.runs
            BY <1>3, <1>4, <2>8
          <5>3. QED
            BY <2>7, <5>1, <5>2
        <4>2. CASE i # old.next
          <5>1. i \in DOMAIN old.results /\ p.results[i] = old.results[i]
            BY <2>11, <4>2
          <5>2. QED
            BY <1>1, <2>7, <5>1 DEF Counted
        <4>3. QED
          BY <4>1, <4>2
      <3>4. QED
        BY <3>1, <3>2, <3>3 DEF Counted
    <2>13. Phased(p) /\ Honest(r, p)
      <3>1. p.at = "invoke" => p.next \in DOMAIN p.cases
        BY <1>4, <1>5, <2>3, <2>7
      <3>2. Len(p.results) = p.next - 1
        BY <1>4, <2>5, <2>7
      <3>3. QED
        BY <1>2, <2>3, <2>7, <3>1, <3>2 DEF Phased, Honest
    <2>14. SlipsKept(p)
      <3> SUFFICES ASSUME p.slips > 0 PROVE Flawed(p)
        BY DEF SlipsKept
      <3>1. CASE old.slips > 0 /\ Flawed(old)
        <4>1. PICK i \in DOMAIN old.results :
                 old.results[i].labelled /\ old.results[i].correct < old.runs
          BY <3>1 DEF Flawed
        <4>2. i \in DOMAIN p.results /\ p.results[i] = old.results[i]
          BY <2>10, <4>1
        <4>3. QED
          BY <2>7, <4>1, <4>2 DEF Flawed
      <3>2. CASE /\ old.cases[old.next].verdict # Unlabelled
                 /\ old.correct + hit < old.runs
        <4>1. /\ p.results[old.next].labelled
              /\ p.results[old.next].correct < p.runs
          <5>1. result.labelled /\ result.correct < p.runs
            BY <2>2, <2>7, <3>2
          <5> QED BY <2>9, <5>1
        <4>2. QED
          BY <2>9, <4>1 DEF Flawed
      <3>3. CASE slip = 1
        BY <1>3, <1>4, <3>2, <3>3
      <3>4. CASE slip = 0
        <4>1. old.slips > 0
          BY <1>3, <1>4, <2>7, <3>4
        <4>2. \/ Flawed(old)
              \/ old.cases[old.next].verdict # Unlabelled /\ old.correct < old.tries
          BY <1>1, <4>1 DEF SlipsKept
        <4>3. QED
          BY <1>3, <1>4, <2>8, <3>1, <3>2, <4>1, <4>2
      <3>5. QED
        BY <1>3, <3>3, <3>4
    <2>15. QED
      BY <2>1, <2>3, <2>6, <2>7, <2>12, <2>13, <2>14 DEF Sound, Late
  <1>8. QED
    BY <1>6, <1>7 DEF Score

(* Each way of running a case is one more run, or its first half. *)
LEMMA CaseSound ==
    ASSUME Runs, NEW r \in Runners,
           Invoke(r) \/ GetTransactionContext(r) \/ GetSellerRiskProfile(r)
    PROVE  \E p : Become(r, p) /\ Sound(r, p) /\ Late(r, p)
  <1>1. CASE \E verdict : run[r].at \in {"invoke", "profile"} /\ Score(r, verdict)
    BY <1>1, ScoreSound
  <1>2. CASE run[r].at = "invoke" /\ Become(r, [run[r] EXCEPT !.at = "profile"])
    <2> DEFINE p == [run[r] EXCEPT !.at = "profile"]
    <2>1. /\ run[r] \in Progress /\ Counted(run[r]) /\ Phased(run[r])
          /\ SlipsKept(run[r]) /\ Honest(r, run[r])
      BY DEF Runs, Sound
    <2>2. p \in Progress
      BY <2>1 DEF Progress
    <2>3. /\ p.at = "profile" /\ p.seen = run[r].seen
          /\ p.cases = run[r].cases /\ p.runs = run[r].runs
          /\ p.next = run[r].next /\ p.tries = run[r].tries
          /\ p.correct = run[r].correct /\ p.slips = run[r].slips
          /\ p.results = run[r].results /\ p.exit = run[r].exit
      BY <2>1 DEF Progress
    <2>4. Become(r, p)
      BY <1>2
    <2> HIDE DEF p
    <2>5. Counted(p) /\ Phased(p) /\ SlipsKept(p) /\ Honest(r, p)
      BY <1>2, <2>1, <2>3 DEF Counted, Phased, SlipsKept, Flawed, Honest
    <2>6. QED
      BY <2>2, <2>3, <2>4, <2>5 DEF Sound, Late
  <1>3. CASE Invoke(r)
    BY <1>1, <1>3 DEF Invoke, At
  <1>4. CASE GetTransactionContext(r)
    BY <1>1, <1>2, <1>4 DEF GetTransactionContext, At
  <1>5. CASE GetSellerRiskProfile(r)
    BY <1>1, <1>5 DEF GetSellerRiskProfile, At
  <1>6. QED
    BY <1>3, <1>4, <1>5

(* As many cases passed as were scored: then no scored case is flawed.       *)
LEMMA ReportSound ==
    ASSUME Runs, NEW r \in Runners, Report(r)
    PROVE  \E p : Become(r, p) /\ Sound(r, p) /\ Late(r, p)
  <1> DEFINE old == run[r]
             scored == {i \in DOMAIN old.results : old.results[i].labelled}
             passed == {i \in scored : Passed(old.results[i], old.runs)}
             clean == r \in Mocked \/ Cardinality(passed) = Cardinality(scored)
             p == [old EXCEPT !.at = "done", !.exit = IF clean THEN 0 ELSE 1]
  <1>1. /\ old \in Progress /\ Counted(old) /\ SlipsKept(old) /\ old.at = "report"
    BY DEF Runs, Sound, Report, At
  <1>2. Become(r, p)
    BY DEF Report
  <1>3. ASSUME r \notin Mocked, clean PROVE old.slips = 0
    <2>1. IsFiniteSet(scored)
      <3>1. /\ Len(old.results) \in Nat
            /\ DOMAIN old.results = 1 .. Len(old.results)
        BY <1>1 DEF Progress
      <3>2. \A n \in Nat : IsFiniteSet(1 .. n)
        BY FS_Interval
      <3>3. scored \in SUBSET (1 .. Len(old.results))
        BY <3>1
      <3>4. QED
        BY <3>1, <3>2, <3>3, FS_Subset
    <2>2. passed \in SUBSET scored
      OBVIOUS
    <2>3. Cardinality(scored) = Cardinality(passed)
      BY <1>3
    <2>4. scored = passed
      <3> HIDE DEF scored, passed
      <3>1. QED
        BY <2>1, <2>2, <2>3, FS_Subset
    <2>5. ~Flawed(old)
      <3>1. SUFFICES ASSUME NEW i \in scored PROVE ~(old.results[i].correct < old.runs)
        BY DEF Flawed
      <3>2. old.results[i].correct = old.runs
        BY <2>4 DEF Passed
      <3>3. old.runs \in Nat
        BY <1>1 DEF Progress
      <3>4. QED
        BY <3>2, <3>3
    <2>6. old.slips \in Nat
      BY <1>1 DEF Progress
    <2>7. QED
      BY <1>1, <2>5, <2>6 DEF SlipsKept
  <1> HIDE DEF clean
  <1>4. p \in Progress
    <2>1. (IF clean THEN 0 ELSE 1) \in 0 .. 2
      OBVIOUS
    <2>2. QED
      BY <1>1, <2>1 DEF Progress
  <1>5. /\ p.at = "done" /\ p.seen = old.seen
        /\ p.cases = old.cases /\ p.runs = old.runs
        /\ p.next = old.next /\ p.tries = old.tries
        /\ p.correct = old.correct /\ p.slips = old.slips
        /\ p.results = old.results /\ p.exit = (IF clean THEN 0 ELSE 1)
    BY <1>1 DEF Progress
  <1> HIDE DEF p
  <1>6. Counted(p) /\ Phased(p) /\ SlipsKept(p) /\ Honest(r, p)
    BY <1>1, <1>3, <1>5 DEF Counted, Phased, SlipsKept, Honest
  <1>7. QED
    BY <1>2, <1>4, <1>5, <1>6 DEF Sound, Late

-------------------------------------------------------------------------------
(* Fixtures.  A runner builds each scenario at most once, so a fixture that  *)
(* is gone does not come back with the same owner.                           *)
MayBuild(o, k) ==
    \/ At(o, "start") \/ At(o, "truncate")
    \/ At(o, "build") /\ \E i \in run[o].next .. Len(Builders) : Builders[i] = k

Owned ==
    \A k \in Keys :
        LET f == fixture[k]
        IN  IF f.parts = {} THEN f.owner = Nobody
                            ELSE f.owner \in Runners /\ ~MayBuild(f.owner, k)

SeenBuilt ==
    \A r \in Runners, part \in Parts, k \in Keys, o \in Runners :
        <<k, o>> \in run[r].seen[part] => ~MayBuild(o, k)

(* Transactions are looked up before accounts: of a fixture that is still    *)
(* there, whoever has seen the transactions has seen the accounts.           *)
SeenWhole ==
    \A r \in Runners, k \in Keys :
        /\ At(r, "truncate") /\ run[r].reads = <<>>
        /\ <<k, fixture[k].owner>> \in run[r].seen["transactions"]
        => <<k, fixture[k].owner>> \in run[r].seen["accounts"]

Tables ==
    /\ fixture \in [Keys -> [owner : Runners \cup {Nobody}, born : Clock,
                             parts : SUBSET Parts]]
    /\ platform \in BOOLEAN /\ hours \in Clock

IInv == Runs /\ Tables /\ WholeOrGone /\ Owned /\ SeenBuilt /\ SeenWhole

(* What every step of a runner changes, and what it leaves to the others.    *)
LEMMA Others ==
    ASSUME Runs, NEW r \in Runners, NEW p, Become(r, p), Sound(r, p)
    PROVE  /\ Runs' /\ run'[r] = p
           /\ \A u \in Runners \ {r} : run'[u] = run[u]
  <1>1. run' \in [Runners -> Progress] /\ run'[r] = p
        /\ \A u \in Runners \ {r} : run'[u] = run[u]
    BY DEF Runs, Become, Sound
  <1>2. QED
    BY <1>1 DEF Runs

(* A step after which a runner builds nothing that it did not before.        *)
LEMMA KeepsSeen ==
    ASSUME Runs, SeenBuilt, NEW r \in Runners, NEW p, Become(r, p), Sound(r, p),
           p.seen \in {run[r].seen, Waiting.seen},
           \A k \in Keys : MayBuild(r, k)' => MayBuild(r, k)
    PROVE  /\ SeenBuilt'
           /\ \A o \in Runners, k \in Keys : MayBuild(o, k)' => MayBuild(o, k)
  <1>1. /\ run'[r] = p /\ \A u \in Runners \ {r} : run'[u] = run[u]
    BY Others
  <1>2. \A o \in Runners, k \in Keys : MayBuild(o, k)' => MayBuild(o, k)
    BY <1>1 DEF MayBuild, At
  <1>3. \A u \in Runners, part \in Parts :
           run'[u].seen[part] \subseteq run[u].seen[part]
    BY <1>1 DEF Waiting
  <1>4. QED
    BY <1>2, <1>3 DEF SeenBuilt

(* The steps that touch no row and look up none. *)
LEMMA QuietInv ==
    ASSUME IInv, NEW r \in Runners, NEW p, Become(r, p), Sound(r, p),
           UNCHANGED <<fixture, platform, hours>>,
           p.seen \in {run[r].seen, Waiting.seen},
           p.at = "truncate" => p.reads # <<>>,
           \A k \in Keys : MayBuild(r, k)' => MayBuild(r, k)
    PROVE  IInv'
  <1> USE DEF IInv
  <1>1. Runs' /\ run'[r] = p /\ \A u \in Runners \ {r} : run'[u] = run[u]
    BY Others
  <1>2. SeenBuilt' /\ \A o \in Runners, k \in Keys : MayBuild(o, k)' => MayBuild(o, k)
    BY KeepsSeen
  <1>3. Tables' /\ WholeOrGone'
    BY DEF Tables, WholeOrGone
  <1>4. Owned'
    BY <1>2 DEF Owned
  <1>5. SeenWhole'
    BY <1>1 DEF SeenWhole, At
  <1>6. QED
    BY <1>1, <1>2, <1>3, <1>4, <1>5

(* From the guard on a runner touches no row, so its steps need no more. *)
LEMMA LateInv ==
    ASSUME IInv, NEW r \in Runners,
           \E p : Become(r, p) /\ Sound(r, p) /\ Late(r, p),
           UNCHANGED <<fixture, platform, hours>>
    PROVE  IInv'
  <1>1. PICK p : Become(r, p) /\ Sound(r, p) /\ Late(r, p)
    OBVIOUS
  <1>2. run'[r] = p
    BY <1>1, Others DEF IInv
  <1>3. \A k \in Keys : ~MayBuild(r, k)'
    BY <1>1, <1>2 DEF MayBuild, At, Late
  <1>4. QED
    BY <1>1, <1>3, QuietInv DEF Late

(* A runner that starts has looked up nothing and built nothing. *)
LEMMA StartInv ==
    ASSUME IInv, NEW r \in Runners, Start(r)
    PROVE  IInv'
  <1>1. PICK p : /\ Become(r, p) /\ Sound(r, p)
                 /\ p.seen \in {run[r].seen, Waiting.seen}
                 /\ p.at = "truncate" => p.reads # <<>>
    BY StartSound DEF IInv
  <1>2. \A k \in Keys : MayBuild(r, k)
    BY DEF MayBuild, Start
  <1>3. QED
    BY <1>1, <1>2, QuietInv DEF Start

(* Looking the accounts up: they are there with the transactions.            *)
LEMMA ReadMarkedInv ==
    ASSUME IInv, NEW r \in Runners, ReadMarked(r)
    PROVE  IInv'
  <1> USE DEF IInv
  <1>1. \A part \in Parts : Marked(part) \subseteq Keys \X Runners
    BY DEF Marked, Owned
  <1>2. PICK p : /\ Become(r, p) /\ Sound(r, p)
                 /\ p.at = "truncate" /\ p.reads = Tail(run[r].reads)
                 /\ p.seen = [run[r].seen EXCEPT ![Head(run[r].reads)] =
                                                   Marked(Head(run[r].reads))]
    BY <1>1, ReadMarkedSound
  <1>3. Runs' /\ run'[r] = p /\ \A u \in Runners \ {r} : run'[u] = run[u]
    BY <1>2, Others
  <1>4. \A o \in Runners, k \in Keys : MayBuild(o, k)' => MayBuild(o, k)
    <2>1. \A k \in Keys : MayBuild(r, k)
      BY DEF MayBuild, ReadMarked
    <2>2. QED
      BY <1>3, <2>1 DEF MayBuild, At
  <1>5. /\ Tables' /\ WholeOrGone' /\ fixture' = fixture
    BY DEF Tables, WholeOrGone, ReadMarked
  <1>6. Owned'
    BY <1>4, <1>5 DEF Owned
  <1>7. /\ run[r].seen \in [Parts -> SUBSET (Keys \X Runners)]
        /\ run[r].reads \in {<<"transactions", "accounts">>, <<"accounts">>}
    BY DEF Runs, Sound, Phased, Progress, ReadMarked, At
  <1>8. SeenBuilt'
    <2> SUFFICES ASSUME NEW u \in Runners, NEW part \in Parts, NEW k \in Keys,
                        NEW o \in Runners, <<k, o>> \in run'[u].seen[part]
                 PROVE  ~MayBuild(o, k)
      BY <1>4 DEF SeenBuilt
    <2>1. CASE <<k, o>> \in run[u].seen[part]
      BY <2>1 DEF SeenBuilt
    <2>2. CASE <<k, o>> \notin run[u].seen[part]
      <3>1. u = r /\ <<k, o>> \in Marked(part)
        BY <1>2, <1>3, <1>7, <2>2
      <3>2. fixture[k].owner = o /\ part \in fixture[k].parts
        BY <3>1 DEF Marked
      <3>3. QED
        BY <3>2 DEF Owned
    <2>3. QED
      BY <2>1, <2>2
  <1>9. SeenWhole'
    <2> SUFFICES ASSUME NEW u \in Runners, NEW k \in Keys, At(u, "truncate")',
                        run'[u].reads = <<>>,
                        <<k, fixture[k].owner>> \in run'[u].seen["transactions"]
                 PROVE  <<k, fixture[k].owner>> \in run'[u].seen["accounts"]
      BY <1>5 DEF SeenWhole
    <2>1. CASE u # r
      BY <1>3, <2>1 DEF SeenWhole, At
    <2>2. CASE u = r
      <3>1. run[r].reads = <<"accounts">>
        <4>1. Tail(<<"transactions", "accounts">>) # <<>>
          OBVIOUS
        <4>2. QED
          BY <1>2, <1>3, <1>7, <2>2, <4>1
      <3>2. Head(run[r].reads) = "accounts"
        BY <3>1
      <3>3. /\ run'[r].seen["accounts"] = Marked("accounts")
            /\ run'[r].seen["transactions"] = run[r].seen["transactions"]
        BY <1>2, <1>3, <1>7, <3>2 DEF Parts
      <3>4. fixture[k].owner \in Runners
        BY <1>7, <2>2, <3>3 DEF Parts
      <3>5. fixture[k].parts = Parts
        BY <3>4, EvaluationAssumption DEF Owned, WholeOrGone
      <3>6. QED
        BY <2>2, <3>3, <3>5 DEF Marked, Parts
    <2>3. QED
      BY <2>1, <2>2
  <1>10. QED
    BY <1>3, <1>5, <1>6, <1>8, <1>9

(* What is deleted is a whole fixture: its accounts alone PostgreSQL keeps,  *)
(* and whoever has seen its transactions has seen its accounts.              *)
LEMMA TruncateWhole ==
    ASSUME IInv, NEW r \in Runners, Truncate(r), ~Restricted(r), NEW k \in Keys
    PROVE  fixture'[k] \in {Gone, fixture[k]}
  <1> DEFINE f == fixture[k]
  <1>1. /\ f \in [owner : Runners \cup {Nobody}, born : Clock, parts : SUBSET Parts]
        /\ f.parts \in {{}, Parts}
    BY DEF IInv, Tables, WholeOrGone
  <1>2. fixture'[k] = IF Remains(r, k) = {} THEN Gone
                      ELSE [f EXCEPT !.parts = Remains(r, k)]
    BY DEF Truncate
  <1>3. Remains(r, k) \in {{}, f.parts}
    <2>1. CASE f.parts = {}
      BY <2>1 DEF Remains
    <2>2. CASE f.parts = Parts
      <3>1. "accounts" \notin Remains(r, k) => "transactions" \notin Remains(r, k)
        BY <2>2 DEF Restricted, Parts
      <3>2. "transactions" \notin Remains(r, k) => "accounts" \notin Remains(r, k)
        BY <2>2 DEF IInv, SeenWhole, Truncate, Remains, Parts
      <3>3. Remains(r, k) \subseteq Parts
        BY <2>2 DEF Remains
      <3>4. QED
        BY <2>2, <3>1, <3>2, <3>3 DEF Parts
    <2>3. QED
      BY <1>1, <2>1, <2>2
  <1>4. [f EXCEPT !.parts = f.parts] = f
    BY <1>1
  <1>5. QED
    BY <1>2, <1>3, <1>4

(* The DELETE takes a fixture as a whole, or fails. *)
LEMMA TruncateInv ==
    ASSUME IInv, NEW r \in Runners, Truncate(r)
    PROVE  IInv'
  <1> USE DEF IInv
  <1>1. CASE Restricted(r)
    BY <1>1, AbortSound, LateInv DEF Truncate
  <1>2. CASE ~Restricted(r)
    <2>1. PICK p : /\ Become(r, p) /\ Sound(r, p)
                   /\ p.at = "build" /\ p.seen = Waiting.seen
      BY <1>2, TruncateSound
    <2>2. Runs' /\ run'[r] = p /\ \A u \in Runners \ {r} : run'[u] = run[u]
      BY <2>1, Others
    <2>3. \A k \in Keys : MayBuild(r, k)
      BY DEF MayBuild, Truncate
    <2>4. SeenBuilt' /\ \A o \in Runners, k \in Keys : MayBuild(o, k)' => MayBuild(o, k)
      BY <2>1, <2>3, KeepsSeen
    <2>5. \A k \in Keys : fixture'[k] \in {Gone, fixture[k]}
      BY <1>2, TruncateWhole
    <2>6. fixture' \in [Keys -> [owner : Runners \cup {Nobody}, born : Clock,
                                 parts : SUBSET Parts]]
      <3>1. Gone \in [owner : Runners \cup {Nobody}, born : Clock, parts : SUBSET Parts]
        BY EvaluationAssumption DEF Gone
      <3>2. \A k \in Keys : fixture'[k] \in
               [owner : Runners \cup {Nobody}, born : Clock, parts : SUBSET Parts]
        BY <2>5, <3>1 DEF Tables
      <3>3. DOMAIN fixture' = Keys /\ fixture' = [k \in Keys |-> fixture'[k]]
        BY <1>2 DEF Truncate
      <3>4. QED
        BY <3>2, <3>3
    <2>7. Tables' /\ WholeOrGone'
      BY <2>5, <2>6 DEF Tables, WholeOrGone, Gone, Truncate
    <2>8. Owned'
      BY <2>4, <2>5 DEF Owned, Gone
    <2>9. SeenWhole'
      <3> SUFFICES ASSUME NEW u \in Runners, NEW k \in Keys, At(u, "truncate")',
                          run'[u].reads = <<>>,
                          <<k, fixture'[k].owner>> \in run'[u].seen["transactions"]
                   PROVE  <<k, fixture'[k].owner>> \in run'[u].seen["accounts"]
        BY DEF SeenWhole
      <3>1. u # r /\ run'[u] = run[u]
        BY <2>1, <2>2 DEF At
      <3>2. run[u].seen \in [Parts -> SUBSET (Keys \X Runners)]
        BY DEF Runs, Progress
      <3>3. fixture'[k] # Gone
        BY <3>1, <3>2, EvaluationAssumption DEF Gone, Parts
      <3>4. QED
        BY <2>5, <3>1, <3>3 DEF SeenWhole, At
    <2>10. QED
      BY <2>2, <2>4, <2>7, <2>8, <2>9
  <1>3. QED
    BY <1>1, <1>2

(* A fixture is inserted by a runner that has not built it before.           *)
LEMMA BuildInv ==
    ASSUME IInv, NEW r \in Runners, Build(r)
    PROVE  IInv'
  <1> USE DEF IInv
  <1>1. CASE Abort(r) /\ UNCHANGED fixture
    BY <1>1, AbortSound, LateInv DEF Build
  <1>3. PICK turn \in Keys \cup {Turn(r)} : turn = Turn(r)
    OBVIOUS
  <1> DEFINE mapping == [run[r].mapping EXCEPT ![turn] = r]
  <1>2. CASE /\ fixture' = [fixture EXCEPT ![turn] =
                              [owner |-> r, born |-> hours, parts |-> Parts]]
             /\ Advance(r, "check", mapping)
    <2>1. /\ run[r].at = "build" /\ run[r].next \in DOMAIN Builders
          /\ run[r] \in Progress
      BY DEF Runs, Sound, Phased, Build, At
    <2>2. turn \in Keys /\ MayBuild(r, turn)
      <3>1. run[r].next \in run[r].next .. Len(Builders)
        BY <2>1, BuildersTypes
      <3>2. QED
        BY <1>3, <2>1, <3>1, BuildersTypes DEF Turn, MayBuild, At
    <2>3. mapping \in [Keys -> Runners \cup {Nobody}]
      BY <2>1, <2>2 DEF Progress
    <2> HIDE DEF mapping
    <2>4. PICK p : /\ Become(r, p) /\ Sound(r, p) /\ p.seen = run[r].seen
                   /\ \/ p.at = "check"
                      \/ p.at = run[r].at /\ p.next = run[r].next + 1
      BY <1>2, <2>1, <2>3, AdvanceSound
    <2>5. Runs' /\ run'[r] = p /\ \A u \in Runners \ {r} : run'[u] = run[u]
      BY <2>4, Others
    <2>6. \A k \in Keys : MayBuild(r, k)' => MayBuild(r, k)
      <3> SUFFICES ASSUME NEW k \in Keys, MayBuild(r, k)' PROVE MayBuild(r, k)
        OBVIOUS
      <3>1. PICK i \in run[r].next + 1 .. Len(Builders) : Builders[i] = k
        BY <2>1, <2>4, <2>5 DEF MayBuild, At
      <3>2. i \in run[r].next .. Len(Builders)
        BY <2>1, BuildersTypes
      <3>3. QED
        BY <2>1, <3>1, <3>2 DEF MayBuild, At
    <2>7. ~MayBuild(r, turn)'
      <3> SUFFICES ASSUME MayBuild(r, turn)' PROVE FALSE
        OBVIOUS
      <3>1. PICK i \in run[r].next + 1 .. Len(Builders) : Builders[i] = turn
        BY <2>1, <2>4, <2>5 DEF MayBuild, At
      <3>2. i \in DOMAIN Builders /\ i # run[r].next
        BY <2>1, BuildersTypes
      <3>3. QED
        BY <1>3, <2>1, <3>1, <3>2, EvaluationAssumption DEF Turn
    <2>8. SeenBuilt' /\ \A o \in Runners, k \in Keys : MayBuild(o, k)' => MayBuild(o, k)
      BY <2>4, <2>6, KeepsSeen
    <2>9. /\ fixture'[turn] = [owner |-> r, born |-> hours, parts |-> Parts]
          /\ \A k \in Keys \ {turn} : fixture'[k] = fixture[k]
      BY <1>2, <2>2 DEF Tables
    <2>10. Tables' /\ WholeOrGone'
      <3>1. [owner |-> r, born |-> hours, parts |-> Parts] \in
               [owner : Runners \cup {Nobody}, born : Clock, parts : SUBSET Parts]
        BY DEF Tables
      <3>2. fixture' \in [Keys -> [owner : Runners \cup {Nobody}, born : Clock,
                                   parts : SUBSET Parts]]
        BY <1>2, <3>1 DEF Tables
      <3>3. QED
        BY <2>9, <3>2 DEF Tables, WholeOrGone, Build
    <2>11. Owned'
      <3> SUFFICES ASSUME NEW k \in Keys
                   PROVE  /\ fixture'[k].parts = {} => fixture'[k].owner = Nobody
                          /\ fixture'[k].parts # {} =>
                                \E o \in Runners : fixture'[k].owner = o /\ ~MayBuild(o, k)'
        BY DEF Owned
      <3>1. CASE k = turn
        BY <2>7, <2>9, <3>1 DEF Parts
      <3>2. CASE k # turn
        BY <2>8, <2>9, <3>2 DEF Owned
      <3>3. QED
        BY <3>1, <3>2
    <2>12. SeenWhole'
      <3> SUFFICES ASSUME NEW u \in Runners, NEW k \in Keys, At(u, "truncate")',
                          run'[u].reads = <<>>,
                          <<k, fixture'[k].owner>> \in run'[u].seen["transactions"]
                   PROVE  <<k, fixture'[k].owner>> \in run'[u].seen["accounts"]
        BY DEF SeenWhole
      <3>1. u # r /\ run'[u] = run[u]
        BY <2>1, <2>4, <2>5 DEF At
      <3>2. k # turn
        BY <2>2, <2>9, <3>1 DEF SeenBuilt, Parts
      <3>3. QED
        BY <2>9, <3>1, <3>2 DEF SeenWhole, At
    <2>13. QED
      BY <2>5, <2>8, <2>10, <2>11, <2>12
  <1>4. QED
    BY <1>1, <1>2, <1>3 DEF Build

(* A runner without a seed looks its fixtures up and leaves them alone. *)
LEMMA ResolveInv ==
    ASSUME IInv, NEW r \in Runners, Resolve(r)
    PROVE  IInv'
  <1> DEFINE found == IF "transactions" \in fixture[Turn(r)].parts
                      THEN fixture[Turn(r)].owner ELSE Nobody
             mapping == [run[r].mapping EXCEPT ![Turn(r)] = found]
  <1>1. /\ run[r].at = "resolve" /\ run[r].next \in DOMAIN Builders
        /\ run[r] \in Progress /\ Runs
    BY DEF IInv, Runs, Sound, Phased, Resolve, At
  <1>2. Turn(r) \in Keys /\ found \in Runners \cup {Nobody}
    BY <1>1, BuildersTypes DEF Turn, IInv, Tables
  <1> HIDE DEF found
  <1>3. mapping \in [Keys -> Runners \cup {Nobody}]
    BY <1>1, <1>2 DEF Progress
  <1>4. Advance(r, "check", mapping)
    BY DEF Resolve, found
  <1> HIDE DEF mapping
  <1>5. PICK p : /\ Become(r, p) /\ Sound(r, p) /\ p.seen = run[r].seen
                 /\ \/ p.at = "check"
                    \/ p.at = run[r].at /\ p.next = run[r].next + 1
    BY <1>1, <1>3, <1>4, AdvanceSound
  <1>6. Late(r, p)
    BY <1>1, <1>5 DEF Late
  <1>7. QED
    BY <1>5, <1>6, LateInv DEF Resolve

-------------------------------------------------------------------------------
(* Nothing is built at first. *)
LEMMA InitInv == Init => IInv
  <1> SUFFICES ASSUME Init PROVE IInv
    OBVIOUS
  <1>1. Waiting \in Progress /\ Waiting.at = "start"
        /\ \A part \in Parts : Waiting.seen[part] = {}
    BY WaitingSound DEF Sound, Waiting
  <1>2. Runs
    BY <1>1, WaitingSound DEF Runs, Init
  <1>3. \A r \in Runners : run[r] = Waiting
    BY DEF Init
  <1>4. Tables /\ WholeOrGone /\ Owned
    BY EvaluationAssumption DEF Init, Tables, WholeOrGone, Owned, Gone
  <1>5. SeenBuilt /\ SeenWhole
    BY <1>1, <1>3 DEF SeenBuilt, SeenWhole, At
  <1>6. QED
    BY <1>2, <1>4, <1>5 DEF IInv

(* Every step of every runner, death and the clock keep the invariant. *)
LEMMA StepInv ==
    ASSUME IInv, [Next]_vars
    PROVE  IInv'
  <1>1. CASE Tick \/ UNCHANGED vars
    <2>1. /\ run' = run /\ fixture' = fixture /\ platform' = platform
          /\ hours' \in Clock
      BY <1>1 DEF Tick, vars, IInv, Tables
    <2>2. \A o, k : MayBuild(o, k)' <=> MayBuild(o, k)
      BY <2>1 DEF MayBuild, At
    <2>3. Runs' /\ Tables' /\ WholeOrGone'
      BY <2>1 DEF IInv, Runs, Tables, WholeOrGone
    <2>4. Owned' /\ SeenBuilt' /\ SeenWhole'
      BY <2>1, <2>2 DEF IInv, Owned, SeenBuilt, SeenWhole, At
    <2>5. QED
      BY <2>3, <2>4 DEF IInv
  <1>2. ASSUME NEW r \in Runners, Step(r) PROVE IInv'
    <2>1. CASE CheckMissing(r)
      BY <2>1, CheckMissingSound, LateInv DEF IInv, CheckMissing
    <2>2. CASE Invoke(r) \/ GetTransactionContext(r) \/ GetSellerRiskProfile(r)
      <3>1. UNCHANGED <<fixture, platform, hours>>
        BY <2>2 DEF Invoke, GetTransactionContext, GetSellerRiskProfile
      <3>2. QED
        BY <2>2, <3>1, CaseSound, LateInv DEF IInv
    <2>3. CASE Report(r)
      BY <2>3, ReportSound, LateInv DEF IInv, Report
    <2>4. QED
      BY <1>2, <2>1, <2>2, <2>3, StartInv, ReadMarkedInv, TruncateInv, BuildInv,
         ResolveInv DEF Step
  <1>3. ASSUME NEW r \in Runners, Kill(r) PROVE IInv'
    BY <1>3, AbortSound, LateInv DEF Kill
  <1>4. QED
    BY <1>1, <1>2, <1>3 DEF Next

(* The inductive invariant holds of every behaviour. *)
THEOREM EvaluationInvariance == Spec => []IInv
  BY InitInv, StepInv, PTL DEF Spec

(* eval/runner.py: a runner's counts stay within its runs and its cases,      *)
(* whatever the other runners do to its rows.                                 *)
THEOREM EvaluationTypeCorrect == Spec => []EvaluationTypeOK
  <1>1. IInv => EvaluationTypeOK
    BY DEF IInv, Runs, Tables, Sound, Counted, EvaluationTypeOK
  <1>2. QED
    BY <1>1, EvaluationInvariance, PTL

(* seed.py, _truncate_eval_fixtures: looking transactions up before accounts, *)
(* together with the foreign keys, leaves no half of a fixture behind.        *)
THEOREM NoOrphanRows == Spec => []WholeOrGone
  <1>1. IInv => WholeOrGone
    BY DEF IInv
  <1>2. QED
    BY <1>1, EvaluationInvariance, PTL

(* runner.py, "Only a clean sweep exits 0": every labelled case of such a     *)
(* runner was right in all of its runs.                                       *)
THEOREM ZeroMeansCleanSweep == Spec => []CleanSweep
  <1>1. IInv => CleanSweep
    BY DEF IInv, Runs, Sound, Honest, CleanSweep
  <1>2. QED
    BY <1>1, EvaluationInvariance, PTL

-------------------------------------------------------------------------------
(* Fixtures.  A burst has as many payouts as ages, all of one amount.        *)
LEMMA BurstCounts ==
    ASSUME NEW status, NEW amount \in Nat, NEW ages, IsFiniteSet(ages)
    PROVE  LET burst == Burst(status, amount, ages)
           IN  /\ IsFiniteSet(burst) /\ Cardinality(burst) = Cardinality(ages)
               /\ Total(burst) = amount * Cardinality(ages)
  <1> DEFINE burst == Burst(status, amount, ages)
             made == [h \in ages |-> Payout(status, amount, h)]
             amounts == [p \in burst |-> p.amount]
  <1>1. made \in Surjection(ages, burst)
    BY DEF Burst, Surjection
  <1>2. made \in Injection(ages, burst)
    BY DEF Burst, Injection, IsInjective, Payout
  <1>3. IsFiniteSet(burst) /\ Cardinality(burst) = Cardinality(ages)
    <2> HIDE DEF burst, made
    <2>1. QED
      BY <1>1, <1>2, FS_Surjection
  <1>4. \A p \in burst : amounts[p] = amount
    BY DEF Burst, Payout
  <1>5. Total(burst) = SumFunctionOnSet(amounts, burst)
    BY DEF Total, SumFunction
  <1>6. SumFunctionOnSet(amounts, burst) = amount * Cardinality(burst)
    <2> HIDE DEF burst, amounts
    <2>1. QED
      BY <1>3, <1>4, SumOfConstant
  <1>7. QED
    BY <1>3, <1>5, <1>6

(* The hours after which a fixture is still fresh.                           *)
Fresh == 0 .. 1

(* The profile of a fresh fixture: its payouts of the last day, and the rest *)
(* of its record.                                                            *)
HasProfile(f, velocity, volume, failed) ==
    \A h \in Fresh :
        LET p == RiskProfile(f, h)
        IN  /\ p.velocity = velocity /\ p.volume = volume /\ p.failed = failed
            /\ p.age = f.age /\ p.disputes = f.disputes

(* A history of a burst within the last day, and of older payouts.           *)
MadeOf(f, status, amount, ages, old) ==
    /\ f.age \in Nat /\ f.amount \in Nat /\ amount \in Nat
    /\ ages \in SUBSET (1 .. 22)
    /\ f.history = Burst(status, amount, ages) \cup old
    /\ \A p \in old : p.age \in Nat /\ p.age >= 24

Failures(f) == Cardinality({p \in f.history : p.status = "FAILED"})

(* Small sets, counted one by one. *)
LEMMA CountMore ==
    ASSUME NEW S, IsFiniteSet(S), NEW x, x \notin S, NEW T, T = S \cup {x}
    PROVE  IsFiniteSet(T) /\ Cardinality(T) = Cardinality(S) + 1
  BY FS_AddElement

(* The profile of a fixture with one burst: the payout itself counts, its amount does not. *)
LEMMA ProfileOf ==
    ASSUME NEW f, NEW status, NEW amount, NEW ages, NEW old,
           MadeOf(f, status, amount, ages, old)
    PROVE  HasProfile(f, Cardinality(ages) + 1, amount * Cardinality(ages), Failures(f))
  <1> DEFINE burst == Burst(status, amount, ages)
  <1> SUFFICES ASSUME NEW h \in Fresh
               PROVE  /\ RiskProfile(f, h).velocity = Cardinality(ages) + 1
                      /\ RiskProfile(f, h).volume = amount * Cardinality(ages)
                      /\ RiskProfile(f, h).failed = Failures(f)
                      /\ RiskProfile(f, h).age = f.age
                      /\ RiskProfile(f, h).disputes = f.disputes
    BY DEF HasProfile
  <1> USE DEF MadeOf, Fresh
  <1>1. IsFiniteSet(ages) /\ Cardinality(ages) \in Nat
    <2>1. \A n \in Nat : IsFiniteSet(1 .. n)
      BY FS_Interval
    <2>2. IsFiniteSet(1 .. 22)
      BY <2>1
    <2>3. IsFiniteSet(ages)
      BY <2>2, FS_Subset
    <2>4. QED
      BY <2>3, FS_CardinalityType
  <1>2. /\ IsFiniteSet(burst) /\ Cardinality(burst) = Cardinality(ages)
        /\ Total(burst) = amount * Cardinality(ages)
    BY <1>1, BurstCounts
  <1>3. \A p \in burst : p.age \in 1 .. 22
    BY DEF Burst, Payout
  <1>4. Main(f).age = 0
    BY DEF Main, Payout
  <1>5. InWindow(f, h) = burst \cup {Main(f)}
    <2> HIDE DEF burst
    <2>1. \A p \in burst \cup {Main(f)} : p.age + h < 24
      BY <1>3, <1>4
    <2>2. \A p \in old : ~(p.age + h < 24)
      OBVIOUS
    <2>3. f.history = burst \cup old
      BY DEF burst
    <2>4. QED
      BY <2>1, <2>2, <2>3 DEF InWindow
  <1>6. Main(f) \notin burst
    BY <1>3, <1>4
  <1> HIDE DEF burst
  <1>7. Cardinality(InWindow(f, h)) = Cardinality(burst) + 1
    BY <1>2, <1>5, <1>6, CountMore
  <1>8. InWindow(f, h) \ Excluded(f) = burst
    BY <1>5, <1>6 DEF Excluded
  <1>9. (24 * f.age + h) \div 24 = f.age
    OBVIOUS
  <1>10. QED
    BY <1>1, <1>2, <1>7, <1>8, <1>9 DEF RiskProfile, Failures

(* Two things are two. *)
LEMMA CountTwo ==
    ASSUME NEW a, NEW b, a # b
    PROVE  IsFiniteSet({a, b}) /\ Cardinality({a, b}) = 2
  <1> DEFINE one == {a}
             two == {a, b}
  <1>1. two = one \cup {b} /\ b \notin one
    OBVIOUS
  <1>2. IsFiniteSet(one) /\ Cardinality(one) = 1
    BY FS_Singleton
  <1> HIDE DEF one, two
  <1>3. IsFiniteSet(two) /\ Cardinality(two) = Cardinality(one) + 1
    BY <1>1, <1>2, CountMore
  <1>4. IsFiniteSet(two) /\ Cardinality(two) = 2
    BY <1>2, <1>3
  <1>5. QED
    BY <1>4 DEF two

(* Three are three. *)
LEMMA CountThree ==
    ASSUME NEW a, NEW b, NEW c, a # b, c \notin {a, b}
    PROVE  IsFiniteSet({a, b, c}) /\ Cardinality({a, b, c}) = 3
  <1> DEFINE two == {a, b}
             three == {a, b, c}
  <1>1. three = two \cup {c} /\ c \notin two
    OBVIOUS
  <1>2. IsFiniteSet(two) /\ Cardinality(two) = 2
    BY CountTwo
  <1> HIDE DEF two, three
  <1>3. IsFiniteSet(three) /\ Cardinality(three) = Cardinality(two) + 1
    BY <1>1, <1>2, CountMore
  <1>4. IsFiniteSet(three) /\ Cardinality(three) = 3
    BY <1>2, <1>3
  <1>5. QED
    BY <1>4 DEF three

(* Five are five, and none of them is counted twice. *)
LEMMA CountFive ==
    ASSUME NEW a, NEW b, NEW c, NEW d, NEW e, a # b, c \notin {a, b},
           d \notin {a, b, c}, e \notin {a, b, c, d}
    PROVE  Cardinality({a, b, c, d, e}) = 5
  <1> DEFINE three == {a, b, c}
             four == {a, b, c, d}
             five == {a, b, c, d, e}
  <1>1. /\ four = three \cup {d} /\ d \notin three
        /\ five = four \cup {e} /\ e \notin four
    OBVIOUS
  <1>2. IsFiniteSet(three) /\ Cardinality(three) = 3
    BY CountThree
  <1> HIDE DEF three, four, five
  <1>3. IsFiniteSet(four) /\ Cardinality(four) = Cardinality(three) + 1
    BY <1>1, <1>2, CountMore
  <1>4. Cardinality(five) = Cardinality(four) + 1
    BY <1>1, <1>3, CountMore
  <1>5. Cardinality(five) = 5
    BY <1>2, <1>3, <1>4
  <1>6. QED
    BY <1>5 DEF five

(* The volume burst has a payout every other hour, eleven in all. *)
LEMMA CountEleven == Cardinality({2 * i : i \in 1 .. 11}) = 11
  <1> DEFINE evens == {2 * i : i \in 1 .. 11}
             twice == [i \in 1 .. 11 |-> 2 * i]
  <1>1. twice \in Surjection(1 .. 11, evens) /\ twice \in Injection(1 .. 11, evens)
    BY DEF Surjection, Injection, IsInjective
  <1> HIDE DEF evens, twice
  <1>2. IsFiniteSet(1 .. 11) /\ Cardinality(1 .. 11) = 11
    <2>1. \A n \in Nat : n > 0 => IsFiniteSet(1 .. n) /\ Cardinality(1 .. n) = n
      BY FS_Interval
    <2>2. 11 \in Nat /\ 11 > 0
      OBVIOUS
    <2>3. QED
      BY <2>1, <2>2
  <1>3. Cardinality(evens) = 11
    BY <1>1, <1>2, FS_Surjection
  <1>4. QED
    BY <1>3 DEF evens

(* What the engine makes of a profile.                                       *)
Capped(raw) == IF raw > 100 THEN 100 ELSE raw

Raw(amount, velocity, volume, failed, age, disputes) ==
    (IF velocity >= 10 THEN 40 ELSE IF velocity >= 5 THEN 20 ELSE 0)
      + (IF amount >= 10000 THEN 50 ELSE IF amount >= 5000 THEN 20 ELSE 0)
      + (IF volume + amount >= 50000 THEN 40
         ELSE IF volume + amount >= 20000 THEN 15 ELSE 0)
      + (IF failed >= 5 THEN 50 ELSE IF failed >= 2 THEN 20 ELSE 0)
      + (IF age < 7 THEN 15 ELSE IF age < 30 THEN 5 ELSE 0)
      + (IF disputes >= 3 THEN 50 ELSE IF disputes >= 1 THEN 15 ELSE 0)

(* /explain adds up the six rules and caps the sum. *)
LEMMA ExplainedAs ==
    ASSUME NEW amount \in Nat, NEW p,
           p.velocity \in Nat, p.volume \in Nat, p.failed \in Nat, p.age \in Nat,
           p.disputes \in Nat
    PROVE  Evaluate(Explain(amount, p)) =
             Capped(Raw(amount, p.velocity, p.volume, p.failed, p.age, p.disputes))
  <1> DEFINE req == Explain(amount, p)
  <1>1. /\ req \in Requests /\ req.amount = amount /\ req.count24h = p.velocity
        /\ req.total24h = p.volume /\ req.failed = p.failed /\ req.age = p.age
        /\ req.disputes = p.disputes
    BY DEF Explain, Requests
  <1> HIDE DEF req
  <1>2. Evaluate(req) = IF RawScore(req) > 100 THEN 100 ELSE RawScore(req)
    BY DEF Evaluate
  <1>3. \A rule \in Rules : RuleScore(req, rule) \in Nat
    BY <1>1, Scores DEF Rules
  <1>4. RawScore(req) =
           RuleScore(req, "velocity") + RuleScore(req, "amount_threshold")
             + RuleScore(req, "daily_volume") + RuleScore(req, "failed_history")
             + RuleScore(req, "new_account") + RuleScore(req, "dispute_rate")
    BY <1>3, Sum DEF Rules
  <1>5. QED
    BY <1>1, <1>2, <1>4, Scores DEF Volume, Capped, Raw, req

(* The behavioural signals that the judge counts.                            *)
Signals(profile) ==
    {signal \in {"velocity", "age", "disputes", "failed"} :
        \/ signal = "velocity" /\ profile.velocity >= 5
        \/ signal = "age" /\ profile.age \in 1 .. 6
        \/ signal = "disputes" /\ profile.disputes >= 1
        \/ signal = "failed" /\ profile.failed >= 2}

(* What the judge counts is the number of the profile's signals. *)
LEMMA SignalsCounted ==
    ASSUME NEW profile
    PROVE  /\ Behavioural(profile) = Cardinality(Signals(profile))
           /\ IsFiniteSet(Signals(profile)) /\ Behavioural(profile) \in Nat
  <1>1. Behavioural(profile) = Cardinality(Signals(profile))
    BY DEF Behavioural, Signals
  <1>2. IsFiniteSet(Signals(profile))
    <2>1. IsFiniteSet({"velocity", "age"})
      BY CountTwo
    <2>2. IsFiniteSet({"velocity", "age"} \cup {"disputes"})
      BY <2>1, FS_AddElement
    <2>3. IsFiniteSet({"velocity", "age"} \cup {"disputes"} \cup {"failed"})
      BY <2>2, FS_AddElement
    <2>4. Signals(profile) \in
             SUBSET ({"velocity", "age"} \cup {"disputes"} \cup {"failed"})
      BY DEF Signals
    <2>5. QED
      BY <2>3, <2>4, FS_Subset
  <1>3. QED
    BY <1>1, <1>2, FS_CardinalityType

(* Two different signals are two. *)
LEMMA TwoSignals ==
    ASSUME NEW profile, NEW other, other # "velocity",
           {"velocity", other} \subseteq Signals(profile)
    PROVE  Behavioural(profile) >= 2
  <1>1. Cardinality({"velocity", other}) = 2
    BY CountTwo
  <1>2. Cardinality({"velocity", other}) <= Cardinality(Signals(profile))
    BY SignalsCounted, FS_Subset
  <1>3. QED
    BY <1>1, <1>2, SignalsCounted

(* A burst of paid payouts holds no failed one. *)
LEMMA NoneFailed ==
    ASSUME NEW amount, NEW ages
    PROVE  Cardinality({p \in Burst("PAID", amount, ages) : p.status = "FAILED"}) = 0
  <1>1. {p \in Burst("PAID", amount, ages) : p.status = "FAILED"} = {}
    BY DEF Burst, Payout
  <1>2. QED
    BY <1>1, FS_EmptySet

(* A history with two failed payouts has two, whatever is pending beside them. *)
LEMMA TwoFailed ==
    ASSUME NEW amount, NEW other, NEW ages, NEW history,
           history = Burst("FAILED", amount, {72, 96}) \cup Burst("PENDING", other, ages)
    PROVE  Cardinality({p \in history : p.status = "FAILED"}) = 2
  <1> DEFINE first == Payout("FAILED", amount, 72)
             second == Payout("FAILED", amount, 96)
  <1>1. {p \in history : p.status = "FAILED"} = {first, second}
    BY DEF Burst, Payout
  <1>2. first # second
    BY DEF Payout
  <1> HIDE DEF first, second
  <1>3. Cardinality({first, second}) = 2
    BY <1>2, CountTwo, Zenon
  <1>4. QED
    BY <1>1, <1>3

(* The profiles of the six fixtures: payouts of the day, their volume, failures. *)
LEMMA ProfileOfFraud == HasProfile(FraudConfirmedByHistory, 6, 60000, 0)
  <1> DEFINE f == FraudConfirmedByHistory
             ages == {4, 7, 10, 13, 16}
  <1>1. /\ f.age = 3 /\ f.amount = 45000 /\ f.history = Burst("PAID", 12000, ages)
    BY DEF FraudConfirmedByHistory, Fixture
  <1>2. MadeOf(f, "PAID", 12000, ages, {})
    BY <1>1 DEF MadeOf
  <1>3. Cardinality(ages) = 5
    <2>1. PICK a, b, c, d, e : a = 4 /\ b = 7 /\ c = 10 /\ d = 13 /\ e = 16
      OBVIOUS
    <2>2. a # b /\ c \notin {a, b} /\ d \notin {a, b, c} /\ e \notin {a, b, c, d}
      BY <2>1
    <2>3. Cardinality({a, b, c, d, e}) = 5
      BY <2>2, CountFive
    <2>4. QED
      BY <2>1, <2>3
  <1>4. Failures(f) = 0
    BY <1>1, NoneFailed DEF Failures
  <1> HIDE DEF f, ages
  <1>5. HasProfile(f, Cardinality(ages) + 1, 12000 * Cardinality(ages), Failures(f))
    BY <1>2, ProfileOf
  <1>6. QED
    BY <1>3, <1>4, <1>5 DEF f

(* Nothing but the payout under investigation, which adds no volume. *)
LEMMA ProfileOfHighScore == HasProfile(HighScoreCleanHistory, 1, 0, 0)
  <1> DEFINE f == HighScoreCleanHistory
  <1>1. f.age = 1460 /\ f.amount = 45000 /\ f.history = {}
    BY DEF HighScoreCleanHistory, Fixture
  <1>2. MadeOf(f, "PAID", 0, {}, {})
    BY <1>1 DEF MadeOf, Burst
  <1>3. Cardinality({}) = 0
    BY FS_EmptySet
  <1>4. Failures(f) = 0
    <2>1. {p \in f.history : p.status = "FAILED"} = {}
      BY <1>1
    <2>2. QED
      BY <1>3, <2>1 DEF Failures
  <1> HIDE DEF f
  <1>5. HasProfile(f, Cardinality({}) + 1, 0 * Cardinality({}), Failures(f))
    BY <1>2, ProfileOf
  <1>6. QED
    BY <1>3, <1>4, <1>5 DEF f

(* Five pending payouts and its own; the two failures are older and count all the same. *)
LEMMA ProfileOfPendingBurst == HasProfile(PendingBurstVolumeSpike, 6, 45000, 2)
  <1> DEFINE f == PendingBurstVolumeSpike
             ages == {2, 5, 8, 12, 18}
             old == Burst("FAILED", 8000, {72, 96})
  <1>1. /\ f.age = 210 /\ f.amount = 9000
        /\ f.history = old \cup Burst("PENDING", 9000, ages)
    BY DEF PendingBurstVolumeSpike, Fixture
  <1>2. MadeOf(f, "PENDING", 9000, ages, old)
    <2>1. \A p \in old : p.age \in Nat /\ p.age >= 24
      BY DEF Burst, Payout
    <2>2. ages \in SUBSET (1 .. 22)
      OBVIOUS
    <2> HIDE DEF f, ages, old
    <2>3. f.history = Burst("PENDING", 9000, ages) \cup old
      BY <1>1
    <2>4. QED
      BY <1>1, <2>1, <2>2, <2>3 DEF MadeOf
  <1>3. Cardinality(ages) = 5
    <2>1. PICK a, b, c, d, e : a = 2 /\ b = 5 /\ c = 8 /\ d = 12 /\ e = 18
      OBVIOUS
    <2>2. a # b /\ c \notin {a, b} /\ d \notin {a, b, c} /\ e \notin {a, b, c, d}
      BY <2>1
    <2>3. Cardinality({a, b, c, d, e}) = 5
      BY <2>2, CountFive
    <2>4. QED
      BY <2>1, <2>3
  <1> HIDE DEF f, ages
  <1>4. Failures(f) = 2
    BY <1>1, TwoFailed DEF Failures
  <1>5. HasProfile(f, Cardinality(ages) + 1, 9000 * Cardinality(ages), Failures(f))
    BY <1>2, ProfileOf
  <1>6. QED
    BY <1>3, <1>4, <1>5 DEF f

(* Three queued payouts and its own, and two failures. *)
LEMMA ProfileOfBacklog == HasProfile(QueuedBacklogAfterTransferFailures, 4, 48000, 2)
  <1> DEFINE f == QueuedBacklogAfterTransferFailures
             ages == {6, 11, 19}
             old == Burst("FAILED", 16000, {72, 96})
  <1>1. /\ f.age = 400 /\ f.amount = 4800
        /\ f.history = old \cup Burst("PENDING", 16000, ages)
    BY DEF QueuedBacklogAfterTransferFailures, Fixture
  <1>2. MadeOf(f, "PENDING", 16000, ages, old)
    <2>1. \A p \in old : p.age \in Nat /\ p.age >= 24
      BY DEF Burst, Payout
    <2>2. ages \in SUBSET (1 .. 22)
      OBVIOUS
    <2> HIDE DEF f, ages, old
    <2>3. f.history = Burst("PENDING", 16000, ages) \cup old
      BY <1>1
    <2>4. QED
      BY <1>1, <2>1, <2>2, <2>3 DEF MadeOf
  <1>3. Cardinality(ages) = 3
    <2>1. PICK a, b, c : a = 6 /\ b = 11 /\ c = 19
      OBVIOUS
    <2>2. a # b /\ c \notin {a, b}
      BY <2>1
    <2>3. Cardinality({a, b, c}) = 3
      BY <2>2, CountThree
    <2>4. QED
      BY <2>1, <2>3
  <1> HIDE DEF f, ages
  <1>4. Failures(f) = 2
    BY <1>1, TwoFailed DEF Failures
  <1>5. HasProfile(f, Cardinality(ages) + 1, 16000 * Cardinality(ages), Failures(f))
    BY <1>2, ProfileOf
  <1>6. QED
    BY <1>3, <1>4, <1>5 DEF f

(* Nothing but the payout under investigation, which adds no volume. *)
LEMMA ProfileOfThinHistory == HasProfile(ThinHistorySingleSignal, 1, 0, 0)
  <1> DEFINE f == ThinHistorySingleSignal
  <1>1. f.age = 5 /\ f.amount = 9600 /\ f.history = {}
    BY DEF ThinHistorySingleSignal, Fixture
  <1>2. MadeOf(f, "PAID", 0, {}, {})
    BY <1>1 DEF MadeOf, Burst
  <1>3. Cardinality({}) = 0
    BY FS_EmptySet
  <1>4. Failures(f) = 0
    <2>1. {p \in f.history : p.status = "FAILED"} = {}
      BY <1>1
    <2>2. QED
      BY <1>3, <2>1 DEF Failures
  <1> HIDE DEF f
  <1>5. HasProfile(f, Cardinality({}) + 1, 0 * Cardinality({}), Failures(f))
    BY <1>2, ProfileOf
  <1>6. QED
    BY <1>3, <1>4, <1>5 DEF f

(* Eleven payouts of the day and its own; the older ones do not count. *)
LEMMA ProfileOfVolumeBurst == HasProfile(CleanSellerVolumeBurst, 12, 49500, 0)
  <1> DEFINE f == CleanSellerVolumeBurst
             ages == {2 * i : i \in 1 .. 11}
             months == {24 * d : d \in {60, 90, 120, 150}}
             days == {24 * 31 + 2 * i : i \in 0 .. 7}
             old == Burst("PAID", 4200, months) \cup Burst("PAID", 4400, days)
  <1>1. f.age = 1095 /\ f.amount = 4500 /\ f.history = old \cup Burst("PAID", 4500, ages)
    BY DEF CleanSellerVolumeBurst, Fixture
  <1>2. \A p \in old : p.age \in Nat /\ p.age >= 24
    BY DEF Burst, Payout
  <1>3. ages \in SUBSET (1 .. 22)
    OBVIOUS
  <1>4. \A p \in f.history : p.status = "PAID"
    BY <1>1 DEF Burst, Payout
  <1>5. Cardinality(ages) = 11
    BY CountEleven
  <1> HIDE DEF f, ages, old
  <1>6. f.history = Burst("PAID", 4500, ages) \cup old
    BY <1>1
  <1>7. MadeOf(f, "PAID", 4500, ages, old)
    BY <1>1, <1>2, <1>3, <1>6 DEF MadeOf
  <1>8. Failures(f) = 0
    <2>1. {p \in f.history : p.status = "FAILED"} = {}
      BY <1>4
    <2>2. QED
      BY <2>1, FS_EmptySet DEF Failures
  <1>9. HasProfile(f, Cardinality(ages) + 1, 4500 * Cardinality(ages), Failures(f))
    BY <1>7, ProfileOf
  <1>10. QED
    BY <1>5, <1>8, <1>9 DEF f

(* From a fixture's window to its score: its own payout is already counted. *)
LEMMA RecomputedAs ==
    ASSUME NEW f, NEW velocity, NEW volume, NEW failed,
           HasProfile(f, velocity, volume, failed),
           velocity \in Nat, volume \in Nat, failed \in Nat,
           f.age \in Nat, f.amount \in Nat, f.disputes \in Nat, NEW h \in Fresh
    PROVE  Recomputed(f, h) =
             Capped(Raw(f.amount, velocity, volume, failed, f.age, f.disputes))
  <1> DEFINE p == RiskProfile(f, h)
  <1>1. /\ p.velocity = velocity /\ p.volume = volume /\ p.failed = failed
        /\ p.age = f.age /\ p.disputes = f.disputes
    BY DEF HasProfile
  <1> HIDE DEF p
  <1>2. Evaluate(Explain(f.amount, p)) =
           Capped(Raw(f.amount, p.velocity, p.volume, p.failed, p.age, p.disputes))
    BY <1>1, ExplainedAs
  <1>3. QED
    BY <1>1, <1>2 DEF Recomputed, p

(* The verdict of the scripted judge on a fresh fixture.                     *)
Opinion(f, h) == Judge(Recomputed(f, h), f.score, Behavioural(RiskProfile(f, h)))

(* Its score is capped and more than one signal is behavioural. *)
LEMMA FraudJudged ==
    ASSUME NEW h \in Fresh
    PROVE  /\ Recomputed(FraudConfirmedByHistory, h) = 100
           /\ Opinion(FraudConfirmedByHistory, h) = "TRUE_POSITIVE"
  <1> DEFINE f == FraudConfirmedByHistory
             p == RiskProfile(f, h)
  <1>1. f.age = 3 /\ f.amount = 45000 /\ f.disputes = 1 /\ f.score = 100
    BY DEF FraudConfirmedByHistory, Fixture
  <1> HIDE DEF f
  <1>2. HasProfile(f, 6, 60000, 0)
    BY ProfileOfFraud DEF f
  <1>3. Recomputed(f, h) = 100
    <2>1. Raw(45000, 6, 60000, 0, 3, 1) = 140
      BY DEF Raw
    <2>2. QED
      BY <1>1, <1>2, <2>1, RecomputedAs DEF Capped
  <1>4. p.velocity = 6 /\ p.age = 3 /\ p.failed = 0 /\ p.disputes = 1
    BY <1>1, <1>2 DEF HasProfile
  <1> HIDE DEF p
  <1>5. Behavioural(p) >= 2
    <2>1. {"velocity", "age"} \subseteq Signals(p)
      BY <1>4 DEF Signals
    <2>2. QED
      BY <2>1, TwoSignals
  <1>6. QED
    BY <1>3, <1>5 DEF Opinion, Judge, BlockAbove, f, p

(* It scores less than what is stored, and no signal is behavioural. *)
LEMMA HighScoreJudged ==
    ASSUME NEW h \in Fresh
    PROVE  /\ Recomputed(HighScoreCleanHistory, h) = 65
           /\ Opinion(HighScoreCleanHistory, h) = "FALSE_POSITIVE"
  <1> DEFINE f == HighScoreCleanHistory
             p == RiskProfile(f, h)
  <1>1. f.age = 1460 /\ f.amount = 45000 /\ f.disputes = 0 /\ f.score = 85
    BY DEF HighScoreCleanHistory, Fixture
  <1> HIDE DEF f
  <1>2. HasProfile(f, 1, 0, 0)
    BY ProfileOfHighScore DEF f
  <1>3. Recomputed(f, h) = 65
    <2>1. Raw(45000, 1, 0, 0, 1460, 0) = 65
      BY DEF Raw
    <2>2. QED
      BY <1>1, <1>2, <2>1, RecomputedAs DEF Capped
  <1>4. p.velocity = 1 /\ p.age = 1460 /\ p.failed = 0 /\ p.disputes = 0
    BY <1>1, <1>2 DEF HasProfile
  <1> HIDE DEF p
  <1>5. Behavioural(p) = 0
    <2>1. Signals(p) = {}
      BY <1>4 DEF Signals
    <2>2. QED
      BY <2>1, SignalsCounted, FS_EmptySet
  <1>6. QED
    BY <1>1, <1>3, <1>5 DEF Opinion, Judge, Contradicts, BlockAbove, f, p

(* Its score is capped; the burst and the failures are behavioural. *)
LEMMA PendingBurstJudged ==
    ASSUME NEW h \in Fresh
    PROVE  /\ Recomputed(PendingBurstVolumeSpike, h) = 100
           /\ Opinion(PendingBurstVolumeSpike, h) = "TRUE_POSITIVE"
  <1> DEFINE f == PendingBurstVolumeSpike
             p == RiskProfile(f, h)
  <1>1. f.age = 210 /\ f.amount = 9000 /\ f.disputes = 0 /\ f.score = 95
    BY DEF PendingBurstVolumeSpike, Fixture
  <1> HIDE DEF f
  <1>2. HasProfile(f, 6, 45000, 2)
    BY ProfileOfPendingBurst DEF f
  <1>3. Recomputed(f, h) = 100
    <2>1. Raw(9000, 6, 45000, 2, 210, 0) = 100
      BY DEF Raw
    <2>2. QED
      BY <1>1, <1>2, <2>1, RecomputedAs DEF Capped
  <1>4. p.velocity = 6 /\ p.age = 210 /\ p.failed = 2 /\ p.disputes = 0
    BY <1>1, <1>2 DEF HasProfile
  <1> HIDE DEF p
  <1>5. Behavioural(p) >= 2
    <2>1. {"velocity", "failed"} \subseteq Signals(p)
      BY <1>4 DEF Signals
    <2>2. QED
      BY <2>1, TwoSignals
  <1>6. QED
    BY <1>3, <1>5 DEF Opinion, Judge, BlockAbove, f, p

(* It scores too little for a block, and the failures are behavioural. *)
LEMMA BacklogJudged ==
    ASSUME NEW h \in Fresh
    PROVE  /\ Recomputed(QueuedBacklogAfterTransferFailures, h) = 60
           /\ Opinion(QueuedBacklogAfterTransferFailures, h) = "INCONCLUSIVE"
  <1> DEFINE f == QueuedBacklogAfterTransferFailures
             p == RiskProfile(f, h)
  <1>1. f.age = 400 /\ f.amount = 4800 /\ f.disputes = 0 /\ f.score = 60
    BY DEF QueuedBacklogAfterTransferFailures, Fixture
  <1> HIDE DEF f
  <1>2. HasProfile(f, 4, 48000, 2)
    BY ProfileOfBacklog DEF f
  <1>3. Recomputed(f, h) = 60
    <2>1. Raw(4800, 4, 48000, 2, 400, 0) = 60
      BY DEF Raw
    <2>2. QED
      BY <1>1, <1>2, <2>1, RecomputedAs DEF Capped
  <1>4. p.velocity = 4 /\ p.age = 400 /\ p.failed = 2 /\ p.disputes = 0
    BY <1>1, <1>2 DEF HasProfile
  <1> HIDE DEF p
  <1>5. QED
    BY <1>1, <1>3 DEF Opinion, Judge, Contradicts, BlockAbove, f, p

(* It scores what is stored, so nothing contradicts the seller. *)
LEMMA ThinHistoryJudged ==
    ASSUME NEW h \in Fresh
    PROVE  /\ Recomputed(ThinHistorySingleSignal, h) = 35
           /\ Opinion(ThinHistorySingleSignal, h) = "INCONCLUSIVE"
  <1> DEFINE f == ThinHistorySingleSignal
             p == RiskProfile(f, h)
  <1>1. f.age = 5 /\ f.amount = 9600 /\ f.disputes = 0 /\ f.score = 35
    BY DEF ThinHistorySingleSignal, Fixture
  <1> HIDE DEF f
  <1>2. HasProfile(f, 1, 0, 0)
    BY ProfileOfThinHistory DEF f
  <1>3. Recomputed(f, h) = 35
    <2>1. Raw(9600, 1, 0, 0, 5, 0) = 35
      BY DEF Raw
    <2>2. QED
      BY <1>1, <1>2, <2>1, RecomputedAs DEF Capped
  <1>4. p.velocity = 1 /\ p.age = 5 /\ p.failed = 0 /\ p.disputes = 0
    BY <1>1, <1>2 DEF HasProfile
  <1> HIDE DEF p
  <1>5. QED
    BY <1>1, <1>3 DEF Opinion, Judge, Contradicts, BlockAbove, f, p

(* The case the judge cannot tell apart is scored as documented all the same. *)
LEMMA VolumeBurstScored ==
    ASSUME NEW h \in Fresh
    PROVE  Recomputed(CleanSellerVolumeBurst, h) = 80
  <1> DEFINE f == CleanSellerVolumeBurst
  <1>1. f.age = 1095 /\ f.amount = 4500 /\ f.disputes = 0
    BY DEF CleanSellerVolumeBurst, Fixture
  <1> HIDE DEF f
  <1>2. HasProfile(f, 12, 49500, 0)
    BY ProfileOfVolumeBurst DEF f
  <1>3. Raw(4500, 12, 49500, 0, 1095, 0) = 80
    BY DEF Raw
  <1>4. QED
    BY <1>1, <1>2, <1>3, RecomputedAs DEF Capped, f

(* seed.py: the engine recomputes of each fixture the score and the band     *)
(* that its builder documents, as long as the fixture is fresh.              *)
THEOREM ScoresAsDocumented == Spec => []DocumentedScores
  <1>1. DocumentedScores
    <2> SUFFICES ASSUME NEW k \in DOMAIN ScenarioBuilders, NEW h \in 0 .. FreshHours - 1
                 PROVE  LET score == Recomputed(ScenarioBuilders[k], h)
                        IN  <<score, ScoreToDecision(score)>> = Documented[k]
      BY DEF DocumentedScores
    <2>1. h \in Fresh
      BY FreshAssumption DEF Fresh
    <2>2. QED
      BY <2>1, FraudJudged, HighScoreJudged, PendingBurstJudged, BacklogJudged,
         ThinHistoryJudged, VolumeBurstScored
         DEF ScenarioBuilders, Documented, ScoreToDecision, BlockAbove, AllowBelow
  <1>2. QED
    BY <1>1, PTL

(* The verdicts of eval/golden.jsonl, except for the scenario that scores as *)
(* high as its stored score.                                                 *)
LEMMA JudgedAsExpected ==
    ASSUME NEW k \in DOMAIN ScenarioBuilders \ {"clean_seller_volume_burst"},
           NEW h \in Fresh
    PROVE  Opinion(ScenarioBuilders[k], h) = Expected[k]
  BY FraudJudged, HighScoreJudged, PendingBurstJudged, BacklogJudged, ThinHistoryJudged
     DEF ScenarioBuilders, Expected


-------------------------------------------------------------------------------
(* The runner with the scripted judge.  It seeds what it is judged on, so    *)
(* every fixture that it looks for is its own.                               *)
Playing(r, p) ==
    /\ p.runs = 1 /\ p.at # "resolve"
    /\ p.at = "aborted" => p.results = <<>>
    /\ p.at \notin {"start", "aborted"} => p.cases = Golden
    /\ p.at = "build" => \A i \in 1 .. p.next - 1 : p.mapping[Builders[i]] = r
    /\ p.at \in {"check", "invoke", "profile", "report", "done"} =>
          \A k \in Keys : p.mapping[k] = r

(* A result says that the judge was right, or that there is nothing any more *)
(* to have been right about.                                                 *)
Right(r, result) ==
    LET k == result.scenario
    IN  /\ fixture[k].owner = r /\ hours - fixture[k].born < FreshHours
        /\ k # "clean_seller_volume_burst"
        => result.correct = 1

AllRight(r) == \A i \in DOMAIN run[r].results : Right(r, run[r].results[i])

MockInv == \A r \in Mocked : Playing(r, run[r]) /\ AllRight(r)

Aged == \A k \in Keys : fixture[k].born <= hours

(* A fixture does not get younger, and does not come back to a runner that   *)
(* has results.                                                              *)
Settled ==
    /\ hours' \in Nat /\ hours' >= hours
    /\ \A r \in Runners, k \in Keys : run[r].results # <<>> /\ fixture'[k].owner = r =>
          fixture[k].owner = r /\ fixture'[k].born = fixture[k].born

(* Every step settles, and no fixture is younger than the clock allows. *)
LEMMA FixturesSettle ==
    ASSUME IInv, Aged, [Next]_vars
    PROVE  Settled /\ Aged'
  <1>1. hours \in Nat /\ \A k \in Keys : fixture[k].born \in Nat
    BY EvaluationAssumption DEF IInv, Tables
  <1>2. CASE UNCHANGED <<fixture, hours>>
    BY <1>1, <1>2 DEF Settled, Aged
  <1>3. CASE Tick
    <2>1. hours' \in Nat /\ hours' > hours /\ fixture' = fixture
      BY <1>3, EvaluationAssumption DEF Tick
    <2>2. QED
      BY <1>1, <2>1 DEF Settled, Aged
  <1>4. ASSUME NEW u \in Runners, Truncate(u), ~Restricted(u) PROVE Settled /\ Aged'
    <2>1. /\ hours' = hours
          /\ fixture' = [k \in Keys |-> IF Remains(u, k) = {} THEN Gone
                            ELSE [fixture[k] EXCEPT !.parts = Remains(u, k)]]
      BY <1>4 DEF Truncate
    <2>2. \A k \in Keys : fixture[k] \in
             [owner : Runners \cup {Nobody}, born : Clock, parts : SUBSET Parts]
      BY DEF IInv, Tables
    <2>3. ASSUME NEW k \in Keys
          PROVE  \/ fixture'[k].owner = Nobody /\ fixture'[k].born = 0
                 \/ fixture'[k].owner = fixture[k].owner /\ fixture'[k].born = fixture[k].born
      BY <2>1, <2>2 DEF Gone
    <2>4. QED
      BY <1>1, <2>1, <2>3, EvaluationAssumption DEF Settled, Aged
  <1>5. ASSUME NEW u \in Runners, Build(u),
               fixture' = [fixture EXCEPT ![Turn(u)] =
                             [owner |-> u, born |-> hours, parts |-> Parts]]
        PROVE  Settled /\ Aged'
    <2>1. run[u].results = <<>> /\ hours' = hours
      BY <1>5 DEF Build, At, IInv, Runs, Sound, Phased
    <2>2. ASSUME NEW k \in Keys
          PROVE  \/ fixture'[k].owner = u /\ fixture'[k].born = hours
                 \/ fixture'[k] = fixture[k]
      BY <1>5 DEF IInv, Tables
    <2>3. QED
      BY <1>1, <2>1, <2>2 DEF Settled, Aged
  <1>6. QED
    BY <1>2, <1>3, <1>4, <1>5
       DEF Next, Step, Start, ReadMarked, Truncate, Build, Resolve, CheckMissing, Invoke,
           GetTransactionContext, GetSellerRiskProfile, Report, Kill, vars

(* A step of one runner is no step of the others. *)
LEMMA Becomes ==
    ASSUME Runs, NEW r \in Runners, NEW p, Become(r, p)
    PROVE  run'[r] = p /\ \A u \in Runners \ {r} : run'[u] = run[u]
  BY DEF Runs, Become

(* A step of such a runner keeps its results, or drops them, or adds one     *)
(* that is right.                                                            *)
Adds(r, results) ==
    \/ results = <<>> \/ results = run[r].results
    \/ \E x : results = Append(run[r].results, x) /\ Right(r, x)

(* What was judged right stays right, as its fixture stays, ages or is gone for good. *)
LEMMA ResultsStayRight ==
    ASSUME IInv, Settled, NEW r \in Mocked, AllRight(r), Adds(r, run'[r].results),
           run'[r].results \in {run[r].results, <<>>} \/ UNCHANGED <<fixture, hours>>
    PROVE  AllRight(r)'
  <1>1. /\ r \in Runners /\ run[r] \in Progress
        /\ hours \in Nat /\ FreshHours \in Nat
        /\ \A k \in Keys : fixture[k].born \in Nat
    <2>1. FreshHours \in Nat
      BY FreshAssumption
    <2>2. r \in Runners /\ Clock \subseteq Nat
      BY EvaluationAssumption
    <2>3. QED
      BY <2>1, <2>2 DEF IInv, Runs, Tables
  <1>2. /\ Len(run[r].results) \in Nat /\ DOMAIN run[r].results = 1 .. Len(run[r].results)
        /\ run[r].results \in Seq([scenario : Keys, correct : Nat, labelled : BOOLEAN])
    BY <1>1 DEF Progress
  <1>3. CASE run'[r].results = <<>>
    BY <1>3 DEF AllRight
  <1>4. CASE run'[r].results = run[r].results
    <2>1. ASSUME NEW i \in DOMAIN run[r].results,
                 fixture'[run[r].results[i].scenario].owner = r,
                 hours' - fixture'[run[r].results[i].scenario].born < FreshHours,
                 run[r].results[i].scenario # "clean_seller_volume_burst"
          PROVE  run[r].results[i].correct = 1
      <3> DEFINE k == run[r].results[i].scenario
      <3>1. k \in Keys
        <4>1. \A S : run[r].results \in Seq(S) => run[r].results[i] \in S
          BY <1>2
        <4>2. QED
          BY <1>2, <4>1
      <3>2. run[r].results # <<>>
        BY <1>2
      <3> HIDE DEF k
      <3>3. /\ fixture[k].owner = r /\ fixture'[k].born = fixture[k].born
            /\ hours' \in Nat /\ hours' >= hours
        BY <1>1, <2>1, <3>1, <3>2 DEF Settled, k
      <3>4. hours - fixture[k].born < FreshHours
        <4>1. hours' - fixture[k].born < FreshHours
          BY <2>1, <3>3 DEF k
        <4>2. fixture[k].born \in Nat
          BY <1>1, <3>1
        <4>3. QED
          BY <1>1, <3>3, <4>1, <4>2
      <3>5. QED
        BY <2>1, <3>3, <3>4 DEF AllRight, Right, k
    <2>2. QED
      BY <1>4, <2>1 DEF AllRight, Right
  <1>5. ASSUME NEW x, run'[r].results = Append(run[r].results, x), Right(r, x),
               UNCHANGED <<fixture, hours>>
        PROVE  AllRight(r)'
    <2>1. /\ DOMAIN run'[r].results = 1 .. Len(run[r].results) + 1
          /\ run'[r].results[Len(run[r].results) + 1] = x
          /\ \A i \in 1 .. Len(run[r].results) : run'[r].results[i] = run[r].results[i]
      BY <1>2, <1>5
    <2>2. ASSUME NEW i \in DOMAIN run'[r].results PROVE Right(r, run'[r].results[i])
      <3>1. i \in 1 .. Len(run[r].results) \/ i = Len(run[r].results) + 1
        BY <1>2, <2>1
      <3>2. QED
        BY <1>2, <1>5, <2>1, <3>1 DEF AllRight
    <2>3. QED
      BY <1>5, <2>2 DEF AllRight, Right
  <1>6. QED
    BY <1>3, <1>4, <1>5 DEF Adds

(* The facts that every step of such a runner starts from.                   *)
LEMMA MockedRun ==
    ASSUME IInv, MockInv, NEW r \in Mocked
    PROVE  /\ r \in Runners /\ Runs /\ run[r] \in Progress
           /\ Counted(run[r]) /\ Phased(run[r]) /\ Playing(r, run[r])
           /\ run[r].tries = 0 /\ run[r].correct = 0
  <1>1. /\ r \in Runners /\ Runs /\ run[r] \in Progress
        /\ Counted(run[r]) /\ Phased(run[r]) /\ Playing(r, run[r])
    BY EvaluationAssumption DEF IInv, MockInv, Runs, Sound
  <1>2. QED
    BY <1>1 DEF Counted, Playing, Progress

(* A runner that gives up has no results. *)
LEMMA AbortPlays ==
    ASSUME Runs, NEW r \in Runners, Abort(r)
    PROVE  Playing(r, run'[r]) /\ run'[r].results = <<>>
  <1> DEFINE p == [Waiting EXCEPT !.at = "aborted"]
  <1>1. p.at = "aborted" /\ p.runs = 1 /\ p.results = <<>>
    BY DEF Waiting
  <1>2. run'[r] = p
    BY Becomes DEF Abort
  <1> HIDE DEF p
  <1>3. QED
    BY <1>1, <1>2 DEF Playing

(* Every scenario has a builder, and golden.jsonl a verdict for it.          *)
LEMMA KeysAreBuilders == Keys \subseteq DOMAIN ScenarioBuilders /\ Keys \subseteq DOMAIN Expected
  <1>1. DOMAIN Expected = DOMAIN ScenarioBuilders
    BY DEF Expected, ScenarioBuilders
  <1>2. ASSUME NEW i \in DOMAIN Builders PROVE Builders[i] \in DOMAIN ScenarioBuilders
    <2>1. \A S : Builders \in Seq(S) => Builders[i] \in S
      OBVIOUS
    <2>2. QED
      BY <2>1, EvaluationAssumption
  <1>3. QED
    BY <1>1, <1>2 DEF Keys, Range

(* The only run of a case. *)
LEMMA ScorePlays ==
    ASSUME IInv, MockInv, NEW r \in Mocked, run[r].at \in {"invoke", "profile"},
           NEW verdict, Score(r, verdict),
           /\ Found(r) /\ hours - fixture[Scenario(r)].born < FreshHours
           /\ Scenario(r) # "clean_seller_volume_burst"
           => verdict = Expected[Scenario(r)]
    PROVE  Playing(r, run'[r]) /\ Adds(r, run'[r].results)
  <1> DEFINE x == [scenario |-> Scenario(r), correct |-> run[r].correct + Hit(r, verdict),
                   labelled |-> Case(r).verdict # Unlabelled]
             place == IF run[r].next < Len(run[r].cases) THEN "invoke" ELSE "report"
             p == [run[r] EXCEPT
                     !.at = place, !.next = @ + 1, !.tries = 0, !.correct = 0,
                     !.slips = @ + Slip(r, verdict), !.results = Append(@, x)]
  <1>1. /\ r \in Runners /\ Runs /\ run[r] \in Progress
        /\ Phased(run[r]) /\ Playing(r, run[r]) /\ run[r].tries = 0 /\ run[r].correct = 0
    BY MockedRun
  <1>2. CASE Abort(r)
    BY <1>1, <1>2, AbortPlays DEF Adds
  <1>3. CASE ~Abort(r)
    <2>1. LastRun(r)
      BY <1>1 DEF LastRun, Playing
    <2>2. Become(r, p)
      BY <1>3, <2>1 DEF Score
    <2>3. run'[r] = p
      BY <1>1, <2>2, Becomes
    <2>4. place \in {"invoke", "report"}
      OBVIOUS
    <2> HIDE DEF x, place
    <2>5. /\ p.at = place /\ p.runs = run[r].runs /\ p.cases = run[r].cases
          /\ p.mapping = run[r].mapping /\ p.results = Append(run[r].results, x)
      BY <1>1 DEF Progress
    <2> HIDE DEF p
    <2>6. Playing(r, p)
      BY <1>1, <2>4, <2>5 DEF Playing
    <2>7. Right(r, x)
      <3>1. /\ run[r].cases = Golden /\ run[r].next \in DOMAIN Golden
            /\ Scenario(r) \in Keys /\ Scenario(r) = Golden[run[r].next].scenario
            /\ Case(r) = Golden[run[r].next]
        BY <1>1 DEF Playing, Phased, Scenario, Case
      <3>2. run[r].mapping[Scenario(r)] = r
        BY <1>1, <3>1 DEF Playing
      <3>3. x.scenario = Scenario(r) /\ x.correct = 0 + Hit(r, verdict)
        BY <1>1 DEF x
      <3>4. SUFFICES ASSUME fixture[Scenario(r)].owner = r,
                            hours - fixture[Scenario(r)].born < FreshHours,
                            Scenario(r) # "clean_seller_volume_burst"
                     PROVE  x.correct = 1
        BY <3>3 DEF Right
      <3>5. verdict = Expected[Scenario(r)]
        BY <3>2, <3>4 DEF Found
      <3>6. Scenario(r) \in DOMAIN Expected
        BY <3>1, KeysAreBuilders
      <3>7. Case(r).verdict = verdict
        BY <3>1, <3>5, <3>6, GoldenAssumption
      <3>8. QED
        BY <3>3, <3>7 DEF Hit
    <2>8. QED
      BY <2>3, <2>5, <2>6, <2>7 DEF Adds
  <1>4. QED
    BY <1>2, <1>3

(* The judge sees a fixture that is still there as it was built, some hours  *)
(* later.                                                                    *)
LEMMA ProfilePlays ==
    ASSUME IInv, Aged, MockInv, NEW r \in Mocked, GetSellerRiskProfile(r)
    PROVE  Playing(r, run'[r]) /\ Adds(r, run'[r].results)
  <1> DEFINE k == Scenario(r)
             f == ScenarioBuilders[k]
             h == hours - fixture[k].born
             profile == IF Found(r) THEN RiskProfile(f, h) ELSE NoProfile
             verdict == Judge(Evaluate(Explain(f.amount, profile)), f.score,
                              Behavioural(profile))
  <1>1. run[r].at = "profile" /\ Score(r, verdict)
    BY DEF GetSellerRiskProfile, At
  <1>2. ASSUME Found(r), h < FreshHours, k # "clean_seller_volume_burst"
        PROVE  verdict = Expected[k]
    <2>1. k \in Keys
      BY <1>1, MockedRun DEF Phased, Scenario, Case
    <2>2. h \in Fresh
      <3>1. fixture[k].born \in Clock /\ hours \in Clock /\ fixture[k].born <= hours
        BY <2>1 DEF IInv, Tables, Aged
      <3>2. fixture[k].born \in Nat /\ hours \in Nat
        BY <3>1, EvaluationAssumption
      <3>3. QED
        BY <1>2, <3>1, <3>2, FreshAssumption DEF Fresh
    <2>3. verdict = Opinion(f, h)
      BY <1>2 DEF Opinion, Recomputed
    <2> HIDE DEF h, verdict
    <2>4. QED
      BY <1>2, <2>1, <2>2, <2>3, KeysAreBuilders, JudgedAsExpected
  <1> HIDE DEF verdict
  <1>3. QED
    BY <1>1, <1>2, ScorePlays

(* The first call of the judge goes on, or scores a case whose fixture is gone. *)
LEMMA CasePlays ==
    ASSUME IInv, MockInv, NEW r \in Mocked, GetTransactionContext(r)
    PROVE  Playing(r, run'[r]) /\ Adds(r, run'[r].results)
  <1>1. CASE Found(r)
    <2> DEFINE p == [run[r] EXCEPT !.at = "profile"]
    <2>1. /\ r \in Runners /\ Runs /\ run[r] \in Progress /\ Playing(r, run[r])
          /\ run[r].at = "invoke"
      BY MockedRun DEF GetTransactionContext, At
    <2>2. Become(r, p)
      BY <1>1 DEF GetTransactionContext
    <2>3. run'[r] = p
      BY <2>1, <2>2, Becomes
    <2>4. /\ p.at = "profile" /\ p.runs = run[r].runs /\ p.cases = run[r].cases
          /\ p.mapping = run[r].mapping /\ p.results = run[r].results
      BY <2>1 DEF Progress
    <2> HIDE DEF p
    <2>5. QED
      BY <2>1, <2>3, <2>4 DEF Playing, Adds
  <1>2. CASE ~Found(r)
    BY <1>2, ScorePlays DEF GetTransactionContext, At
  <1>3. QED
    BY <1>1, <1>2

(* A start begins with no results. *)
LEMMA StartPlays ==
    ASSUME IInv, MockInv, NEW r \in Mocked, Start(r)
    PROVE  Playing(r, run'[r]) /\ run'[r].results \in {run[r].results, <<>>}
  <1>1. /\ r \in Runners /\ Runs /\ run[r] \in Progress /\ Playing(r, run[r])
        /\ run[r].at = "start"
    BY MockedRun DEF Start, At
  <1>2. PICK cases \in {Golden}, runs \in {1}, seed \in {TRUE} :
               IF ValidDataset(cases)
               THEN Become(r, [run[r] EXCEPT
                                 !.at = IF seed THEN "truncate" ELSE "resolve",
                                 !.cases = cases, !.runs = runs,
                                 !.reads = TruncateReads])
               ELSE Abort(r)
    BY DEF Start
  <1>3. CASE Abort(r)
    BY <1>1, <1>3, AbortPlays
  <1> DEFINE p == [run[r] EXCEPT !.at = "truncate", !.cases = Golden, !.runs = 1,
                                 !.reads = TruncateReads]
  <1>4. CASE Become(r, p)
    <2>1. run'[r] = p
      BY <1>1, <1>4, Becomes
    <2>2. p.at = "truncate" /\ p.cases = Golden /\ p.runs = 1 /\ p.results = run[r].results
      BY <1>1 DEF Progress
    <2> HIDE DEF p
    <2>3. QED
      BY <2>1, <2>2 DEF Playing
  <1>5. QED
    BY <1>2, <1>3, <1>4

(* It builds every scenario before it looks for one. *)
LEMMA BuildPlays ==
    ASSUME IInv, MockInv, NEW r \in Mocked, Build(r)
    PROVE  Playing(r, run'[r]) /\ run'[r].results \in {run[r].results, <<>>}
  <1> DEFINE mapping == [run[r].mapping EXCEPT ![Turn(r)] = r]
  <1>1. /\ r \in Runners /\ Runs /\ run[r] \in Progress /\ Playing(r, run[r])
        /\ run[r].at = "build" /\ run[r].next \in DOMAIN Builders
    BY MockedRun DEF Build, At, Phased
  <1>2. CASE Abort(r)
    BY <1>1, <1>2, AbortPlays
  <1>3. CASE Advance(r, "check", mapping)
    <2>1. /\ Len(Builders) \in Nat /\ DOMAIN Builders = 1 .. Len(Builders)
          /\ \A i \in DOMAIN Builders : Builders[i] \in Keys
          /\ run[r].mapping \in [Keys -> Runners \cup {Nobody}]
      BY <1>1, BuildersTypes DEF Progress
    <2>2. \A i \in 1 .. run[r].next : mapping[Builders[i]] = r
      <3> SUFFICES ASSUME NEW i \in 1 .. run[r].next PROVE mapping[Builders[i]] = r
        OBVIOUS
      <3>1. i \in DOMAIN Builders /\ (i = run[r].next \/ i \in 1 .. run[r].next - 1)
        BY <1>1, <2>1
      <3>2. CASE i = run[r].next
        BY <1>1, <2>1, <3>2 DEF Turn
      <3>3. CASE i \in 1 .. run[r].next - 1
        BY <1>1, <2>1, <3>1, <3>3 DEF Playing
      <3>4. QED
        BY <3>1, <3>2, <3>3
    <2> HIDE DEF mapping
    <2>3. CASE run[r].next < Len(Builders)
      <3> DEFINE p == [run[r] EXCEPT !.next = @ + 1, !.mapping = mapping]
      <3>1. run'[r] = p
        BY <1>1, <1>3, <2>3, Becomes DEF Advance
      <3>2. /\ p.at = "build" /\ p.runs = run[r].runs /\ p.cases = run[r].cases
            /\ p.next = run[r].next + 1 /\ p.mapping = mapping
            /\ p.results = run[r].results
        BY <1>1 DEF Progress
      <3> HIDE DEF p
      <3>3. p.next - 1 = run[r].next
        BY <1>1, <2>1, <3>2
      <3>4. QED
        BY <1>1, <2>2, <3>1, <3>2, <3>3 DEF Playing
    <2>4. CASE ~(run[r].next < Len(Builders))
      <3> DEFINE p == [run[r] EXCEPT !.next = 1, !.mapping = mapping, !.at = "check"]
      <3>1. run'[r] = p
        BY <1>1, <1>3, <2>4, Becomes DEF Advance
      <3>2. /\ p.at = "check" /\ p.runs = run[r].runs /\ p.cases = run[r].cases
            /\ p.mapping = mapping /\ p.results = run[r].results
        BY <1>1 DEF Progress
      <3> HIDE DEF p
      <3>3. \A k \in Keys : mapping[k] = r
        <4>1. \A k \in Keys : \E i \in 1 .. Len(Builders) : k = Builders[i]
          BY <2>1 DEF Keys, Range
        <4>2. run[r].next = Len(Builders)
          BY <1>1, <2>1, <2>4
        <4>3. QED
          BY <2>2, <4>1, <4>2
      <3>4. QED
        BY <1>1, <3>1, <3>2, <3>3 DEF Playing
    <2>5. QED
      BY <2>3, <2>4
  <1>4. QED
    BY <1>2, <1>3 DEF Build

(* The other steps. *)
LEMMA MovePlays ==
    ASSUME IInv, MockInv, NEW r \in Mocked,
           ReadMarked(r) \/ Truncate(r) \/ CheckMissing(r) \/ Report(r) \/ Kill(r)
    PROVE  Playing(r, run'[r]) /\ run'[r].results \in {run[r].results, <<>>}
  <1>1. /\ r \in Runners /\ Runs /\ run[r] \in Progress /\ Playing(r, run[r])
        /\ Phased(run[r])
    BY MockedRun
  <1>2. CASE Abort(r)
    BY <1>1, <1>2, AbortPlays
  <1>3. CASE ReadMarked(r)
    <2> DEFINE p == [run[r] EXCEPT !.reads = Tail(@),
                                   !.seen = [@ EXCEPT ![Head(run[r].reads)] =
                                                        Marked(Head(run[r].reads))]]
    <2>1. run'[r] = p
      BY <1>1, <1>3, Becomes DEF ReadMarked
    <2>2. /\ p.at = run[r].at /\ p.runs = run[r].runs /\ p.cases = run[r].cases
          /\ p.mapping = run[r].mapping /\ p.results = run[r].results
          /\ p.next = run[r].next
      BY <1>1 DEF Progress
    <2> HIDE DEF p
    <2>3. QED
      BY <1>1, <2>1, <2>2 DEF Playing
  <1>4. ASSUME NEW place \in {"build", "invoke", "done"}, NEW p, run'[r] = p, p.at = place,
               run[r].at = (IF place = "build" THEN "truncate"
                            ELSE IF place = "invoke" THEN "check" ELSE "report"),
               p.runs = run[r].runs, p.cases = run[r].cases, p.next = run[r].next,
               p.mapping = run[r].mapping, p.results = run[r].results
        PROVE  Playing(r, run'[r]) /\ run'[r].results \in {run[r].results, <<>>}
    <2>1. CASE place = "build"
      <3>1. run[r].next = 1
        BY <1>1, <1>4, <2>1 DEF Phased
      <3>2. 1 .. p.next - 1 = {}
        BY <1>4, <3>1
      <3>3. QED
        BY <1>1, <1>4, <2>1, <3>2 DEF Playing
    <2>2. CASE place \in {"invoke", "done"}
      BY <1>1, <1>4, <2>2 DEF Playing
    <2>3. QED
      BY <2>1, <2>2
  <1>5. CASE Truncate(r) /\ ~Restricted(r)
    <2> DEFINE p == [run[r] EXCEPT !.at = "build", !.seen = Waiting.seen]
    <2>1. run'[r] = p
      BY <1>1, <1>5, Becomes DEF Truncate
    <2>2. /\ p.at = "build" /\ p.runs = run[r].runs /\ p.cases = run[r].cases
          /\ p.mapping = run[r].mapping /\ p.results = run[r].results
          /\ p.next = run[r].next
      BY <1>1 DEF Progress
    <2> HIDE DEF p
    <2>3. QED
      BY <1>4, <1>5, <2>1, <2>2 DEF Truncate, At
  <1>6. CASE CheckMissing(r) /\ ~Abort(r)
    <2> DEFINE p == [run[r] EXCEPT !.at = "invoke"]
    <2>1. run'[r] = p
      BY <1>1, <1>6, Becomes DEF CheckMissing
    <2>2. /\ p.at = "invoke" /\ p.runs = run[r].runs /\ p.cases = run[r].cases
          /\ p.mapping = run[r].mapping /\ p.results = run[r].results
          /\ p.next = run[r].next
      BY <1>1 DEF Progress
    <2> HIDE DEF p
    <2>3. QED
      BY <1>4, <1>6, <2>1, <2>2 DEF CheckMissing, At
  <1>7. CASE Report(r)
    <2> DEFINE scored == {i \in DOMAIN run[r].results : run[r].results[i].labelled}
               passed == {i \in scored : Passed(run[r].results[i], run[r].runs)}
               clean == r \in Mocked \/ Cardinality(passed) = Cardinality(scored)
               p == [run[r] EXCEPT !.at = "done", !.exit = IF clean THEN 0 ELSE 1]
    <2>1. run'[r] = p
      BY <1>1, <1>7, Becomes DEF Report
    <2>2. /\ p.at = "done" /\ p.runs = run[r].runs /\ p.cases = run[r].cases
          /\ p.mapping = run[r].mapping /\ p.results = run[r].results
          /\ p.next = run[r].next
      BY <1>1 DEF Progress
    <2> HIDE DEF p
    <2>3. QED
      BY <1>4, <1>7, <2>1, <2>2 DEF Report, At
  <1>8. QED
    BY <1>2, <1>3, <1>5, <1>6, <1>7 DEF Kill, Truncate

(* Every step of a scripted runner keeps its results right. *)
LEMMA StepPlays ==
    ASSUME IInv, Aged, MockInv, NEW r \in Mocked, Step(r) \/ Kill(r)
    PROVE  /\ Playing(r, run'[r]) /\ Adds(r, run'[r].results)
           /\ \/ run'[r].results \in {run[r].results, <<>>}
              \/ UNCHANGED <<fixture, hours>>
  <1>1. /\ r \in Runners /\ Playing(r, run[r])
    BY MockedRun
  <1>2. CASE Start(r) \/ ReadMarked(r) \/ Truncate(r) \/ Build(r) \/ CheckMissing(r)
               \/ Report(r) \/ Kill(r)
    BY <1>2, StartPlays, BuildPlays, MovePlays DEF Adds
  <1>3. CASE GetTransactionContext(r) \/ GetSellerRiskProfile(r)
    <2>1. UNCHANGED <<fixture, hours>>
      BY <1>3 DEF GetTransactionContext, GetSellerRiskProfile
    <2>2. QED
      BY <1>3, <2>1, CasePlays, ProfilePlays
  <1>4. ~Resolve(r) /\ ~Invoke(r)
    BY <1>1 DEF Resolve, Invoke, At, Playing
  <1>5. QED
    BY <1>2, <1>3, <1>4 DEF Step

(* No results at first, and no fixture is born later than now. *)
LEMMA MockInit ==
    ASSUME Init
    PROVE  Aged /\ MockInv
  <1>1. \A r \in Mocked : run[r] = Waiting
    BY EvaluationAssumption DEF Init
  <1>2. Waiting.at = "start" /\ Waiting.runs = 1 /\ Waiting.results = <<>>
    BY DEF Waiting
  <1>3. MockInv
    BY <1>1, <1>2 DEF MockInv, Playing, AllRight
  <1>4. Aged
    BY DEF Init, Gone, Aged
  <1>5. QED
    BY <1>3, <1>4

(* Every step of every runner, death and the clock keep the results right. *)
LEMMA MockStep ==
    ASSUME IInv, Aged, MockInv, [Next]_vars
    PROVE  Aged' /\ MockInv'
  <1>1. Settled /\ Aged'
    BY FixturesSettle
  <1>2. ASSUME NEW r \in Mocked, run'[r] = run[r]
        PROVE  Playing(r, run'[r]) /\ AllRight(r)'
    <2>1. Playing(r, run[r]) /\ AllRight(r)
      BY DEF MockInv
    <2>2. QED
      BY <1>1, <1>2, <2>1, ResultsStayRight DEF Adds
  <1>3. ASSUME NEW r \in Mocked, Step(r) \/ Kill(r)
        PROVE  Playing(r, run'[r]) /\ AllRight(r)'
    <2>1. AllRight(r)
      BY DEF MockInv
    <2>2. QED
      BY <1>1, <1>3, <2>1, StepPlays, ResultsStayRight
  <1>4. ASSUME NEW u \in Runners, Step(u) \/ Kill(u), NEW r \in Mocked, r # u
        PROVE  run'[r] = run[r]
    <2>1. \E p : Become(u, p)
      BY <1>4 DEF Step, Kill, Start, ReadMarked, Truncate, Build, Resolve, Advance,
         CheckMissing, Invoke, GetTransactionContext, GetSellerRiskProfile, Report,
         Score, Abort
    <2>2. r \in Runners
      BY EvaluationAssumption
    <2>3. QED
      BY <1>4, <2>1, <2>2, Becomes DEF IInv
  <1>5. ASSUME NEW r \in Mocked PROVE Playing(r, run'[r]) /\ AllRight(r)'
    <2>1. CASE Tick \/ UNCHANGED vars
      BY <1>2, <2>1 DEF Tick, vars
    <2>2. CASE \E u \in Runners : Step(u) \/ Kill(u)
      BY <1>2, <1>3, <1>4, <2>2
    <2>3. QED
      BY <2>1, <2>2 DEF Next
  <1>6. QED
    BY <1>1, <1>5 DEF MockInv

(* eval/run_mocked.py: a fixture that is still there and fresh was judged as  *)
(* golden.jsonl expects, whatever other runners did to the rest, except for   *)
(* the scenario that scores as high as its stored score.                      *)
THEOREM MockedSeparatesAlways == Spec => []MockedSeparates
  <1>1. IInv /\ MockInv => MockedSeparates
    <2> SUFFICES ASSUME IInv, MockInv, NEW r \in Mocked,
                        NEW i \in DOMAIN run[r].results,
                        NEW k, k = run[r].results[i].scenario,
                        fixture[k].owner = run[r].mapping[k],
                        hours - fixture[k].born < FreshHours,
                        k # "clean_seller_volume_burst"
                 PROVE  run[r].results[i].correct = 1
      BY DEF MockedSeparates
    <2>1. /\ run[r] \in Progress /\ Phased(run[r]) /\ Playing(r, run[r])
      BY MockedRun
    <2>2. /\ run[r].results # <<>>
          /\ run[r].results \in Seq([scenario : Keys, correct : Nat, labelled : BOOLEAN])
      BY <2>1 DEF Progress
    <2>3. k \in Keys
      <3>1. \A S : run[r].results \in Seq(S) => run[r].results[i] \in S
        BY <2>2
      <3>2. QED
        BY <2>2, <3>1
    <2>4. run[r].mapping[k] = r
      BY <2>1, <2>2, <2>3 DEF Progress, Phased, Playing
    <2>5. QED
      BY <2>4 DEF MockInv, AllRight, Right
  <1>2. Init => Aged /\ MockInv
    BY MockInit
  <1>3. QED
    BY <1>1, <1>2, EvaluationInvariance, MockStep, PTL DEF Spec
===============================================================================
