------------------------- MODULE CorpusReleaseProofs -------------------------
(***************************************************************************)
(* Theorems about CorpusRelease, for every set of runs, readers, paths and *)
(* corpora, and every kind and number of faults.                           *)
(***************************************************************************)
EXTENDS CorpusRelease, TLAPS

-----------------------------------------------------------------------------
\* The order of the steps

\* After a step of a publication comes the next one of Forward.
LEMMA ForwardOrder ==
    /\ After(Forward, <<"mkdir", "public">>) = <<"mkdir", "private">>
    /\ After(Forward, <<"mkdir", "private">>) = <<"fill", "public">>
    /\ After(Forward, <<"fill", "public">>) = <<"fill", "private">>
    /\ After(Forward, <<"fill", "private">>) = <<"rename", "private">>
    /\ After(Forward, <<"rename", "private">>) = <<"sync", "private">>
    /\ After(Forward, <<"sync", "private">>) = <<"rename", "public">>
    /\ After(Forward, <<"rename", "public">>) = <<"sync", "public">>
BY SMT DEF After, Forward

-----------------------------------------------------------------------------
\* The inductive invariant

Active(r) == step[r][1] \notin Ends

\* How far each tree of a run is, by the step that comes next
StagedAt(r) ==
    /\ step[r][1] \in {"idle", "mkdir", "fill"} => \A side \in Sides : staged[r][side] # "moved"
    /\ At(r, "rename") => staged[r][Side(r)] # "moved"
    /\ step[r] = <<"rename", "private">> => staged[r]["public"] # "moved"
    /\ step[r] = <<"sync", "private">> => staged[r]["public"] # "moved"
    /\ At(r, "sync") => staged[r][Side(r)] = "moved"
    /\ step[r][1] \in {"resync", "discard"} => staged[r][Side(r)] \notin {"none", "moved"}
    /\ step[r][1] \in {"withdraw", "resync", "discard"} /\ Side(r) = "private" /\ r \notin unclean =>
          staged[r]["public"] = "none"
    /\ At(r, "failed") /\ r \notin unclean => \A side \in Sides : staged[r][side] = "none"

\* The tree that a running release has moved to its target is still there.
MovedIsPlaced(r) ==
    \A side \in Sides : Active(r) /\ staged[r][side] = "moved" => place[Target(r, side)] = r

\* After a withdrawal the tree is not visible any more; the disk may still hold it.
WithdrawnIsGone(r) == At(r, "resync") => place[Target(r, Side(r))] # r

\* Except for that, the disk holds no tree of a release but those that were moved.
OnlyMovedKept(r) ==
    r \notin unclean => \A side \in Sides :
        \/ made[r] = None \/ step[r][1] = "dead"
        \/ staged[r][side] = "moved" \/ step[r] = <<"resync", side>>
        \/ r \notin durable[Target(r, side)]

\* The private tree is safe before the public one is renamed.
PrivateFirst(r) == step[r] = <<"rename", "public">> => durable[made[r].private] = {r}

Knows(r) ==
    StagedAt(r) /\ MovedIsPlaced(r) /\ WithdrawnIsGone(r) /\ OnlyMovedKept(r) /\ PrivateFirst(r)

CInv ==
    /\ TypeOK
    /\ PublicHasPrivate
    /\ \A r \in Release : Knows(r)

-----------------------------------------------------------------------------
\* Paths

\* A run past its preparation has a target on each side, and the sides are apart.
LEMMA Targets ==
    ASSUME TypeOK, NEW r \in Release, made[r] # None
    PROVE  /\ Target(r, "public") \in PublicPath /\ Target(r, "private") \in PrivatePath
           /\ made[r].private = Target(r, "private")
           /\ Target(r, "public") # Target(r, "private")
           /\ \A side \in Sides : Target(r, side) \in Path
BY CorpusAssumption DEF TypeOK, Plans, Target, Path, Sides

\* The disk holds the tree of a run only at its targets.
LEMMA PublicTarget ==
    ASSUME TypeOK, NEW r \in Release, NEW x \in PublicPath, r \in durable[x]
    PROVE  made[r] # None /\ x = Target(r, "public")
<1>1. r # None
  BY CorpusAssumption
<1>2. made[r] # None /\ \E side \in Sides : x = Target(r, side)
  BY <1>1 DEF TypeOK, Path
<1>3. QED
  BY <1>2, Targets, CorpusAssumption DEF Sides

-----------------------------------------------------------------------------
\* What a step of one run leaves to the others

\* The change of the paths takes nothing from release q and gives it nothing.
Spared(q) ==
    \A x \in Path :
        /\ place'[x] = q <=> place[x] = q
        /\ q \in durable'[x] => q \in durable[x]
        /\ durable[x] = {q} => durable'[x] = {q}

\* A step of run r that spares the others preserves what they know.
LEMMA OthersKnow ==
    ASSUME CInv, NEW r, NEW q \in Release, q # r, Spared(q),
           step'[q] = step[q], staged'[q] = staged[q], made'[q] = made[q],
           q \in unclean <=> q \in unclean'
    PROVE  Knows(q)'
<1>1. TypeOK /\ Knows(q)
  BY DEF CInv
<1>2. CASE made[q] = None
  <2>1. At(q, "idle")
    BY <1>1, <1>2 DEF TypeOK
  <2>2. step[q] # <<"rename", "public">>
    BY <2>1 DEF At
  <2>3. QED
    BY <1>1, <1>2, <2>1, <2>2
       DEF Knows, StagedAt, MovedIsPlaced, WithdrawnIsGone, OnlyMovedKept, PrivateFirst, Active,
           At, Side, Ends
<1>3. CASE made[q] # None
  <2>1. /\ \A side \in Sides : Target(q, side) \in Path /\ Target(q, side)' = Target(q, side)
        /\ made[q].private \in Path
    BY <1>1, <1>3, Targets DEF Target, Sides, Path
  <2>2. Side(q) \in Sides
    BY <1>1 DEF TypeOK, Side
  <2>3. StagedAt(q)'
    BY <1>1 DEF Knows, StagedAt, At, Side
  <2>4. MovedIsPlaced(q)'
    BY <1>1, <2>1 DEF Knows, MovedIsPlaced, Active, Spared
  <2>5. WithdrawnIsGone(q)'
    BY <1>1, <2>1, <2>2 DEF Knows, WithdrawnIsGone, At, Side, Spared
  <2>6. OnlyMovedKept(q)'
    BY <1>1, <2>1 DEF Knows, OnlyMovedKept, Spared
  <2>7. PrivateFirst(q)'
    BY <1>1, <2>1 DEF Knows, PrivateFirst, Spared
  <2>8. QED
    BY <2>3, <2>4, <2>5, <2>6, <2>7 DEF Knows
<1>4. QED
  BY <1>2, <1>3

\* A step of run r preserves PublicHasPrivate if it spares the others and keeps
\* the private tree of r as long as the public one may be there.
LEMMA PublicStep ==
    ASSUME CInv, NEW r \in Release, TypeOK',
           \A q \in Release \ {r} : Spared(q) /\ made'[q] = made[q] /\ (q \in unclean <=> q \in unclean'),
           \A x \in PublicPath :
              r \in durable'[x] /\ r \notin unclean' => durable'[made'[r].private] = {r}
    PROVE  PublicHasPrivate'
<1> SUFFICES ASSUME NEW x \in PublicPath, NEW q \in durable'[x], q \notin unclean', q # None
             PROVE  durable'[made'[q].private] = {q}
  BY DEF PublicHasPrivate
<1>1. q \in Release
  BY DEF TypeOK, Path
<1>2. CASE q = r
  BY <1>2
<1>3. CASE q # r
  <2>1. TypeOK /\ PublicHasPrivate
    BY DEF CInv
  <2>2. q \in durable[x] /\ q \notin unclean
    BY <1>1, <1>3 DEF Spared, Path
  <2>3. durable[made[q].private] = {q} /\ made[q] # None
    BY <1>1, <2>1, <2>2, PublicTarget DEF PublicHasPrivate
  <2>4. made[q].private \in Path
    BY <1>1, <2>1, <2>3, Targets DEF Path
  <2>5. QED
    BY <1>1, <1>3, <2>3, <2>4 DEF Spared
<1>4. QED
  BY <1>2, <1>3

-----------------------------------------------------------------------------
\* Types

\* The paths and what the disk keeps at them.
PathTypes ==
    /\ place \in [Path -> Release \cup {None}]
    /\ durable \in [Path -> SUBSET (Release \cup {None})]
    /\ \A x \in Path : place[x] \in durable[x]
    /\ \A x \in Path : \A r \in durable[x] \ {None} :
        made[r] # None /\ \E side \in Sides : x = Target(r, side)

\* A run only comes from a step to one of the steps.
LEMMA StepTypes ==
    ASSUME TypeOK, NEW r \in Release
    PROVE  /\ step[r] \in Steps \X Sides /\ step[r] = <<step[r][1], step[r][2]>>
           /\ Active(r) => made[r] # None /\ made[r] \in Plans
           /\ step[r][2] \in Sides
BY DEF TypeOK, Active, At, Ends, Steps, Sides

\* What the order of the steps is for a run that goes on.
LEMMA ProceedSteps ==
    ASSUME TypeOK, NEW r \in Release, Proceed(r), step[r][1] \in {"mkdir", "fill", "rename", "sync"}
    PROVE  /\ step' = [step EXCEPT ![r] = step'[r]]
           /\ \/ step[r] = <<"mkdir", "public">> /\ step'[r] = <<"mkdir", "private">>
              \/ step[r] = <<"mkdir", "private">> /\ step'[r] = <<"fill", "public">>
              \/ step[r] = <<"fill", "public">> /\ step'[r] = <<"fill", "private">>
              \/ step[r] = <<"fill", "private">> /\ step'[r] = <<"rename", "private">>
              \/ step[r] = <<"rename", "private">> /\ step'[r] = <<"sync", "private">>
              \/ step[r] = <<"sync", "private">> /\ step'[r] = <<"rename", "public">>
              \/ step[r] = <<"rename", "public">> /\ step'[r] = <<"sync", "public">>
              \/ step[r] = <<"sync", "public">> /\ step'[r] = <<"done", "public">>
<1>1. step[r] = <<step[r][1], step[r][2]>> /\ step[r][2] \in {"public", "private"}
  BY StepTypes DEF Sides
<1>2. step' = [step EXCEPT ![r] = IF @ = <<"sync", "public">> THEN <<"done", "public">>
                                 ELSE After(Forward, @)]
  BY DEF Proceed
<1>3. step \in [Release -> Steps \X Sides]
  BY DEF TypeOK
<1>4. step'[r] = IF step[r] = <<"sync", "public">> THEN <<"done", "public">>
                 ELSE After(Forward, step[r])
  BY <1>2, <1>3
<1>5. step' = [step EXCEPT ![r] = step'[r]]
  BY <1>2, <1>3, <1>4
<1>6. QED
  <2>1. CASE step[r] \in {<<"mkdir", "public">>, <<"mkdir", "private">>, <<"fill", "public">>,
                          <<"fill", "private">>}
    BY <1>4, <1>5, <2>1, ForwardOrder
  <2>2. CASE step[r] \in {<<"rename", "private">>, <<"sync", "private">>, <<"rename", "public">>,
                          <<"sync", "public">>}
    BY <1>4, <1>5, <2>2, ForwardOrder
  <2>3. QED
    BY <1>1, <2>1, <2>2

\* And for one that fails, or rolls back.
LEMMA OtherSteps ==
    ASSUME TypeOK, NEW r \in Release
    PROVE  /\ Fails(r) => step' = [step EXCEPT ![r] = <<"withdraw", "public">>]
           /\ \A name \in {"resync", "discard"} :
                Backs(r, name) => step' = [step EXCEPT ![r] = <<name, Side(r)>>]
           /\ Backs(r, "end") =>
                step' = [step EXCEPT ![r] = IF Side(r) = "public" THEN <<"withdraw", "private">>
                                            ELSE <<"failed", "public">>]
BY DEF Fails, Backward, Backs, TypeOK, Side

\* Faults are counted.
LEMMA FaultType == ASSUME TypeOK, NEW kind, Fault(kind) PROVE faults' \in 0 .. MaxFaults
BY CorpusAssumption, SMT DEF Fault, TypeOK

\* A change of the paths that puts the tree of a prepared run at its target, takes
\* one away or syncs a directory, keeps the types.
LEMMA PathStep ==
    ASSUME TypeOK, made' = made, NEW x \in Path, NEW r \in Release \cup {None},
           r # None => made[r] # None /\ \E side \in Sides : x = Target(r, side),
           \/ Name(x, r)
           \/ place' = place /\ durable' = [durable EXCEPT ![x] = {place[x]}]
    PROVE  PathTypes'
<1>1. PathTypes
  BY DEF TypeOK, PathTypes
<1>2. \A q, side : Target(q, side)' = Target(q, side)
  BY DEF Target
<1>3. CASE Name(x, r)
  <2>1. /\ place' \in [Path -> Release \cup {None}]
        /\ durable' \in [Path -> SUBSET (Release \cup {None})]
        /\ place'[x] = r /\ durable'[x] = durable[x] \cup {r}
        /\ \A y \in Path \ {x} : place'[y] = place[y] /\ durable'[y] = durable[y]
    BY <1>1, <1>3 DEF Name, PathTypes
  <2>2. QED
    BY <1>1, <1>2, <2>1 DEF PathTypes
<1>4. CASE place' = place /\ durable' = [durable EXCEPT ![x] = {place[x]}]
  <2>1. /\ durable' \in [Path -> SUBSET (Release \cup {None})]
        /\ durable'[x] = {place[x]}
        /\ \A y \in Path \ {x} : durable'[y] = durable[y]
    BY <1>1, <1>4 DEF PathTypes
  <2>2. QED
    BY <1>1, <1>2, <1>4, <2>1 DEF PathTypes
<1>5. QED
  BY <1>3, <1>4

\* The other variables.
RunTypes ==
    /\ step \in [Release -> Steps \X Sides]
    /\ made \in [Release -> Plans \cup {None}]
    /\ \A r \in Release :
        IF At(r, "idle") THEN made[r] = None
        ELSE made[r] # None /\ Approved(made[r].corpus) /\ made[r].held \in Splits(made[r].corpus)
    /\ staged \in [Release -> [Sides -> {"none", "part", "full", "moved"}]]
    /\ unclean \subseteq Release

Piece == Reader \X {"line", "part", "end"}

LogTypes ==
    /\ log \in [name : {"none", "cached", "durable"}, pieces : Seq(Piece), synced : Nat]
    /\ log.synced <= Len(log.pieces)

ReadTypes ==
    /\ reading \in [Reader -> {"idle", "refused", "returned"} \cup Calling]
    /\ access \in [Reader -> [task : Task, manifest : Release] \cup {None}]
    /\ opened \in [Reader -> Release \cup {None}]
    /\ LogTypes /\ lost \subseteq Reader

\* A piece is written
LEMMA WriteTypes ==
    ASSUME LogTypes, NEW q \in Reader, NEW kind \in {"line", "part", "end"}, Writes(q, kind)
    PROVE  LogTypes'
<1> DEFINE ps == Append(log.pieces, <<q, kind>>)
           name == IF log.name = "none" THEN "cached" ELSE log.name
<1>1. <<q, kind>> \in Piece
  BY DEF Piece
<1>2. ps \in Seq(Piece) /\ Len(ps) = Len(log.pieces) + 1 /\ Len(log.pieces) \in Nat
  BY <1>1 DEF LogTypes
<1>3. name \in {"none", "cached", "durable"}
  BY DEF LogTypes
<1>4. log' = [log EXCEPT !.name = name, !.pieces = ps]
  BY DEF Writes
<1> HIDE DEF ps, name
<1>5. log' = [name |-> name, pieces |-> ps, synced |-> log.synced]
  BY <1>4 DEF LogTypes
<1> QED
  BY <1>2, <1>3, <1>5 DEF LogTypes

\* What a power loss leaves of the log
LEMMA LeftTypes ==
    ASSUME LogTypes, LogGoes \/ LogStays
    PROVE  LogTypes'
<1>1. CASE LogGoes
  BY <1>1 DEF LogGoes, NoLog, LogTypes
<1>2. CASE LogStays
  <2>1. PICK n \in log.synced .. Len(log.pieces), torn \in BOOLEAN :
          log' = [name |-> "durable", pieces |-> Left(n, torn), synced |-> n]
    BY <1>2 DEF LogStays
  <2>2. n \in Nat /\ n <= Len(log.pieces) /\ log.pieces \in Seq(Piece)
    BY DEF LogTypes
  <2>3. \A i \in 1 .. n : log.pieces[i] \in Piece /\ <<log.pieces[i][1], "part">> \in Piece
    <3>1. \A i \in 1 .. n : log.pieces[i] \in Piece
      BY <2>2
    <3> QED
      BY <3>1 DEF Piece
  <2>4. Left(n, torn) \in [1 .. n -> Piece]
    BY <2>3 DEF Left
  <2>5. Left(n, torn) \in Seq(Piece) /\ Len(Left(n, torn)) = n
    BY <2>2, <2>4
  <2> QED
    BY <2>1, <2>2, <2>5 DEF LogTypes
<1> QED
  BY <1>1, <1>2

\* A run that goes on, fails or rolls back keeps the types of what runs know.
LEMMA RunStep ==
    ASSUME TypeOK, NEW r \in Release, Active(r), made' = made, unclean' \subseteq Release,
           staged' \in [Release -> [Sides -> {"none", "part", "full", "moved"}]],
           \/ Proceed(r) /\ step[r][1] \in {"mkdir", "fill", "rename", "sync"}
           \/ Fails(r) \/ Backs(r, "resync") \/ Backs(r, "discard") \/ Backs(r, "end")
    PROVE  RunTypes'
<1>1. step' = [step EXCEPT ![r] = step'[r]] /\ step'[r] \in (Steps \ {"idle"}) \X Sides
  <2>1. step \in [Release -> Steps \X Sides] /\ Side(r) \in Sides
    BY StepTypes DEF TypeOK, Side
  <2>2. CASE Proceed(r) /\ step[r][1] \in {"mkdir", "fill", "rename", "sync"}
    <3>1. PICK a \in {"mkdir", "fill", "rename", "sync", "done"}, b \in {"public", "private"} :
            step' = [step EXCEPT ![r] = <<a, b>>]
      BY <2>2, ProceedSteps
    <3>2. <<a, b>> \in (Steps \ {"idle"}) \X Sides
      BY DEF Steps, Sides, Ends
    <3>3. QED
      BY <2>1, <3>1, <3>2
  <2>3. CASE Fails(r) \/ Backs(r, "resync") \/ Backs(r, "discard") \/ Backs(r, "end")
    <3>1. PICK s \in (Steps \ {"idle"}) \X Sides : step' = [step EXCEPT ![r] = s]
      BY <2>1, <2>3, OtherSteps DEF Steps, Sides, Ends
    <3>2. QED
      BY <2>1, <3>1
  <2>4. QED
    BY <2>2, <2>3
<1>2. ~At(r, "idle") /\ ~At(r, "idle")' /\ \A q \in Release \ {r} : step'[q] = step[q]
  BY <1>1 DEF TypeOK, Active, At, Ends
<1>3. step' \in [Release -> Steps \X Sides]
  BY <1>1 DEF TypeOK
<1>4. QED
  BY <1>2, <1>3 DEF RunTypes, TypeOK, At

\* Every step preserves the types.
LEMMA TypeStep == TypeOK /\ [Next]_vars => TypeOK'
<1> SUFFICES ASSUME TypeOK, [Next]_vars PROVE TypeOK'
  OBVIOUS
<1>0. /\ RunTypes /\ PathTypes /\ ReadTypes /\ faults \in 0 .. MaxFaults
      /\ RunTypes' /\ PathTypes' /\ ReadTypes' /\ faults' \in 0 .. MaxFaults => TypeOK'
  BY DEF TypeOK, RunTypes, PathTypes, ReadTypes, LogTypes, Piece
<1>1. /\ UNCHANGED <<step, made, staged, unclean>> => RunTypes'
      /\ UNCHANGED <<made, place, durable>> => PathTypes'
      /\ UNCHANGED reads => ReadTypes'
  BY <1>0 DEF RunTypes, PathTypes, ReadTypes, LogTypes, At, Target, reads
<1>2. CASE UNCHANGED vars
  BY <1>0, <1>1, <1>2 DEF vars, publication
<1>3. ASSUME NEW r \in Release, Publish(r) PROVE TypeOK'
  <2>1. UNCHANGED reads
    BY <1>3 DEF Publish, Prepare, Mkdir, Fill, Rename, Sync, Withdraw, Resync, Discard
  <2>2. faults' \in 0 .. MaxFaults
    BY <1>0, <1>3, FaultType
       DEF Publish, Prepare, Mkdir, Fill, Rename, Sync, Withdraw, Resync, Discard, Stuck
  <2>3. CASE Prepare(r)
    <3>1. PICK plan \in Plans : /\ Accepts(plan) /\ made' = [made EXCEPT ![r] = plan]
                                /\ \E next \in {Forward[1], <<"done", "public">>} :
                                      step' = [step EXCEPT ![r] = next]
      BY <2>3 DEF Prepare
    <3>2. UNCHANGED <<staged, unclean, place, durable>> /\ plan # None
      BY <2>3, CorpusAssumption DEF Prepare
    <3>3. RunTypes'
      <4>1. PICK s \in Steps \X Sides : step' = [step EXCEPT ![r] = s]
        BY <3>1 DEF Forward, Steps, Ends, Sides
      <4>2. \A q \in Release \ {r} : step'[q] = step[q] /\ made'[q] = made[q]
        BY <1>0, <3>1, <4>1 DEF RunTypes
      <4>3. made'[r] = plan
        BY <1>0, <3>1 DEF RunTypes
      <4>4. \A q \in Release : IF At(q, "idle")' THEN made'[q] = None
                              ELSE made'[q] # None /\ Accepts(made'[q])
        <5>1. \A q \in Release \ {r} : IF At(q, "idle")' THEN made'[q] = None
                                      ELSE made'[q] # None /\ Accepts(made'[q])
          BY <1>0, <4>2 DEF RunTypes, At, Accepts
        <5>2. ~At(r, "idle")'
          BY <1>0, <3>1, <4>1 DEF RunTypes, At, Forward
        <5>3. QED
          BY <3>1, <3>2, <4>3, <5>1, <5>2
      <4>5. step' \in [Release -> Steps \X Sides] /\ made' \in [Release -> Plans \cup {None}]
        BY <1>0, <3>1, <4>1 DEF RunTypes
      <4>6. (\A q \in Release :
               IF At(q, "idle") THEN made[q] = None
               ELSE made[q] # None /\ Approved(made[q].corpus)
                    /\ made[q].held \in Splits(made[q].corpus))'
        BY <4>4 DEF Accepts, Approved, Splits, InStratum
      <4>7. QED
        BY <1>0, <3>2, <4>5, <4>6 DEF RunTypes
    <3>4. PathTypes'
      <4>1. made[r] = None
        BY <2>3 DEF TypeOK, Prepare, At
      <4>2. \A q \in Release : made[q] # None => made'[q] = made[q]
        BY <1>0, <3>1, <4>1 DEF RunTypes
      <4>3. QED
        BY <1>0, <3>2, <4>2 DEF PathTypes, Target
    <3>5. QED
      BY <1>0, <1>1, <2>1, <2>2, <3>3, <3>4
  <2>4. ASSUME ~Prepare(r) PROVE RunTypes' /\ PathTypes'
    <3>1. /\ Active(r) /\ made' = made
      BY <1>3, <2>4 DEF Publish, Mkdir, Fill, Rename, Sync, Withdraw, Resync, Discard, Active, At, Ends
    <3>2. /\ Side(r) \in Sides /\ made[r] # None
          /\ \A side \in Sides : Target(r, side) \in Path
      BY <3>1, StepTypes, Targets DEF Side
    <3>3. /\ staged' \in [Release -> [Sides -> {"none", "part", "full", "moved"}]]
          /\ unclean' \subseteq Release
      <4>1. \/ staged' = staged
            \/ \E how \in {"none", "part", "full", "moved"} :
                  staged' = [staged EXCEPT ![r][Side(r)] = how]
        BY <1>3, <2>4 DEF Publish, Mkdir, Fill, Rename, Sync, Withdraw, Resync, Discard
      <4>2. unclean' = unclean \/ unclean' = unclean \cup {r}
        BY <1>3, <2>4 DEF Publish, Mkdir, Fill, Rename, Sync, Withdraw, Resync, Discard, Stuck
      <4>3. staged \in [Release -> [Sides -> {"none", "part", "full", "moved"}]] /\ unclean \subseteq Release
        BY <1>0 DEF RunTypes
      <4>4. ASSUME NEW how \in {"none", "part", "full", "moved"},
                   staged' = [staged EXCEPT ![r][Side(r)] = how]
            PROVE  staged' \in [Release -> [Sides -> {"none", "part", "full", "moved"}]]
        <5>1. [staged[r] EXCEPT ![Side(r)] = how] \in [Sides -> {"none", "part", "full", "moved"}]
          BY <3>2, <4>3
        <5>2. QED
          BY <4>3, <4>4, <5>1
      <4>5. QED
        BY <4>1, <4>2, <4>3, <4>4
    <3>4. \/ Proceed(r) /\ step[r][1] \in {"mkdir", "fill", "rename", "sync"}
          \/ Fails(r) \/ Backs(r, "resync") \/ Backs(r, "discard") \/ Backs(r, "end")
      BY <1>3, <2>4 DEF Publish, Mkdir, Fill, Rename, Sync, Withdraw, Resync, Discard, Stuck, At
    <3>5. RunTypes'
      BY <3>1, <3>3, <3>4, RunStep
    <3>6. PathTypes'
      <4>1. \/ UNCHANGED <<place, durable>>
            \/ Name(Target(r, Side(r)), r) \/ Name(Target(r, Side(r)), None)
            \/ LET x == Target(r, Side(r))
               IN  place' = place /\ durable' = [durable EXCEPT ![x] = {place[x]}]
        BY <1>3, <2>4 DEF Publish, Mkdir, Fill, Rename, Sync, Withdraw, Resync, Discard
      <4>2. QED
        BY <1>1, <3>1, <3>2, <4>1, PathStep
    <3>7. QED
      BY <3>5, <3>6
  <2>5. QED
    BY <1>0, <1>1, <2>1, <2>2, <2>3, <2>4
<1>4. ASSUME NEW q \in Reader, ReadTask(q) PROVE TypeOK'
  <2>1. UNCHANGED publication
    BY <1>4 DEF ReadTask, Look, Write, Flush, Open
  <2>2. faults' \in 0 .. MaxFaults
    BY <1>0, <1>4, FaultType DEF ReadTask, Look, Write, Flush, Open
  <2>3. ReadTypes'
    <3>1. CASE Look(q)
      BY <1>0, <3>1 DEF Look, Read, ReadTypes, LogTypes, Calling, PathTypes, Path
    <3>2. CASE Write(q)
      <4>1. LogTypes'
        <5>1. UNCHANGED log => LogTypes'
          BY <1>0 DEF ReadTypes, LogTypes
        <5> QED
          BY <1>0, <3>2, <5>1, WriteTypes DEF Write, ReadTypes
      <4> QED
        BY <1>0, <3>2, <4>1 DEF Write, Read, ReadTypes, Calling
    <3>3. CASE Flush(q)
      <4>1. LogTypes'
        <5>1. UNCHANGED log => LogTypes'
          BY <1>0 DEF ReadTypes, LogTypes
        <5>2. ASSUME log' = [log EXCEPT !.synced = Len(log.pieces)] PROVE LogTypes'
          BY <1>0, <5>2 DEF ReadTypes, LogTypes
        <5> QED
          BY <3>3, <5>1, <5>2 DEF Flush
      <4> QED
        BY <1>0, <3>3, <4>1 DEF Flush, Read, ReadTypes, Calling
    <3>4. CASE Open(q)
      BY <1>0, <3>4 DEF Open, Read, ReadTypes, LogTypes, PathTypes, Path
    <3>5. QED
      BY <1>4, <3>1, <3>2, <3>3, <3>4 DEF ReadTask
  <2>4. QED
    BY <1>0, <1>1, <2>1, <2>2, <2>3 DEF publication
<1>5. CASE Kill
  <2>1. UNCHANGED <<made, staged, place, durable, unclean, access, opened, log, lost>>
        /\ faults' \in 0 .. MaxFaults
    BY <1>5, FaultType DEF Kill
  <2>2. RunTypes'
    <3>1. CASE UNCHANGED step
      BY <1>1, <2>1, <3>1
    <3>2. ASSUME NEW r \in Release, Active(r), step' = [step EXCEPT ![r] = <<"dead", @[2]>>]
          PROVE  RunTypes'
      BY <1>0, <2>1, <3>2, StepTypes DEF RunTypes, At, Active, Ends, Steps
    <3>3. QED
      BY <1>5, <3>1, <3>2 DEF Kill, Active
  <2>3. ReadTypes'
    BY <1>0, <1>5, <2>1 DEF Kill, Read, ReadTypes, LogTypes
  <2>4. QED
    BY <1>0, <1>1, <2>1, <2>2, <2>3
<1>6. CASE PowerLoss
  <2>1. /\ UNCHANGED <<made, staged, unclean, access, opened>>
        /\ faults' \in 0 .. MaxFaults
    BY <1>6, FaultType DEF PowerLoss
  <2>2. RunTypes'
    <3>1. step' = [r \in Release |-> IF step[r][1] \in Ends THEN step[r] ELSE <<"dead", Side(r)>>]
      BY <1>6 DEF PowerLoss
    <3>2. QED
      BY <1>0, <2>1, <3>1, StepTypes DEF RunTypes, At, Ends, Steps, Side
  <2>3. PathTypes'
    <3>1. PICK d \in [Path -> Release \cup {None}] :
            /\ \A x \in Path : d[x] \in durable[x]
            /\ place' = d /\ durable' = [x \in Path |-> {d[x]}]
      BY <1>6 DEF PowerLoss
    <3>2. QED
      BY <1>0, <2>1, <3>1 DEF PathTypes, Target
  <2>4. ReadTypes'
    <3>1. LogTypes'
      BY <1>0, <1>6, LeftTypes DEF PowerLoss, ReadTypes
    <3>2. lost' \subseteq Reader
      <4>1. \A i \in DOMAIN log.pieces : log.pieces[i][1] \in Reader
        BY <1>0 DEF ReadTypes, LogTypes, Piece
      <4> QED
        BY <1>0, <1>6, <4>1 DEF PowerLoss, LogGoes, LogStays, ReadTypes
    <3>3. QED
      BY <1>0, <1>6, <2>1, <3>1, <3>2 DEF PowerLoss, ReadTypes
  <2>5. QED
    BY <1>0, <2>1, <2>2, <2>3, <2>4
<1>7. QED
  BY <1>2, <1>3, <1>4, <1>5, <1>6 DEF Next

-----------------------------------------------------------------------------
\* Steps of a run

\* A step of run r that changes no path.
LEMMA LocalStep ==
    ASSUME CInv, TypeOK', NEW r \in Release, made' = made, UNCHANGED <<place, durable>>,
           \A q \in Release \ {r} : step'[q] = step[q] /\ staged'[q] = staged[q],
           unclean' \in {unclean, unclean \cup {r}}, Knows(r)'
    PROVE  CInv'
<1>1. \A q \in Release : Spared(q)
  BY DEF Spared
<1>2. \A q \in Release \ {r} : Knows(q)'
  BY <1>1, OthersKnow
<1>3. PublicHasPrivate'
  <2>1. \A x \in PublicPath :
           r \in durable'[x] /\ r \notin unclean' => durable'[made'[r].private] = {r}
    BY CorpusAssumption DEF CInv, PublicHasPrivate
  <2>2. QED
    BY <1>1, <2>1, PublicStep
<1>4. QED
  BY <1>2, <1>3 DEF CInv

\* A step of run r at the path of one of its sides.
LEMMA PathChange ==
    ASSUME CInv, TypeOK', NEW r \in Release, made' = made, unclean' = unclean,
           \A q \in Release \ {r} : step'[q] = step[q] /\ staged'[q] = staged[q],
           NEW x \in Path,
           \/ Name(x, r) /\ place[x] = None
           \/ Name(x, None) /\ place[x] = r
           \/ place' = place /\ durable' = [durable EXCEPT ![x] = {place[x]}],
           Knows(r)',
           \A y \in PublicPath :
              r \in durable'[y] /\ r \notin unclean => durable'[made[r].private] = {r}
    PROVE  CInv'
<1>1. TypeOK
  BY DEF CInv
<1>2. ASSUME NEW q \in Release, q # r PROVE Spared(q)
  <2>1. /\ q # None /\ r # None /\ \A y \in Path : place[y] \in durable[y]
        /\ durable \in [Path -> SUBSET (Release \cup {None})]
        /\ place \in [Path -> Release \cup {None}]
    BY <1>1, CorpusAssumption DEF TypeOK
  <2>2. CASE Name(x, r) /\ place[x] = None
    BY <1>2, <2>1, <2>2 DEF Spared, Name
  <2>3. CASE Name(x, None) /\ place[x] = r
    BY <1>2, <2>1, <2>3 DEF Spared, Name
  <2>4. CASE place' = place /\ durable' = [durable EXCEPT ![x] = {place[x]}]
    BY <1>2, <2>1, <2>4 DEF Spared
  <2>5. QED
    BY <2>2, <2>3, <2>4
<1>3. \A q \in Release \ {r} : Knows(q)'
  BY <1>2, OthersKnow
<1>4. PublicHasPrivate'
  BY <1>2, PublicStep
<1>5. QED
  BY <1>3, <1>4 DEF CInv

\* Both sides of a run that has staged nothing, or only part.
LEMMA StagingStep ==
    ASSUME CInv, TypeOK', NEW r \in Release, Mkdir(r) \/ Fill(r)
    PROVE  CInv'
<1>1. TypeOK /\ Knows(r) /\ made[r] # None
  BY StepTypes DEF CInv, Mkdir, Fill, Active, At, Ends
<1>2. /\ made' = made /\ unclean' = unclean /\ UNCHANGED <<place, durable>>
      /\ step[r][1] \in {"mkdir", "fill"}
      /\ \A side \in Sides : staged[r][side] # "moved"
  BY <1>1 DEF Mkdir, Fill, At, Knows, StagedAt
<1>3. /\ \A q \in Release \ {r} : step'[q] = step[q] /\ staged'[q] = staged[q]
      /\ \A side \in Sides : staged'[r][side] # "moved"
      /\ step'[r] \in {<<"mkdir", "private">>, <<"fill", "public">>, <<"fill", "private">>,
                       <<"rename", "private">>, <<"withdraw", "public">>}
  <2>1. /\ \A q \in Release \ {r} : step'[q] = step[q]
        /\ step'[r] \in {<<"mkdir", "private">>, <<"fill", "public">>, <<"fill", "private">>,
                         <<"rename", "private">>, <<"withdraw", "public">>}
    <3>1. CASE Proceed(r)
      BY <1>1, <1>2, <3>1, ProceedSteps DEF TypeOK
    <3>2. CASE Fails(r)
      BY <1>1, <3>2, OtherSteps DEF TypeOK
    <3>3. QED
      BY <3>1, <3>2 DEF Mkdir, Fill
  <2>2. /\ \A q \in Release \ {r} : staged'[q] = staged[q]
        /\ \A side \in Sides : staged'[r][side] # "moved"
    BY <1>1, <1>2 DEF Mkdir, Fill, TypeOK
  <2>3. QED
    BY <2>1, <2>2
<1>4. \A side \in Sides : r \notin unclean => r \notin durable[Target(r, side)]
  BY <1>1, <1>2 DEF Knows, OnlyMovedKept
<1>5. Knows(r)'
  <2>1. StagedAt(r)'
    BY <1>3 DEF StagedAt, At, Side, Sides
  <2>2. MovedIsPlaced(r)' /\ WithdrawnIsGone(r)' /\ PrivateFirst(r)'
    BY <1>3 DEF MovedIsPlaced, WithdrawnIsGone, PrivateFirst, At
  <2>3. OnlyMovedKept(r)'
    BY <1>2, <1>4 DEF OnlyMovedKept, Target
  <2>4. QED
    BY <2>1, <2>2, <2>3 DEF Knows
<1>6. QED
  BY <1>2, <1>3, <1>5, LocalStep

\* A publication that fails goes to its rollback and changes nothing yet.
LEMMA FailStep ==
    ASSUME CInv, TypeOK', NEW r \in Release, Fails(r), made' = made, staged' = staged,
           unclean' = unclean, UNCHANGED <<place, durable>>, Active(r), ~At(r, "resync")
    PROVE  CInv'
<1>1. TypeOK /\ Knows(r)
  BY DEF CInv
<1>2. /\ \A q \in Release \ {r} : step'[q] = step[q]
      /\ step'[r] = <<"withdraw", "public">>
  BY <1>1, OtherSteps DEF TypeOK
<1>3. StagedAt(r)'
  BY <1>2 DEF StagedAt, At, Side
<1>4. MovedIsPlaced(r)' /\ WithdrawnIsGone(r)' /\ PrivateFirst(r)'
  BY <1>1, <1>2 DEF Knows, MovedIsPlaced, WithdrawnIsGone, PrivateFirst, At, Target
<1>5. OnlyMovedKept(r)'
  BY <1>1, <1>2 DEF Knows, OnlyMovedKept, Target, At, Active, Ends
<1>6. QED
  BY <1>2, <1>3, <1>4, <1>5, LocalStep DEF Knows

\* A tree gets its name: the public one only when the private one is safe.
LEMMA RenameStep ==
    ASSUME CInv, TypeOK', NEW r \in Release, Rename(r)
    PROVE  CInv'
<1> DEFINE side == Side(r)
           x == Target(r, side)
<1>1. /\ TypeOK /\ Knows(r) /\ Active(r) /\ made[r] # None
      /\ made' = made /\ unclean' = unclean /\ At(r, "rename")
  BY StepTypes DEF CInv, Rename, Active, At, Ends
<1>2. /\ Target(r, "public") \in PublicPath /\ Target(r, "private") \in PrivatePath
      /\ made[r].private = Target(r, "private")
      /\ Target(r, "public") # Target(r, "private")
      /\ side \in {"public", "private"} /\ step[r] = <<"rename", side>> /\ x \in Path
  BY <1>1, Targets, StepTypes DEF Side, Sides, At
<1>3. CASE Fails(r) /\ UNCHANGED <<staged, place, durable>>
  BY <1>1, <1>3, FailStep DEF At
<1>4. CASE /\ place[x] = None /\ Name(x, r) /\ Proceed(r)
           /\ staged' = [staged EXCEPT ![r][side] = "moved"]
  <2>1. /\ \A q \in Release \ {r} : step'[q] = step[q] /\ staged'[q] = staged[q]
        /\ step'[r] = <<"sync", side>>
        /\ staged'[r][side] = "moved"
        /\ \A other \in Sides \ {side} : staged'[r][other] = staged[r][other]
    <3>1. step' = [step EXCEPT ![r] = step'[r]] /\ step'[r] = <<"sync", side>>
      BY <1>1, <1>2, <1>4, ProceedSteps
    <3>2. QED
      BY <1>1, <1>2, <1>4, <3>1 DEF TypeOK, Sides
  <2>2. /\ place'[x] = r /\ \A y \in Path \ {x} : place'[y] = place[y] /\ durable'[y] = durable[y]
    BY <1>1, <1>2, <1>4 DEF Name, TypeOK
  <2>3. \A other \in Sides \ {side} : Target(r, other) \in Path \ {x}
    BY <1>2 DEF Sides, Path
  <2>4. side = "private" => staged[r]["public"] # "moved"
    BY <1>1, <1>2 DEF Knows, StagedAt
  <2>5. StagedAt(r)'
    BY <2>1, <2>4 DEF StagedAt, At, Side, Sides
  <2>6. MovedIsPlaced(r)'
    BY <1>1, <2>1, <2>2, <2>3 DEF Knows, MovedIsPlaced, Active, Target
  <2>7. WithdrawnIsGone(r)' /\ PrivateFirst(r)'
    BY <2>1 DEF WithdrawnIsGone, PrivateFirst, At
  <2>8. OnlyMovedKept(r)'
    BY <1>1, <1>2, <2>1, <2>2, <2>3 DEF Knows, OnlyMovedKept, Target
  <2>9. ASSUME NEW y \in PublicPath, r \in durable'[y], r \notin unclean
        PROVE  durable'[made[r].private] = {r}
    <3>1. CASE side = "public"
      BY <1>1, <1>2, <2>2, <3>1 DEF Knows, PrivateFirst, Path
    <3>2. CASE side = "private"
      <4>1. y # x /\ y \in Path
        BY <1>2, <3>2, CorpusAssumption DEF Path
      <4>2. r \in durable[y] /\ y = Target(r, "public")
        BY <1>1, <2>2, <2>9, <4>1, PublicTarget
      <4>3. QED
        BY <1>1, <1>2, <2>4, <2>9, <3>2, <4>2 DEF Knows, OnlyMovedKept, Sides
    <3>3. QED
      BY <1>2, <3>1, <3>2
  <2>10. Knows(r)'
    BY <2>5, <2>6, <2>7, <2>8 DEF Knows
  <2> HIDE DEF x
  <2>11. QED
    BY <1>1, <1>2, <1>4, <2>1, <2>9, <2>10, PathChange
<1>5. QED
  BY <1>3, <1>4 DEF Rename

\* A directory is synced: the tree at its path is safe.
LEMMA SyncStep ==
    ASSUME CInv, TypeOK', NEW r \in Release, Sync(r)
    PROVE  CInv'
<1> DEFINE side == Side(r)
           x == Target(r, side)
<1>1. /\ TypeOK /\ Knows(r) /\ Active(r) /\ made[r] # None
      /\ made' = made /\ unclean' = unclean /\ At(r, "sync")
      /\ staged' = staged /\ place' = place
  BY StepTypes DEF CInv, Sync, Active, At, Ends
<1>2. /\ Target(r, "public") \in PublicPath /\ Target(r, "private") \in PrivatePath
      /\ made[r].private = Target(r, "private")
      /\ side \in {"public", "private"} /\ step[r] = <<"sync", side>> /\ x \in Path
      /\ made[r].private \in Path
  BY <1>1, Targets, StepTypes DEF Side, Sides, At, Path
<1>3. CASE Fails(r) /\ UNCHANGED durable
  BY <1>1, <1>3, FailStep DEF At
<1>4. CASE Proceed(r) /\ durable' = [durable EXCEPT ![x] = {place[x]}]
  <2>1. /\ \A q \in Release \ {r} : step'[q] = step[q] /\ staged'[q] = staged[q]
        /\ step'[r] = IF side = "private" THEN <<"rename", "public">> ELSE <<"done", "public">>
    <3>1. /\ step' = [step EXCEPT ![r] = step'[r]]
          /\ step'[r] = IF side = "private" THEN <<"rename", "public">> ELSE <<"done", "public">>
      BY <1>1, <1>2, <1>4, ProceedSteps
    <3>2. QED
      BY <1>1, <3>1 DEF TypeOK
  <2>2. place[x] = r /\ \A y \in Path : place[y] \in durable[y]
    BY <1>1, <1>2 DEF Knows, MovedIsPlaced, StagedAt, At, Side, Sides, TypeOK
  <2>3. /\ \A y \in Path : r \in durable'[y] => r \in durable[y]
        /\ \A y \in Path : durable[y] = {r} => durable'[y] = {r}
        /\ durable'[x] = {r}
    BY <1>1, <1>2, <1>4, <2>2 DEF TypeOK
  <2>4. StagedAt(r)'
    BY <1>1, <1>2, <2>1 DEF Knows, StagedAt, At, Side
  <2>5. MovedIsPlaced(r)'
    BY <1>1, <1>2, <2>1 DEF Knows, MovedIsPlaced, Active, Ends, Target
  <2>6. WithdrawnIsGone(r)' /\ PrivateFirst(r)'
    BY <1>1, <1>2, <2>1, <2>3 DEF WithdrawnIsGone, PrivateFirst, At
  <2>7. OnlyMovedKept(r)'
    <3>1. \A other \in Sides : Target(r, other) \in Path
      BY <1>2 DEF Sides, Path
    <3>2. QED
      BY <1>1, <1>2, <2>3, <3>1 DEF Knows, OnlyMovedKept, Target
  <2>8. ASSUME NEW y \in PublicPath, r \in durable'[y], r \notin unclean
        PROVE  durable'[made[r].private] = {r}
    BY <1>2, <2>3, <2>8, CorpusAssumption DEF CInv, PublicHasPrivate, Path
  <2>9. Knows(r)'
    BY <2>4, <2>5, <2>6, <2>7 DEF Knows
  <2> HIDE DEF x
  <2>10. QED
    BY <1>1, <1>2, <1>4, <2>1, <2>8, <2>9, PathChange
<1>5. QED
  BY <1>3, <1>4 DEF Sync

\* The rollback of a side ends or goes on without a change of the paths; what it
\* leaves there is known, or the run asks for manual cleanup.
LEMMA RollbackStep ==
    ASSUME CInv, TypeOK', NEW r \in Release, Active(r), made' = made, UNCHANGED <<place, durable>>,
           step[r][1] \in {"withdraw", "resync", "discard"},
           \A q \in Release \ {r} : staged'[q] = staged[q],
           \A side \in Sides \ {Side(r)} : staged'[r][side] = staged[r][side],
           staged'[r][Side(r)] \in {staged[r][Side(r)], "none"},
           \/ unclean' = unclean \cup {r} /\ Backs(r, "end") /\ staged' = staged
           \/ /\ unclean' = unclean /\ ~At(r, "resync")
              /\ \/ Backs(r, "end") /\ staged'[r][Side(r)] = "none"
                 \/ /\ Backs(r, "discard") /\ staged' = staged
                    /\ staged[r][Side(r)] \notin {"none", "moved"}
              /\ staged[r][Side(r)] # "moved"
    PROVE  CInv'
<1> DEFINE side == Side(r)
<1>1. /\ TypeOK /\ Knows(r) /\ made[r] # None
      /\ side \in {"public", "private"} /\ step[r] = <<step[r][1], side>>
  BY StepTypes DEF CInv, Side, Sides
<1>2. \A q \in Release \ {r} : step'[q] = step[q]
  BY <1>1, OtherSteps DEF TypeOK
<1>3. step'[r] \in {<<"withdraw", "private">>, <<"failed", "public">>, <<"discard", side>>}
  BY <1>1, OtherSteps DEF TypeOK
<1>4. \A s \in Sides : staged'[r][s] = "moved" => staged[r][s] = "moved"
  BY <1>1 DEF Sides
<1>5. MovedIsPlaced(r)' /\ WithdrawnIsGone(r)' /\ PrivateFirst(r)'
  BY <1>1, <1>3, <1>4 DEF Knows, MovedIsPlaced, WithdrawnIsGone, PrivateFirst, At, Target
<1>6. CASE unclean' = unclean \cup {r} /\ Backs(r, "end") /\ staged' = staged
  <2>1. StagedAt(r)'
    <3>1. step'[r] \in {<<"withdraw", "private">>, <<"failed", "public">>}
      BY <1>1, <1>6, OtherSteps DEF TypeOK
    <3>2. QED
      BY <1>6, <3>1 DEF StagedAt, At, Side
  <2>2. OnlyMovedKept(r)'
    BY <1>6 DEF OnlyMovedKept
  <2>3. QED
    BY <1>2, <1>5, <1>6, <2>1, <2>2, LocalStep DEF Knows
<1>7. CASE /\ unclean' = unclean /\ ~At(r, "resync")
           /\ \/ Backs(r, "end") /\ staged'[r][side] = "none"
              \/ /\ Backs(r, "discard") /\ staged' = staged
                 /\ staged[r][side] \notin {"none", "moved"}
           /\ staged[r][side] # "moved"
  <2>1. r \notin unclean /\ side = "private" => staged[r]["public"] = "none"
    BY <1>1 DEF Knows, StagedAt
  <2>2. StagedAt(r)'
    <3>1. CASE Backs(r, "end") /\ staged'[r][side] = "none"
      <4>1. IF side = "public" THEN step'[r] = <<"withdraw", "private">>
            ELSE step'[r] = <<"failed", "public">>
        BY <1>1, <3>1, OtherSteps DEF TypeOK
      <4>2. CASE side = "public"
        BY <1>7, <3>1, <4>1, <4>2 DEF StagedAt, At, Side, Sides
      <4>3. CASE side = "private"
        BY <1>1, <1>7, <2>1, <3>1, <4>1, <4>3 DEF StagedAt, At, Side, Sides
      <4>4. QED
        BY <1>1, <4>2, <4>3
    <3>2. CASE Backs(r, "discard") /\ staged' = staged /\ staged[r][side] \notin {"none", "moved"}
      <4>1. step'[r] = <<"discard", side>>
        BY <1>1, <3>2, OtherSteps DEF TypeOK
      <4>2. QED
        BY <1>1, <1>7, <2>1, <3>2, <4>1 DEF StagedAt, At, Side
    <3>3. QED
      BY <1>7, <3>1, <3>2
  <2>3. OnlyMovedKept(r)'
    <3>1. \A s \in Sides : staged[r][s] = "moved" => staged'[r][s] = "moved"
      BY <1>1, <1>7 DEF Sides
    <3>2. step[r][1] # "dead" /\ \A s \in Sides : step[r] # <<"resync", s>>
      BY <1>1, <1>7 DEF At
    <3>3. QED
      BY <1>1, <1>7, <3>1, <3>2 DEF Knows, OnlyMovedKept, Target
  <2>4. QED
    BY <1>2, <1>5, <1>7, <2>2, <2>3, LocalStep DEF Knows
<1>8. QED
  BY <1>6, <1>7

\* A tree is moved back: the public one first.
LEMMA WithdrawStep ==
    ASSUME CInv, TypeOK', NEW r \in Release, Withdraw(r)
    PROVE  CInv'
<1> DEFINE side == Side(r)
           x == Target(r, side)
<1>1. /\ TypeOK /\ Knows(r) /\ Active(r) /\ made[r] # None
      /\ made' = made /\ At(r, "withdraw") /\ r # None
  BY StepTypes, CorpusAssumption DEF CInv, Withdraw, Active, At, Ends
<1>2. /\ Target(r, "public") \in PublicPath /\ Target(r, "private") \in PrivatePath
      /\ made[r].private = Target(r, "private")
      /\ Target(r, "public") # Target(r, "private")
      /\ side \in {"public", "private"} /\ step[r] = <<"withdraw", side>> /\ x \in Path
  BY <1>1, Targets, StepTypes DEF Side, Sides, At
<1>3. staged[r][side] = "moved" => place[x] = r
  BY <1>1, <1>2 DEF Knows, MovedIsPlaced, Sides
<1>4. CASE /\ IsOut(r, side) /\ Name(x, None) /\ unclean' = unclean
           /\ staged' = [staged EXCEPT ![r][side] = "full"] /\ Backs(r, "resync")
  <2>1. /\ place[x] = r /\ Name(x, None) /\ unclean' = unclean
        /\ staged' = [staged EXCEPT ![r][side] = "full"] /\ Backs(r, "resync")
    BY <1>3, <1>4 DEF IsOut
  <2>2. /\ \A q \in Release \ {r} : step'[q] = step[q] /\ staged'[q] = staged[q]
        /\ step'[r] = <<"resync", side>>
        /\ staged'[r][side] = "full"
        /\ \A other \in Sides \ {side} : staged'[r][other] = staged[r][other]
    <3>1. step' = [step EXCEPT ![r] = <<"resync", side>>]
      BY <1>1, <2>1, OtherSteps
    <3>2. QED
      BY <1>1, <1>2, <2>1, <3>1 DEF TypeOK, Sides
  <2>3. /\ place'[x] = None /\ durable'[x] = durable[x] \cup {None}
        /\ \A y \in Path \ {x} : place'[y] = place[y] /\ durable'[y] = durable[y]
    BY <1>1, <1>2, <2>1 DEF Name, TypeOK
  <2>4. \A other \in Sides \ {side} : Target(r, other) \in Path \ {x}
    BY <1>2 DEF Sides, Path
  <2>5. StagedAt(r)'
    BY <1>1, <1>2, <2>1, <2>2 DEF Knows, StagedAt, At, Side, Sides
  <2>6. MovedIsPlaced(r)'
    BY <1>1, <2>2, <2>3, <2>4 DEF Knows, MovedIsPlaced, Active, Target
  <2>7. WithdrawnIsGone(r)' /\ PrivateFirst(r)'
    BY <1>1, <2>2, <2>3 DEF WithdrawnIsGone, PrivateFirst, At, Side, Target
  <2>8. OnlyMovedKept(r)'
    BY <1>1, <1>2, <2>1, <2>2, <2>3, <2>4 DEF Knows, OnlyMovedKept, Target
  <2>9. ASSUME NEW y \in PublicPath, r \in durable'[y], r \notin unclean
        PROVE  durable'[made[r].private] = {r}
    <3>1. r \in durable[y] /\ y = Target(r, "public")
      BY <1>1, <2>3, <2>9, PublicTarget DEF Path
    <3>2. CASE side = "public"
      <4>1. durable[made[r].private] = {r}
        BY <1>1, <2>9, <3>1 DEF CInv, PublicHasPrivate
      <4>2. QED
        BY <1>2, <2>3, <3>2, <4>1 DEF Path
    <3>3. CASE side = "private"
      <4>1. staged[r]["public"] = "none"
        BY <1>1, <1>2, <2>9, <3>3 DEF Knows, StagedAt
      <4>2. QED
        BY <1>1, <1>2, <2>9, <3>1, <3>3, <4>1 DEF Knows, OnlyMovedKept, Sides
    <3>4. QED
      BY <1>2, <3>2, <3>3
  <2>10. Knows(r)'
    BY <2>5, <2>6, <2>7, <2>8 DEF Knows
  <2> HIDE DEF x
  <2>11. QED
    BY <1>1, <1>2, <2>1, <2>2, <2>9, <2>10, PathChange
<1>5. CASE Stuck(r) /\ UNCHANGED <<staged, place, durable>>
  BY <1>1, <1>5, RollbackStep DEF Stuck, At
<1>6. CASE staged[r][side] = "none" /\ Backs(r, "end") /\ UNCHANGED <<staged, place, durable, unclean>>
  BY <1>1, <1>6, RollbackStep DEF At
<1>7. CASE /\ staged[r][side] # "none" /\ ~IsOut(r, side) /\ Backs(r, "discard")
           /\ UNCHANGED <<staged, place, durable, unclean>>
  <2>1. staged[r][side] # "moved"
    BY <1>1, <1>3, <1>7 DEF IsOut
  <2>2. QED
    BY <1>1, <1>7, <2>1, RollbackStep DEF At
<1>8. QED
  <2>1. CASE staged[r][side] = "none"
    BY <1>5, <1>6, <2>1 DEF Withdraw
  <2>2. CASE staged[r][side] # "none" /\ ~IsOut(r, side)
    BY <1>7, <2>2 DEF Withdraw
  <2>3. CASE staged[r][side] # "none" /\ IsOut(r, side)
    BY <1>4, <1>5, <2>3 DEF Withdraw
  <2>4. QED
    BY <2>1, <2>2, <2>3

\* The withdrawal is made durable.
LEMMA ResyncStep ==
    ASSUME CInv, TypeOK', NEW r \in Release, Resync(r)
    PROVE  CInv'
<1> DEFINE side == Side(r)
           x == Target(r, side)
<1>1. /\ TypeOK /\ Knows(r) /\ Active(r) /\ made[r] # None
      /\ made' = made /\ At(r, "resync") /\ staged' = staged /\ place' = place
  BY StepTypes DEF CInv, Resync, Active, At, Ends
<1>2. /\ Target(r, "public") \in PublicPath /\ Target(r, "private") \in PrivatePath
      /\ made[r].private = Target(r, "private")
      /\ side \in {"public", "private"} /\ step[r] = <<"resync", side>> /\ x \in Path
  BY <1>1, Targets, StepTypes DEF Side, Sides, At
<1>3. CASE Stuck(r) /\ UNCHANGED durable
  BY <1>1, <1>3, RollbackStep DEF Stuck, At
<1>4. CASE /\ durable' = [durable EXCEPT ![x] = {place[x]}] /\ Backs(r, "discard")
           /\ unclean' = unclean
  <2>1. /\ \A q \in Release \ {r} : step'[q] = step[q] /\ staged'[q] = staged[q]
        /\ step'[r] = <<"discard", side>>
    BY <1>1, <1>4, OtherSteps DEF TypeOK
  <2>2. place[x] # r /\ \A y \in Path : place[y] \in durable[y]
    BY <1>1, <1>2 DEF Knows, WithdrawnIsGone, TypeOK
  <2>3. /\ \A y \in Path : r \in durable'[y] => r \in durable[y]
        /\ r \notin durable'[x]
    BY <1>1, <1>2, <1>4, <2>2 DEF TypeOK
  <2>4. StagedAt(r)'
    BY <1>1, <1>2, <1>4, <2>1 DEF Knows, StagedAt, At, Side
  <2>5. MovedIsPlaced(r)'
    BY <1>1, <2>1 DEF Knows, MovedIsPlaced, Target
  <2>6. WithdrawnIsGone(r)' /\ PrivateFirst(r)'
    BY <2>1 DEF WithdrawnIsGone, PrivateFirst, At
  <2>7. OnlyMovedKept(r)'
    <3>1. \A other \in Sides : Target(r, other) \in Path
      BY <1>2 DEF Sides, Path
    <3>2. \A other \in Sides \ {side} : step[r] # <<"resync", other>>
      BY <1>2 DEF Sides
    <3>3. QED
      BY <1>1, <1>2, <1>4, <2>3, <3>1, <3>2 DEF Knows, OnlyMovedKept, Target
  <2>8. ASSUME NEW y \in PublicPath, r \in durable'[y], r \notin unclean
        PROVE  durable'[made[r].private] = {r}
    <3>1. r \in durable[y] /\ y = Target(r, "public")
      BY <1>1, <2>3, <2>8, PublicTarget DEF Path
    <3>2. side = "private"
      BY <1>2, <2>3, <2>8, <3>1
    <3>3. staged[r]["public"] = "none"
      BY <1>1, <1>2, <2>8, <3>2 DEF Knows, StagedAt, At
    <3>4. QED
      BY <1>1, <1>2, <2>8, <3>1, <3>2, <3>3 DEF Knows, OnlyMovedKept, Sides
  <2>9. Knows(r)'
    BY <2>4, <2>5, <2>6, <2>7 DEF Knows
  <2> HIDE DEF x
  <2>10. QED
    BY <1>1, <1>2, <1>4, <2>1, <2>8, <2>9, PathChange
<1>5. QED
  BY <1>1, <1>3, <1>4 DEF Resync

\* A staging directory is removed.
LEMMA DiscardStep ==
    ASSUME CInv, TypeOK', NEW r \in Release, Discard(r)
    PROVE  CInv'
<1>1. /\ TypeOK /\ Knows(r) /\ Active(r) /\ At(r, "discard") /\ Side(r) \in Sides
      /\ made' = made /\ UNCHANGED <<place, durable>>
  BY StepTypes DEF CInv, Discard, Active, At, Ends, Side
<1>2. CASE Stuck(r) /\ UNCHANGED staged
  BY <1>1, <1>2, RollbackStep DEF Stuck, At
<1>3. CASE /\ staged' = [staged EXCEPT ![r][Side(r)] = "none"] /\ Backs(r, "end")
           /\ unclean' = unclean
  <2>1. staged[r][Side(r)] # "moved"
    BY <1>1 DEF Knows, StagedAt, At
  <2>2. /\ \A q \in Release \ {r} : staged'[q] = staged[q]
        /\ \A side \in Sides \ {Side(r)} : staged'[r][side] = staged[r][side]
        /\ staged'[r][Side(r)] = "none"
    BY <1>1, <1>3 DEF TypeOK
  <2>3. QED
    BY <1>1, <1>3, <2>1, <2>2, RollbackStep DEF At
<1>4. QED
  BY <1>2, <1>3 DEF Discard

\* A run reads its corpus; no tree of it is anywhere.
LEMMA PrepareStep ==
    ASSUME CInv, TypeOK', NEW r \in Release, Prepare(r)
    PROVE  CInv'
<1>1. /\ TypeOK /\ Knows(r) /\ made[r] = None /\ At(r, "idle")
      /\ UNCHANGED <<staged, place, durable, unclean>>
  BY DEF CInv, Prepare, TypeOK
<1>2. \A q \in Release : Spared(q)
  BY <1>1 DEF Spared
<1>3. /\ \A q \in Release \ {r} : step'[q] = step[q] /\ made'[q] = made[q]
      /\ step'[r] \in {<<"mkdir", "public">>, <<"done", "public">>}
      /\ made'[r] \in Plans
  BY <1>1 DEF Prepare, TypeOK, Forward
<1>4. \A q \in Release \ {r} : Knows(q)'
  BY <1>1, <1>2, <1>3, OthersKnow
<1>5. \A x \in Path : r \notin durable'[x]
  BY <1>1, CorpusAssumption DEF TypeOK
<1>6. PublicHasPrivate'
  BY <1>1, <1>2, <1>3, <1>5, PublicStep DEF Path
<1>7. Knows(r)'
  <2>1. \A side \in Sides : staged'[r][side] # "moved"
    BY <1>1 DEF Knows, StagedAt, At
  <2>2. StagedAt(r)'
    BY <1>3, <2>1 DEF StagedAt, At
  <2>3. MovedIsPlaced(r)' /\ WithdrawnIsGone(r)' /\ PrivateFirst(r)'
    BY <1>3, <2>1 DEF MovedIsPlaced, WithdrawnIsGone, PrivateFirst, At
  <2>4. OnlyMovedKept(r)'
    <3>1. \A side \in Sides : Target(r, side)' \in Path
      BY <1>3 DEF Target, Plans, Path
    <3>2. QED
      BY <1>5, <3>1 DEF OnlyMovedKept
  <2>5. QED
    BY <2>2, <2>3, <2>4 DEF Knows
<1>8. QED
  BY <1>4, <1>6, <1>7 DEF CInv

\* A step that leaves the publication alone.
LEMMA ReadStep ==
    ASSUME CInv, TypeOK', UNCHANGED publication
    PROVE  CInv'
BY DEF publication, CInv, PublicHasPrivate, Knows, StagedAt, MovedIsPlaced, WithdrawnIsGone,
       OnlyMovedKept, PrivateFirst, Active, At, Side, Target

\* A killed run does not act any more.
LEMMA KillStep ==
    ASSUME CInv, TypeOK', Kill
    PROVE  CInv'
<1>1. CASE UNCHANGED step
  BY <1>1, ReadStep DEF Kill, publication
<1>2. ASSUME NEW r \in Release, step' = [step EXCEPT ![r] = <<"dead", step[r][2]>>] PROVE CInv'
  <2>1. /\ \A q \in Release \ {r} : step'[q] = step[q]
        /\ step'[r][1] = "dead"
    BY <1>2 DEF CInv, TypeOK
  <2>2. step'[r][1] \notin {"rename", "sync", "withdraw", "resync", "discard", "failed", "idle", "mkdir", "fill"}
    BY <2>1
  <2>3. StagedAt(r)' /\ MovedIsPlaced(r)' /\ WithdrawnIsGone(r)' /\ PrivateFirst(r)' /\ OnlyMovedKept(r)'
    BY <2>1, <2>2 DEF StagedAt, MovedIsPlaced, WithdrawnIsGone, PrivateFirst, OnlyMovedKept,
                      At, Active, Ends
  <2>4. Knows(r)'
    BY <2>3 DEF Knows
  <2>5. /\ made' = made /\ unclean' = unclean /\ UNCHANGED <<place, durable>>
        /\ \A q \in Release \ {r} : staged'[q] = staged[q]
    BY DEF Kill
  <2>6. QED
    BY <2>1, <2>4, <2>5, LocalStep
<1>3. QED
  BY <1>1, <1>2 DEF Kill

\* After a loss of power the disk holds one of the trees that it might hold.
LEMMA PowerLossStep ==
    ASSUME CInv, TypeOK', PowerLoss
    PROVE  CInv'
<1>1. TypeOK /\ PublicHasPrivate /\ UNCHANGED <<made, staged, unclean>>
  BY DEF CInv, PowerLoss
<1>2. \A x \in Path : durable'[x] = {place'[x]} /\ place'[x] \in durable[x]
  BY DEF PowerLoss
<1>3. PublicHasPrivate'
  <2> SUFFICES ASSUME NEW x \in PublicPath, NEW q \in durable'[x], q \notin unclean, q # None
               PROVE  durable'[made[q].private] = {q}
    BY <1>1 DEF PublicHasPrivate
  <2>1. q \in durable[x] /\ q \in Release
    BY <1>1, <1>2 DEF TypeOK, Path
  <2>2. durable[made[q].private] = {q}
    BY <1>1, <2>1 DEF PublicHasPrivate
  <2>3. made[q].private \in Path
    BY <1>1, <2>1, PublicTarget, Targets DEF Path
  <2>4. QED
    BY <1>2, <2>2, <2>3
<1>4. ASSUME NEW q \in Release PROVE Knows(q)'
  <2>1. Knows(q)
    BY DEF CInv
  <2>2. CASE Active(q)
    <3>1. step'[q][1] = "dead"
      BY <2>2 DEF PowerLoss, Active
    <3>2. step'[q][1] \notin {"rename", "sync", "withdraw", "resync", "discard", "failed", "idle", "mkdir", "fill"}
      BY <3>1
    <3>3. StagedAt(q)' /\ MovedIsPlaced(q)' /\ WithdrawnIsGone(q)' /\ PrivateFirst(q)' /\ OnlyMovedKept(q)'
      BY <3>1, <3>2 DEF StagedAt, MovedIsPlaced, WithdrawnIsGone, PrivateFirst, OnlyMovedKept,
                        At, Active, Ends
    <3>4. QED
      BY <3>3 DEF Knows
  <2>3. CASE ~Active(q)
    <3>1. step'[q] = step[q] /\ step[q][1] \in Ends
      BY <2>3 DEF PowerLoss, Active
    <3>2. StagedAt(q)'
      BY <1>1, <2>1, <3>1 DEF Knows, StagedAt, At, Side
    <3>3. MovedIsPlaced(q)' /\ WithdrawnIsGone(q)' /\ PrivateFirst(q)'
      BY <3>1 DEF MovedIsPlaced, WithdrawnIsGone, PrivateFirst, Active, At, Ends
    <3>4. OnlyMovedKept(q)'
      <4>1. made[q] # None => \A side \in Sides : Target(q, side) \in Path
        BY <1>1, Targets
      <4>2. \A side \in Sides : step[q] # <<"resync", side>>
        BY <3>1 DEF Ends
      <4>3. QED
        BY <1>1, <1>2, <2>1, <3>1, <4>1, <4>2 DEF Knows, OnlyMovedKept, Target
    <3>5. QED
      BY <3>2, <3>3, <3>4 DEF Knows
  <2>4. QED
    BY <2>2, <2>3
<1>5. QED
  BY <1>3, <1>4 DEF CInv

-----------------------------------------------------------------------------
\* The invariant is inductive

\* The invariant holds at first.
LEMMA InitCInv == Init => CInv
<1> SUFFICES ASSUME Init PROVE CInv
  OBVIOUS
<1>1. TypeOK
  <2>1. /\ log \in [name : {"none", "cached", "durable"},
                   pieces : Seq(Reader \X {"line", "part", "end"}), synced : Nat]
        /\ log.synced <= Len(log.pieces)
    <3>1. log.pieces = <<>> /\ log.synced = 0
      BY DEF Init, NoLog
    <3>2. PICK name \in {"none", "durable"} : log = [name |-> name, pieces |-> <<>>, synced |-> 0]
      BY DEF Init, NoLog
    <3>3. log \in [name : {"none", "cached", "durable"},
                   pieces : Seq(Reader \X {"line", "part", "end"}), synced : Nat]
      <4>1. <<>> \in Seq(Reader \X {"line", "part", "end"})
        OBVIOUS
      <4> QED
        BY <3>2, <4>1
    <3> QED
      BY <3>1, <3>3
  <2>2. /\ reading \in [Reader -> {"idle", "refused", "returned"} \cup Calling]
        /\ lost \subseteq Reader /\ faults \in 0 .. MaxFaults
    BY CorpusAssumption DEF Init
  <2>3. QED
    BY <2>1, <2>2, CorpusAssumption, SMT DEF Init, TypeOK, At, Steps, Ends, Sides
<1>2. PublicHasPrivate
  BY DEF Init, PublicHasPrivate, Path
<1>3. ASSUME NEW r \in Release PROVE Knows(r)
  BY <1>3 DEF Init, Knows, StagedAt, MovedIsPlaced, WithdrawnIsGone, OnlyMovedKept, PrivateFirst,
              Active, At, Ends, Sides
<1>4. QED
  BY <1>1, <1>2, <1>3 DEF CInv

\* Every step preserves it.
LEMMA Inductive == CInv /\ [Next]_vars => CInv'
<1> SUFFICES ASSUME CInv, [Next]_vars PROVE CInv'
  OBVIOUS
<1>1. TypeOK'
  BY TypeStep DEF CInv
<1>2. CASE UNCHANGED vars
  BY <1>1, <1>2, ReadStep DEF vars
<1>3. ASSUME NEW r \in Release, Publish(r) PROVE CInv'
  BY <1>1, <1>3, PrepareStep, StagingStep, RenameStep, SyncStep, WithdrawStep, ResyncStep, DiscardStep
     DEF Publish
<1>4. ASSUME NEW q \in Reader, ReadTask(q) PROVE CInv'
  BY <1>1, <1>4, ReadStep DEF ReadTask, Look, Write, Flush, Open
<1>5. CASE Kill \/ PowerLoss
  BY <1>1, <1>5, KillStep, PowerLossStep
<1>6. QED
  BY <1>2, <1>3, <1>4, <1>5 DEF Next

-----------------------------------------------------------------------------
\* Theorems

\* Every reachable state has the types: among others, that only a release of an
\* approved corpus with the split of the policy is at a path, which its own run has
\* as a target (prepare_corpus_release).
THEOREM TypeCorrect == Spec => []TypeOK
<1>1. CInv => TypeOK
  BY DEF CInv
<1>2. QED
  BY <1>1, InitCInv, Inductive, PTL DEF Spec

\* Whatever is killed or fails and whatever the disk loses, a public tree has its
\* private one, unless its run has asked for manual cleanup.
THEOREM PrivateIsKept == Spec => []PublicHasPrivate
<1>1. CInv => PublicHasPrivate
  BY DEF CInv
<1>2. QED
  BY <1>1, InitCInv, Inductive, PTL DEF Spec

\* A failed run that asked for no cleanup has left nothing behind, at any path of
\* any run (_rollback_output).
THEOREM RollbackIsComplete == Spec => []FailedLeavesNothing
<1>1. CInv => FailedLeavesNothing
  <2> SUFFICES ASSUME CInv, NEW r \in Release \ unclean, At(r, "failed")
               PROVE  /\ \A x \in Path : r \notin durable[x]
                      /\ \A side \in Sides : staged[r][side] = "none"
    BY DEF FailedLeavesNothing
  <2>1. TypeOK /\ StagedAt(r) /\ OnlyMovedKept(r) /\ step[r][1] = "failed"
    BY DEF CInv, Knows, At
  <2>2. \A side \in Sides : staged[r][side] = "none"
    BY <2>1 DEF StagedAt, At
  <2>3. ASSUME NEW x \in Path, r \in durable[x] PROVE FALSE
    <3>1. made[r] # None
      BY <2>1, <2>3, CorpusAssumption DEF TypeOK
    <3>2. PICK side \in Sides : x = Target(r, side)
      BY <2>1, <2>3, CorpusAssumption DEF TypeOK
    <3>3. step[r] # <<"resync", side>> /\ staged[r][side] # "moved"
      BY <2>1, <2>2
    <3>4. r \notin durable[Target(r, side)]
      BY <2>1, <3>1, <3>3 DEF OnlyMovedKept
    <3>5. QED
      BY <2>3, <3>2, <3>4
  <2>4. QED
    BY <2>2, <2>3
<1>2. QED
  BY <1>1, InitCInv, Inductive, PTL DEF Spec

\* No step but a withdrawal by its own run takes away a tree whose name is durable.
THEOREM DurableIsOwn == Spec => NeverOverwritten
<1> DEFINE Kept ==
      \A x \in Path :
        durable[x] = {place[x]} /\ place[x] # None /\ place'[x] # place[x] =>
            place'[x] = None /\ At(place[x], "withdraw")
<1>1. CInv /\ [Next]_vars => Kept
  <2> SUFFICES ASSUME CInv, [Next]_vars, NEW x \in Path,
                      durable[x] = {place[x]}, place[x] # None, place'[x] # place[x]
               PROVE  place'[x] = None /\ At(place[x], "withdraw")
    OBVIOUS
  <2>1. TypeOK
    BY DEF CInv
  <2>2. ASSUME NEW r \in Release, Rename(r) PROVE FALSE
    BY <2>1, <2>2 DEF Rename, Name, TypeOK
  <2>3. ASSUME NEW r \in Release, Withdraw(r) PROVE place'[x] = None /\ At(place[x], "withdraw")
    <3>1. /\ At(r, "withdraw") /\ IsOut(r, Side(r)) /\ x = Target(r, Side(r)) /\ place'[x] = None
      <4>1. At(r, "withdraw") /\ IsOut(r, Side(r)) /\ Name(Target(r, Side(r)), None)
        BY <2>3 DEF Withdraw
      <4>2. QED
        BY <2>1, <4>1 DEF Name, TypeOK
    <3>2. place[x] = r
      BY <2>1, <3>1, StepTypes DEF CInv, Knows, MovedIsPlaced, IsOut, Active, At, Ends, Side
    <3>3. QED
      BY <3>1, <3>2
  <2>4. CASE PowerLoss
    BY <2>4 DEF PowerLoss
  <2>5. QED
    BY <2>2, <2>3, <2>4
       DEF Next, Publish, Prepare, Mkdir, Fill, Sync, Resync, Discard, ReadTask, Look, Write,
           Flush, Open, Kill, vars, publication
<1>2. QED
  BY <1>1, InitCInv, Inductive, PTL DEF Spec, NeverOverwritten

-----------------------------------------------------------------------------
\* Reads

\* Only a reader that has ended has opened a body, and then the one it returns is that
\* of the manifest.
ReadInv ==
    /\ \A q \in Reader : opened[q] # None => reading[q] \in {"refused", "returned"}
    /\ \A q \in Reader : reading[q] \in Calling \cup {"returned"} =>
        /\ access[q].manifest \in Release /\ made[access[q].manifest] # None
        /\ access[q].task \in made[access[q].manifest].held
    /\ \A q \in Reader : reading[q] = "returned" =>
        /\ opened[q] # None /\ made[opened[q]] # None
        /\ Body(opened[q], access[q].task) = Body(access[q].manifest, access[q].task)

\* A step of a reader.
LEMMA ReaderStep ==
    ASSUME TypeOK, TypeOK', ReadInv, NEW q \in Reader, ReadTask(q)
    PROVE  ReadInv'
<1>1. /\ made' = made /\ place' = place
      /\ \A p \in Reader \ {q} : /\ reading'[p] = reading[p] /\ access'[p] = access[p]
                                 /\ opened'[p] = opened[p]
  BY DEF ReadTask, Look, Write, Flush, Open, Read, publication, TypeOK
<1>2. \A r, t : Body(r, t)' = Body(r, t)
  BY <1>1 DEF Body
<1>3. /\ opened'[q] # None => reading'[q] \in {"refused", "returned"}
      /\ reading'[q] \in Calling \cup {"returned"} =>
          /\ access'[q].manifest \in Release /\ made[access'[q].manifest] # None
          /\ access'[q].task \in made[access'[q].manifest].held
      /\ reading'[q] = "returned" =>
          /\ opened'[q] # None /\ made[opened'[q]] # None
          /\ Body(opened'[q], access'[q].task) = Body(access'[q].manifest, access'[q].task)
  <2>1. CASE Look(q)
    <3>1. PICK x \in PublicPath, t \in Task :
            /\ place[x] # None
            /\ access' = [access EXCEPT ![q] = [task |-> t, manifest |-> place[x]]]
            /\ Read(q, IF t \in made[place[x]].held THEN "append" ELSE "refused")
      BY <2>1 DEF Look
    <3>2. made[place[x]] # None
      BY <3>1 DEF TypeOK, Path
    <3>3. /\ reading'[q] = (IF t \in made[place[x]].held THEN "append" ELSE "refused")
          /\ access'[q] = [task |-> t, manifest |-> place[x]]
          /\ opened' = opened /\ reading[q] = "idle"
      BY <2>1, <3>1 DEF Look, Read, TypeOK
    <3>4. access'[q].manifest \in Release
      BY <3>1, <3>3 DEF TypeOK, Path
    <3>5. QED
      BY <3>2, <3>3, <3>4 DEF ReadInv, Calling
  <2>2. CASE Write(q)
    <3>1. /\ reading[q] \in {"append", "rest"} /\ reading'[q] \in {"rest", "flush", "refused"}
          /\ access' = access /\ opened' = opened
      BY <2>2 DEF Write, Read, TypeOK
    <3>2. QED
      BY <3>1 DEF ReadInv, Calling
  <2>3. CASE Flush(q)
    <3>1. /\ reading[q] = "flush" /\ access' = access /\ opened' = opened
          /\ reading'[q] \in {"open", "refused"}
      BY <2>3 DEF Flush, Read, TypeOK
    <3>2. QED
      BY <3>1 DEF ReadInv, Calling
  <2>4. CASE Open(q)
    <3>1. PICK x \in PrivatePath :
            LET s == place[x]
                found == s # None /\ access[q].task \in Tasks(s, "private")
            IN  /\ opened' = [opened EXCEPT ![q] = IF found THEN s ELSE None]
                /\ Read(q, IF found /\ HashMatches(access[q].manifest, s, access[q].task)
                           THEN "returned" ELSE "refused")
      BY <2>4 DEF Open
    <3>2. /\ reading[q] = "open" /\ access' = access
      BY <2>4 DEF Open
    <3>3. /\ reading'[q] \in {"returned", "refused"}
          /\ reading'[q] = "returned" =>
              /\ opened'[q] = place[x] /\ place[x] # None
              /\ HashMatches(access[q].manifest, place[x], access[q].task)
      BY <3>1 DEF Read, TypeOK
    <3>4. place[x] # None => made[place[x]] # None
      BY DEF TypeOK, Path
    <3>5. QED
      BY <3>2, <3>3, <3>4 DEF ReadInv, HashMatches, Calling
  <2>5. QED
    BY <2>1, <2>2, <2>3, <2>4 DEF ReadTask
<1>4. QED
  <2>1. ASSUME NEW p \in Reader, p # q
        PROVE  /\ opened'[p] # None => reading'[p] \in {"refused", "returned"}
               /\ reading'[p] \in Calling \cup {"returned"} =>
                   /\ access'[p].manifest \in Release /\ made[access'[p].manifest] # None
                   /\ access'[p].task \in made[access'[p].manifest].held
               /\ reading'[p] = "returned" =>
                   /\ opened'[p] # None /\ made[opened'[p]] # None
                   /\ Body(opened'[p], access'[p].task) = Body(access'[p].manifest, access'[p].task)
    BY <1>1, <2>1 DEF ReadInv
  <2>2. QED
    BY <1>1, <1>2, <1>3, <2>1 DEF ReadInv

\* A step of the publication, or none; readers may end.
LEMMA OtherReadStep ==
    ASSUME TypeOK, ReadInv, UNCHANGED <<access, opened>>,
           \A r \in Release : made[r] # None => made'[r] = made[r],
           \A q \in Reader : reading'[q] \in {reading[q], "refused"}
    PROVE  ReadInv'
<1> SUFFICES ASSUME NEW q \in Reader
             PROVE  /\ opened[q] # None => reading'[q] \in {"refused", "returned"}
                    /\ reading'[q] \in Calling \cup {"returned"} =>
                        /\ access[q].manifest \in Release /\ made'[access[q].manifest] # None
                        /\ access[q].task \in made'[access[q].manifest].held
                    /\ reading'[q] = "returned" =>
                        /\ opened[q] # None /\ made'[opened[q]] # None
                        /\ made'[opened[q]].corpus[access[q].task].body
                             = made'[access[q].manifest].corpus[access[q].task].body
  BY DEF ReadInv, Body
<1>1. opened[q] # None => opened[q] \in Release
  BY DEF TypeOK
<1>2. QED
  BY <1>1 DEF ReadInv, Body, Calling

\* Every step preserves what readers know.
LEMMA ReadInductive == CInv /\ ReadInv /\ [Next]_vars => ReadInv'
<1> SUFFICES ASSUME CInv, ReadInv, [Next]_vars PROVE ReadInv'
  OBVIOUS
<1>1. TypeOK /\ TypeOK'
  BY TypeStep DEF CInv
<1>2. CASE UNCHANGED vars
  BY <1>1, <1>2, OtherReadStep DEF vars, reads, publication
<1>3. ASSUME NEW r \in Release, Publish(r) PROVE ReadInv'
  <2>1. UNCHANGED reads
    BY <1>3 DEF Publish, Prepare, Mkdir, Fill, Rename, Sync, Withdraw, Resync, Discard
  <2>2. \A q \in Release : made[q] # None => made'[q] = made[q]
    <3>1. CASE Prepare(r)
      BY <1>1, <3>1 DEF Prepare, TypeOK
    <3>2. CASE ~Prepare(r)
      BY <1>3, <3>2 DEF Publish, Mkdir, Fill, Rename, Sync, Withdraw, Resync, Discard
    <3>3. QED
      BY <3>1, <3>2
  <2>3. QED
    BY <1>1, <2>1, <2>2, OtherReadStep DEF reads
<1>4. ASSUME NEW q \in Reader, ReadTask(q) PROVE ReadInv'
  BY <1>1, <1>4, ReaderStep
<1>5. CASE Kill
  <2>1. \A q \in Reader : reading'[q] \in {reading[q], "refused"}
    BY <1>1, <1>5 DEF Kill, Read, TypeOK
  <2>2. QED
    BY <1>1, <1>5, <2>1, OtherReadStep DEF Kill
<1>6. CASE PowerLoss
  <2>1. \A q \in Reader : reading'[q] \in {reading[q], "refused"}
    BY <1>6 DEF PowerLoss
  <2>2. made' = made /\ UNCHANGED <<access, opened>>
    BY <1>6 DEF PowerLoss
  <2>3. QED
    BY <1>1, <2>1, <2>2, OtherReadStep
<1>7. QED
  BY <1>2, <1>3, <1>4, <1>5, <1>6 DEF Next

-----------------------------------------------------------------------------
\* The access log

\* A reader that is to read a body has its event in what is synced; the way there
KnowsLog(q) ==
    /\ reading[q] = "rest" => \E i \in 1 .. Len(log.pieces) : log.pieces[i] = <<q, "part">>
    /\ reading[q] = "flush" => Logged(q, Len(log.pieces))
    /\ reading[q] = "open" \/ opened[q] # None => q \in lost \/ Logged(q, log.synced)

LogInv == \A q \in Reader : KnowsLog(q)

\* The log goes on from where it was
LEMMA LogGrows ==
    ASSUME LogTypes, LogTypes', NEW q, Len(log.pieces) <= Len(log.pieces'), log.synced <= log.synced',
           \A i \in 1 .. Len(log.pieces) : log.pieces'[i] = log.pieces[i]
    PROVE  /\ Logged(q, Len(log.pieces)) => Logged(q, Len(log.pieces))'
           /\ Logged(q, log.synced) => Logged(q, log.synced)'
           /\ \A i \in 1 .. Len(log.pieces) : i \in 1 .. Len(log.pieces')
<1>1. /\ Len(log.pieces) \in Nat /\ Len(log.pieces') \in Nat /\ log.synced \in Nat /\ log.synced' \in Nat
      /\ log.synced <= Len(log.pieces)
  BY DEF LogTypes
<1>2. \A i \in 1 .. Len(log.pieces) : i \in 1 .. Len(log.pieces')
  BY <1>1
<1>3. ASSUME NEW m \in Nat, NEW n \in Nat, m <= n, m <= Len(log.pieces),
             \E j \in 1 .. m :
                \/ log.pieces[j] = <<q, "line">>
                \/ log.pieces[j] = <<q, "end">> /\ \E i \in 1 .. j - 1 : log.pieces[i] = <<q, "part">>
      PROVE  \E j \in 1 .. n :
                \/ log.pieces'[j] = <<q, "line">>
                \/ log.pieces'[j] = <<q, "end">> /\ \E i \in 1 .. j - 1 : log.pieces'[i] = <<q, "part">>
  <2>1. PICK j \in 1 .. m :
                \/ log.pieces[j] = <<q, "line">>
                \/ log.pieces[j] = <<q, "end">> /\ \E i \in 1 .. j - 1 : log.pieces[i] = <<q, "part">>
    BY <1>3
  <2>2. j \in 1 .. n /\ log.pieces'[j] = log.pieces[j]
    BY <1>1, <1>3
  <2>3. \A i \in 1 .. j - 1 : log.pieces'[i] = log.pieces[i]
    <3>1. \A i \in 1 .. j - 1 : i \in 1 .. Len(log.pieces)
      BY <1>1, <1>3
    <3> QED
      BY <3>1
  <2> QED
    BY <2>1, <2>2, <2>3
<1>4. Logged(q, Len(log.pieces)) => Logged(q, Len(log.pieces))'
  <2>1. Len(log.pieces) <= Len(log.pieces)
    BY <1>1
  <2>2. ASSUME \E j \in 1 .. Len(log.pieces) :
                  \/ log.pieces[j] = <<q, "line">>
                  \/ log.pieces[j] = <<q, "end">> /\ \E i \in 1 .. j - 1 : log.pieces[i] = <<q, "part">>
        PROVE  \E j \in 1 .. Len(log.pieces') :
                  \/ log.pieces'[j] = <<q, "line">>
                  \/ log.pieces'[j] = <<q, "end">> /\ \E i \in 1 .. j - 1 : log.pieces'[i] = <<q, "part">>
    BY <1>1, <1>3, <2>1, <2>2
  <2> QED
    BY <2>2 DEF Logged
<1>5. Logged(q, log.synced) => Logged(q, log.synced)'
  BY <1>1, <1>3 DEF Logged
<1> QED
  BY <1>2, <1>4, <1>5

\* Readers whose own state stays, or that end, keep what they know
LEMMA OthersLog ==
    ASSUME LogTypes, LogTypes', NEW q, KnowsLog(q), Len(log.pieces) <= Len(log.pieces'),
           log.synced <= log.synced', \A i \in 1 .. Len(log.pieces) : log.pieces'[i] = log.pieces[i],
           reading'[q] \in {reading[q], "refused", "idle"}, opened'[q] = opened[q], lost' = lost
    PROVE  KnowsLog(q)'
BY LogGrows DEF KnowsLog

\* A loss of power takes a log as a whole, or none of what is synced
LEMMA LogLossStep ==
    ASSUME LogTypes, LogTypes', NEW q, Logged(q, log.synced), LogGoes \/ LogStays
    PROVE  q \in lost' \/ Logged(q, log.synced)'
<1>1. /\ log.synced \in Nat /\ log.synced <= Len(log.pieces) /\ Len(log.pieces) \in Nat
      /\ DOMAIN log.pieces = 1 .. Len(log.pieces)
  BY DEF LogTypes
<1>2. CASE LogGoes
  <2>1. PICK j \in 1 .. log.synced : log.pieces[j] \in {<<q, "line">>, <<q, "end">>}
    BY DEF Logged
  <2>2. j \in DOMAIN log.pieces /\ log.pieces[j][1] = q
    BY <1>1, <2>1
  <2> QED
    BY <1>2, <2>2 DEF LogGoes
<1>3. CASE LogStays
  <2>1. PICK n \in log.synced .. Len(log.pieces), torn \in BOOLEAN :
          /\ torn => n > log.synced
          /\ log' = [name |-> "durable", pieces |-> Left(n, torn), synced |-> n]
    BY <1>3 DEF LogStays
  <2>2. \A i \in 1 .. log.synced : i \in 1 .. n /\ log.pieces'[i] = log.pieces[i]
    <3>1. \A i \in 1 .. log.synced : i \in 1 .. n /\ ~(torn /\ i = n)
      BY <1>1, <2>1
    <3>2. log.pieces' = Left(n, torn)
      BY <2>1
    <3> QED
      BY <3>1, <3>2 DEF Left
  <2>3. log.synced' = n
    BY <2>1
  <2>4. PICK j \in 1 .. log.synced :
          \/ log.pieces[j] = <<q, "line">>
          \/ log.pieces[j] = <<q, "end">> /\ \E i \in 1 .. j - 1 : log.pieces[i] = <<q, "part">>
    BY DEF Logged
  <2>5. \A i \in 1 .. j - 1 : i \in 1 .. log.synced
    BY <1>1
  <2> QED
    BY <2>2, <2>3, <2>4, <2>5 DEF Logged
<1> QED
  BY <1>2, <1>3

\* A write of reader q
LEMMA LogWriteStep ==
    ASSUME TypeOK, TypeOK', LogInv, NEW q \in Reader, Write(q)
    PROVE  LogInv'
<1>1. LogTypes /\ LogTypes' /\ UNCHANGED <<opened, lost>>
  BY DEF TypeOK, LogTypes, Piece, Write
<1>2. \A p \in Reader \ {q} : reading'[p] = reading[p]
  BY DEF Write, Read, TypeOK
<1>3. \/ UNCHANGED log
      \/ \E kind \in {"line", "part", "end"} : log.pieces' = Append(log.pieces, <<q, kind>>) /\ log.synced' = log.synced
  BY <1>1 DEF Write, Writes, LogTypes
<1>4. /\ Len(log.pieces) <= Len(log.pieces') /\ log.synced <= log.synced'
      /\ \A i \in 1 .. Len(log.pieces) : log.pieces'[i] = log.pieces[i]
  <2>1. Len(log.pieces) \in Nat /\ log.synced \in Nat /\ log.pieces \in Seq(Piece)
    BY <1>1 DEF LogTypes
  <2>2. CASE UNCHANGED log
    BY <2>1, <2>2
  <2>3. ASSUME NEW kind \in {"line", "part", "end"},
               log.pieces' = Append(log.pieces, <<q, kind>>) /\ log.synced' = log.synced
        PROVE  /\ Len(log.pieces) <= Len(log.pieces') /\ log.synced <= log.synced'
               /\ \A i \in 1 .. Len(log.pieces) : log.pieces'[i] = log.pieces[i]
    BY <2>1, <2>3 DEF Piece
  <2> QED
    BY <1>3, <2>2, <2>3
<1>5. ASSUME NEW p \in Reader, p # q PROVE KnowsLog(p)'
  BY <1>1, <1>2, <1>4, <1>5, OthersLog DEF LogInv
<1>6. KnowsLog(q)'
  <2>1. KnowsLog(q)
    BY DEF LogInv
  <2>2. CASE reading'[q] = "refused"
    BY <1>1, <1>4, <2>1, <2>2, OthersLog
  <2>3. ASSUME NEW kind \in {"line", "part", "end"}, Writes(q, kind)
        PROVE  /\ Len(log.pieces') = Len(log.pieces) + 1
               /\ log.pieces'[Len(log.pieces')] = <<q, kind>>
               /\ log.synced' = log.synced
    BY <1>1, <2>3 DEF Writes, LogTypes
  <2>4. opened[q] # None => q \in lost \/ Logged(q, log.synced)'
    BY <1>1, <1>4, <2>1, LogGrows DEF KnowsLog
  <2>5. CASE reading'[q] = "flush" /\ Writes(q, "line")
    <3>1. Logged(q, Len(log.pieces))'
      BY <1>1, <2>3, <2>5 DEF Logged, LogTypes
    <3> QED
      BY <1>1, <2>4, <2>5, <3>1 DEF KnowsLog
  <2>6. CASE reading'[q] = "rest" /\ Writes(q, "part")
    <3>1. \E i \in 1 .. Len(log.pieces') : log.pieces'[i] = <<q, "part">>
      BY <1>1, <2>3, <2>6 DEF LogTypes
    <3> QED
      BY <1>1, <2>4, <2>6, <3>1 DEF KnowsLog
  <2>7. CASE reading[q] = "rest" /\ reading'[q] = "flush" /\ Writes(q, "end")
    <3>1. PICK i \in 1 .. Len(log.pieces) : log.pieces[i] = <<q, "part">>
      BY <2>1, <2>7 DEF KnowsLog
    <3>2. /\ i \in 1 .. Len(log.pieces') - 1 /\ log.pieces'[i] = <<q, "part">>
          /\ Len(log.pieces') \in 1 .. Len(log.pieces')
      BY <1>1, <1>4, <2>3, <2>7, <3>1 DEF LogTypes
    <3>3. Logged(q, Len(log.pieces))'
      BY <2>3, <2>7, <3>2 DEF Logged
    <3> QED
      BY <1>1, <2>4, <2>7, <3>3 DEF KnowsLog
  <2> QED
    BY <2>2, <2>5, <2>6, <2>7 DEF Write, Read, TypeOK
<1> QED
  BY <1>5, <1>6 DEF LogInv

\* Every step preserves what readers know of the log.
LEMMA LogInductive == CInv /\ LogInv /\ [Next]_vars => LogInv'
<1> SUFFICES ASSUME CInv, LogInv, [Next]_vars PROVE LogInv'
  OBVIOUS
<1>1. TypeOK /\ TypeOK' /\ LogTypes /\ LogTypes' /\ log.synced \in Nat /\ Len(log.pieces) \in Nat
  BY TypeStep DEF CInv, TypeOK, LogTypes, Piece
<1>2. ASSUME UNCHANGED <<log, lost>>, NEW q \in Reader, reading'[q] \in {reading[q], "refused", "idle"},
             opened'[q] = opened[q]
      PROVE  KnowsLog(q)'
  BY <1>1, <1>2, OthersLog DEF LogInv
<1>3. CASE UNCHANGED vars
  BY <1>2, <1>3 DEF vars, reads, LogInv
<1>4. ASSUME NEW r \in Release, Publish(r) PROVE LogInv'
  <2>1. UNCHANGED reads
    BY <1>4 DEF Publish, Prepare, Mkdir, Fill, Rename, Sync, Withdraw, Resync, Discard
  <2> QED
    BY <1>2, <2>1 DEF reads, LogInv
<1>5. ASSUME NEW q \in Reader, ReadTask(q) PROVE LogInv'
  <2>1. CASE Look(q)
    <3>1. UNCHANGED <<log, lost, opened>> /\ \A p \in Reader \ {q} : reading'[p] = reading[p]
      BY <2>1 DEF Look, Read, TypeOK
    <3>2. reading'[q] \in {"append", "refused"}
      BY <1>1, <2>1 DEF Look, Read, TypeOK
    <3>3. KnowsLog(q) => KnowsLog(q)'
      BY <3>1, <3>2 DEF KnowsLog, Logged
    <3> QED
      BY <1>2, <3>1, <3>3 DEF LogInv
  <2>2. CASE Write(q)
    BY <1>1, <2>2, LogWriteStep
  <2>3. CASE Flush(q)
    <3>1. /\ UNCHANGED <<lost, opened>> /\ \A p \in Reader \ {q} : reading'[p] = reading[p]
          /\ reading[q] = "flush" /\ reading'[q] \in {"open", "refused"}
          /\ log.pieces' = log.pieces /\ log.synced' \in {log.synced, Len(log.pieces)}
          /\ reading'[q] = "open" => log.synced' = Len(log.pieces)
      BY <1>1, <2>3 DEF Flush, Read, TypeOK, LogTypes
    <3>2. log.synced <= log.synced' /\ Len(log.pieces) <= Len(log.pieces')
      BY <1>1, <3>1 DEF LogTypes
    <3>3. \A p \in Reader \ {q} : KnowsLog(p)'
      BY <1>1, <3>1, <3>2, OthersLog DEF LogInv
    <3>4. KnowsLog(q)'
      <4>1. CASE reading'[q] = "refused"
        BY <1>1, <3>1, <3>2, <4>1, OthersLog DEF LogInv
      <4>2. CASE reading'[q] = "open"
        <5>1. Logged(q, Len(log.pieces))
          BY <3>1 DEF LogInv, KnowsLog
        <5>2. Logged(q, log.synced)'
          BY <3>1, <4>2, <5>1 DEF Logged
        <5> QED
          BY <4>2, <5>2 DEF KnowsLog
      <4> QED
        BY <3>1, <4>1, <4>2
    <3> QED
      BY <3>3, <3>4 DEF LogInv
  <2>4. CASE Open(q)
    <3>1. /\ UNCHANGED <<log, lost>> /\ reading[q] = "open" /\ reading'[q] \in {"returned", "refused"}
          /\ \A p \in Reader \ {q} : reading'[p] = reading[p] /\ opened'[p] = opened[p]
      BY <1>1, <2>4 DEF Open, Read, TypeOK
    <3>2. KnowsLog(q) => KnowsLog(q)'
      BY <3>1 DEF KnowsLog, Logged
    <3> QED
      BY <1>2, <3>1, <3>2 DEF LogInv
  <2> QED
    BY <1>5, <2>1, <2>2, <2>3, <2>4 DEF ReadTask
<1>6. CASE Kill
  <2>1. \A q \in Reader : reading'[q] \in {reading[q], "refused"}
    BY <1>1, <1>6 DEF Kill, Read, TypeOK
  <2> QED
    BY <1>2, <1>6, <2>1 DEF Kill, LogInv
<1>7. CASE PowerLoss
  <2> SUFFICES ASSUME NEW q \in Reader PROVE KnowsLog(q)'
    BY DEF LogInv
  <2>1. reading'[q] \notin Calling /\ opened' = opened /\ (LogGoes \/ LogStays)
    BY <1>7 DEF PowerLoss, Calling
  <2>2. opened[q] # None => q \in lost \/ Logged(q, log.synced)
    BY DEF LogInv, KnowsLog
  <2>3. lost \subseteq lost'
    BY <2>1 DEF LogGoes, LogStays
  <2> QED
    BY <1>1, <2>1, <2>2, <2>3, LogLossStep DEF KnowsLog, Calling
<1> QED
  BY <1>3, <1>4, <1>5, <1>6, <1>7 DEF Next

\* No body is read before its event is written and synced, and no power loss, kill or
\* other reader takes the event away except with the whole of a new log
\* (read_private_holdout_task, _append_access_event).
THEOREM AccessIsLogged == Spec => []ReadsLogged
<1>1. Init => LogInv
  BY DEF Init, LogInv, KnowsLog
<1>2. LogInv => ReadsLogged
  BY DEF LogInv, KnowsLog, ReadsLogged
<1>3. QED
  BY <1>1, <1>2, InitCInv, Inductive, LogInductive, PTL DEF Spec

\* Every task that is returned is one the manifest holds out, with its body there.
THEOREM OnlyListedReturned == Spec => []ReturnedIsListed
<1>1. Init => ReadInv
  BY DEF Init, ReadInv, Calling
<1>2. ReadInv => ReturnedIsListed
  BY DEF ReadInv, ReturnedIsListed
<1>3. QED
  BY <1>1, <1>2, InitCInv, Inductive, ReadInductive, PTL DEF Spec

=============================================================================
