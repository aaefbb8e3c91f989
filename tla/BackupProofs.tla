----------------------------- MODULE BackupProofs -----------------------------
(***************************************************************************)
(* The backup controller keeps its promises for every set of backups,      *)
(* every number of workers, and every number of restarts and API errors.   *)
(***************************************************************************)
EXTENDS Backup, TLAPS

Places == {"idle", "start", "sort", "check", "run", "label", "create", "job", "unlabel"}

\* A step of one pass touches nothing of the other backups.
Touches(b) ==
  \A c \in Backups \ {b} : /\ api'[c] = api[c] /\ seen'[c] = seen[c] /\ pc'[c] = pc[c]
                           /\ job'[c] = job[c] /\ dropped'[c] = dropped[c]
                           /\ cache'[c] = cache[c]

\* The pass of b stores x and goes to l.
Stored(b, x, l) ==
  /\ seen[b] = api[b] /\ api'[b] = x /\ seen'[b] = x /\ pc'[b] = l
  /\ job'[b] = job[b] /\ cache'[b] = cache[b]

\* It stores x and is told that it did not.
Unanswered(b, x, l) ==
  /\ seen[b] = api[b] /\ api'[b] = x /\ seen'[b] = seen[b] /\ pc'[b] = l
  /\ job'[b] = job[b] /\ cache'[b] = cache[b]

\* It stores nothing and goes to l.
Kept(b, l) ==
  /\ api'[b] = api[b] /\ seen'[b] = seen[b] /\ pc'[b] = l
  /\ job'[b] = job[b] /\ cache'[b] = cache[b]

\* Only the history of b may change, and what was dropped stays so.
Drops(b) ==
  /\ dropped' \in [Backups -> BOOLEAN]
  /\ \A c \in Backups \ {b} : dropped'[c] = dropped[c]
  /\ dropped[b] => dropped'[b]

-----------------------------------------------------------------------------
(***************************************************************************)
(* What the steps of a pass change.                                        *)
(***************************************************************************)
\* The two things that happen to the history of a backup.
LEMMA DropFacts ==
  ASSUME TypeOK, NEW b \in Backups, NEW e \in BOOLEAN,
         dropped' = [dropped EXCEPT ![b] = @ \/ e]
  PROVE  Drops(b) /\ (e => dropped'[b])
<1>1. dropped \in [Backups -> BOOLEAN]
  BY DEF TypeOK
<1>2. dropped'[b] = (dropped[b] \/ e)
  BY <1>1
<1>3. dropped' \in [Backups -> BOOLEAN]
  BY <1>1
<1>4. \A c \in Backups \ {b} : dropped'[c] = dropped[c]
  BY <1>1
<1> QED BY <1>2, <1>3, <1>4 DEF Drops

\* A step that has nothing to do with it.
LEMMA NoDrop ==
  ASSUME TypeOK, NEW b \in Backups, UNCHANGED dropped
  PROVE  Drops(b)
BY DEF TypeOK, Drops

\* A step that moves on, or returns, changes its own place only.
LEMMA PcFacts ==
  ASSUME TypeOK, NEW b \in Backups, NEW l \in Places,
         Goto(b, l) \/ (l = "idle" /\ (Return(b) \/ Retry(b)))
  PROVE  /\ pc' \in [Backups -> Places] /\ queued' \in [Backups -> BOOLEAN]
         /\ pc'[b] = l
         /\ \A c \in Backups \ {b} : pc'[c] = pc[c]
BY DEF Goto, Return, Retry, TypeOK, Places

\* A fault is counted up to the bound.
LEMMA FaultFacts ==
  ASSUME TypeOK, Fault \/ UNCHANGED faults
  PROVE  faults' \in 0 .. MaxFaults
BY BackupAssumption DEF TypeOK, Fault

\* A write that succeeds finds the stored backup in its copy.
LEMMA WriteFacts ==
  ASSUME TypeOK, NEW b \in Backups, NEW x \in CR, NEW l \in Places, Write(b, x),
         Goto(b, l) \/ (l = "idle" /\ (Return(b) \/ Retry(b))),
         UNCHANGED <<cache, job>>, Drops(b)
  PROVE  TypeOK' /\ Touches(b) /\ Stored(b, x, l)
<1>1. /\ api' \in [Backups -> CR] /\ seen' \in [Backups -> CR]
      /\ seen[b] = api[b] /\ api'[b] = x /\ seen'[b] = x
      /\ \A c \in Backups \ {b} : api'[c] = api[c] /\ seen'[c] = seen[c]
      /\ faults' = faults
  BY DEF Write, Conflict, TypeOK
<1>2. TypeOK'
  BY <1>1, PcFacts DEF TypeOK, Places, Drops
<1> QED
  BY <1>1, <1>2, PcFacts DEF Touches, Stored, Drops

\* A write that fails leaves the copy as it is.
LEMMA FailFacts ==
  ASSUME TypeOK, NEW b \in Backups, NEW x \in CR, NEW l \in Places, WriteFails(b, x),
         Goto(b, l) \/ (l = "idle" /\ (Return(b) \/ Retry(b))),
         UNCHANGED <<cache, job>>, Drops(b)
  PROVE  TypeOK' /\ Touches(b) /\ (Kept(b, l) \/ Unanswered(b, x, l))
<1>1. /\ api' \in [Backups -> CR] /\ seen' = seen
      /\ api'[b] = api[b] \/ (seen[b] = api[b] /\ api'[b] = x)
      /\ \A c \in Backups \ {b} : api'[c] = api[c]
  BY DEF WriteFails, Conflict, TypeOK
<1>2. faults' \in 0 .. MaxFaults
  BY FaultFacts DEF WriteFails
<1>3. TypeOK'
  BY <1>1, <1>2, PcFacts DEF TypeOK, Places, Drops
<1> QED
  BY <1>1, <1>3, PcFacts DEF Touches, Kept, Unanswered, Drops

\* A step that writes nothing.
LEMMA KeepFacts ==
  ASSUME TypeOK, NEW b \in Backups, NEW l \in Places,
         Goto(b, l) \/ (l = "idle" /\ (Return(b) \/ Retry(b))),
         UNCHANGED <<api, cache, seen, job>>, Fault \/ UNCHANGED faults, Drops(b)
  PROVE  TypeOK' /\ Touches(b) /\ Kept(b, l)
<1>1. faults' \in 0 .. MaxFaults
  BY FaultFacts
<1>2. TypeOK'
  BY <1>1, PcFacts DEF TypeOK, Places, Drops
<1> QED
  BY <1>2, PcFacts DEF Touches, Kept, Drops

-----------------------------------------------------------------------------
(***************************************************************************)
(* The invariant, one backup at a time.                                    *)
(***************************************************************************)
OneTold(b) ==
  /\ api[b].phase = "Succeeded" => job[b] = "complete"
  /\ api[b].phase = "Failed" => job[b] \in {"none", "failed"} \/ dropped[b]
  /\ api[b].phase = "Ignored" => job[b] = "none"
  /\ job[b] = "active" => (api[b].phase = "Running" /\ api[b].label) \/ dropped[b]
  /\ job[b] # "none" =>
       /\ api[b].phase = "Running" => api[b].label
       /\ api[b].phase \in {"Running"} \cup Completed

OneKnows(b) ==
  /\ pc[b] \in {"check", "run", "job"} => seen[b].phase \notin Completed
  /\ pc[b] \in {"start", "sort", "check"} =>
       \/ seen[b] # api[b] \/ job[b] = "none"
       \/ api[b].phase \in Completed \/ cache[b].label
  /\ pc[b] = "run" => seen[b] # api[b] \/ job[b] = "none"
  /\ pc[b] \in {"label", "create"} => seen[b] = api[b] /\ api[b].phase = "Running"
  /\ pc[b] = "create" => api[b].label
  /\ pc[b] = "unlabel" =>
       seen[b] # api[b] \/ seen[b].phase \in Completed \/ job[b] = "none"

One(b) == OneTold(b) /\ OneKnows(b)

Final(b) == api[b].phase \in Completed => api'[b].phase = api[b].phase

\* The other backups keep their invariant in a step of one pass.
LEMMA Others ==
  ASSUME NEW b \in Backups, \A c \in Backups : One(c), Touches(b), One(b)'
  PROVE  \A c \in Backups : One(c)'
<1>1. SUFFICES ASSUME NEW c \in Backups, c # b PROVE One(c)'
  OBVIOUS
<1>2. One(c)
  OBVIOUS
<1>3. /\ api'[c] = api[c] /\ seen'[c] = seen[c] /\ pc'[c] = pc[c] /\ job'[c] = job[c]
      /\ dropped'[c] = dropped[c] /\ cache'[c] = cache[c]
  BY <1>1 DEF Touches
<1> QED
  BY <1>2, <1>3 DEF One, OneTold, OneKnows

\* A step that leaves the stored backup alone and goes where a pass knows
\* nothing.
LEMMA KeptSafe ==
  ASSUME NEW b \in Backups, One(b), Drops(b), Kept(b, "idle")
  PROVE  One(b)' /\ Final(b)
BY DEF Kept, Drops, One, OneTold, OneKnows, Final

\* A check turns the backup down: with a Job it had its label.
LEMMA RefuseSafe ==
  ASSUME TypeOK, NEW b \in Backups, One(b), pc[b] \in {"check", "run"},
         Refuse(b) \/ (pc[b] = "run" /\ RefuseOrRetry(b)), UNCHANGED <<cache, job>>
  PROVE  TypeOK' /\ Touches(b) /\ One(b)' /\ Final(b)
<1>. DEFINE x == [seen[b] EXCEPT !.phase = "Failed"]
<1>0. seen[b] \in CR /\ api[b] \in CR
  BY DEF TypeOK
<1>1. x \in CR /\ x.phase = "Failed" /\ x.label = seen[b].label /\ x.label \in BOOLEAN
  BY <1>0 DEF CR, Completed
<1>2. job'[b] = job[b]
  OBVIOUS
<1>. HIDE DEF x
<1>3. CASE Refuse(b)
  <2>. DEFINE e == ~ Finished(api'[b])
  <2>1. e \in BOOLEAN /\ dropped' = [dropped EXCEPT ![b] = @ \/ e]
    BY <1>3 DEF Refuse
  <2>. HIDE DEF e
  <2>2. Drops(b) /\ (e => dropped'[b])
    BY <2>1, DropFacts
  <2>3. /\ TypeOK' /\ Touches(b)
        /\ Stored(b, x, "idle") \/ Kept(b, "idle") \/ Unanswered(b, x, "idle")
    BY <1>1, <1>3, <2>2, WriteFacts, FailFacts DEF Refuse, Places, x
  <2>4. CASE Kept(b, "idle")
    BY <2>2, <2>3, <2>4, KeptSafe
  <2>5. CASE Stored(b, x, "idle") \/ Unanswered(b, x, "idle")
    <3>1. seen[b] = api[b] /\ api'[b] = x /\ pc'[b] = "idle"
      BY <2>5 DEF Stored, Unanswered
    <3>2. job[b] # "none" => api[b].label
      BY <3>1 DEF One, OneTold, OneKnows
    <3>3. job[b] # "none" => dropped'[b]
      BY <1>1, <2>2, <3>1, <3>2 DEF Finished, e
    <3> QED
      BY <1>1, <1>2, <2>3, <3>1, <3>3 DEF One, OneTold, OneKnows, Final, Completed
  <2> QED BY <2>3, <2>4, <2>5
<1>4. CASE pc[b] = "run" /\ RefuseOrRetry(b)
  <2>0. pc[b] = "run"
    BY <1>4
  <2>1. CASE Write(b, x) /\ Return(b) /\ dropped' = [dropped EXCEPT ![b] = @ \/ x.label]
    <3>1. Drops(b)
      BY <1>1, <2>1, DropFacts
    <3>2. TypeOK' /\ Touches(b) /\ Stored(b, x, "idle")
      BY <1>1, <2>1, <3>1, WriteFacts DEF Places
    <3> QED
      BY <1>1, <2>0, <3>2 DEF Stored, One, OneTold, OneKnows, Final, Completed
  <2>2. CASE WriteFails(b, x) /\ Retry(b) /\ UNCHANGED dropped
    <3>1. Drops(b)
      BY <2>2, NoDrop
    <3>2. TypeOK' /\ Touches(b) /\ (Kept(b, "idle") \/ Unanswered(b, x, "idle"))
      BY <1>1, <2>2, <3>1, FailFacts DEF Places
    <3>3. CASE Kept(b, "idle")
      BY <3>1, <3>2, <3>3, KeptSafe
    <3>4. CASE Unanswered(b, x, "idle")
      BY <1>1, <2>0, <3>2, <3>4 DEF Unanswered, One, OneTold, OneKnows, Final, Completed
    <3> QED BY <3>2, <3>3, <3>4
  <2> QED BY <1>4, <2>1, <2>2 DEF RefuseOrRetry, x
<1> QED BY <1>3, <1>4

\* A call of the pass fails and changes nothing.
LEMMA CallFailsSafe ==
  ASSUME TypeOK, NEW b \in Backups, One(b), CallFails(b), UNCHANGED <<cache, job>>
  PROVE  TypeOK' /\ Touches(b) /\ One(b)' /\ Final(b)
<1>1. Drops(b)
  BY NoDrop DEF CallFails
<1>2. TypeOK' /\ Touches(b) /\ Kept(b, "idle")
  BY <1>1, KeepFacts DEF CallFails, Places
<1> QED BY <1>1, <1>2, KeptSafe

\* Every step of a pass keeps the invariant of its backup, and its phase if
\* it is completed.
LEMMA PassSafe ==
  ASSUME TypeOK, NEW b \in Backups, One(b), Pass(b)
  PROVE  TypeOK' /\ Touches(b) /\ One(b)' /\ Final(b)
<1>0. seen[b] \in CR /\ api[b] \in CR
  BY DEF TypeOK
<1>1. CASE SetStartTime(b)
  <2>. DEFINE x == [seen[b] EXCEPT !.started = TRUE]
  <2>1. x \in CR /\ x.phase = seen[b].phase /\ x.label = seen[b].label
    BY <1>0 DEF CR, Completed
  <2>2. pc[b] = "start" /\ dropped' = dropped /\ Drops(b)
    BY <1>1, NoDrop DEF SetStartTime
  <2>3. /\ TypeOK' /\ Touches(b)
        /\ \/ Stored(b, x, "sort") \/ Unanswered(b, x, "idle")
           \/ Kept(b, "sort") \/ Kept(b, "idle")
    BY <1>1, <2>1, <2>2, WriteFacts, FailFacts, KeepFacts
    DEF SetStartTime, WriteOrRetry, Places
  <2>. HIDE DEF x
  <2> QED
    BY <2>1, <2>2, <2>3 DEF Stored, Unanswered, Kept, One, OneTold, OneKnows, Final
<1>2. CASE SkipCompleted(b)
  <2>1. PICK l \in {"unlabel", "check"} :
          Goto(b, l) /\ (l = "unlabel" <=> seen[b].phase \in Completed)
    BY <1>2 DEF SkipCompleted
  <2>2. pc[b] = "sort" /\ dropped' = dropped /\ Drops(b)
    BY <1>2, NoDrop DEF SkipCompleted
  <2>3. TypeOK' /\ Touches(b) /\ Kept(b, l)
    BY <1>2, <2>1, <2>2, KeepFacts DEF SkipCompleted, Places
  <2> QED
    BY <2>1, <2>2, <2>3 DEF Kept, One, OneTold, OneKnows, Final
<1>3. CASE Validate(b)
  <2>0. pc[b] = "check" /\ UNCHANGED <<cache, job>>
    BY <1>3 DEF Validate
  <2>1. CASE Refuse(b)
    BY <2>0, <2>1, RefuseSafe
  <2>2. CASE CallFails(b)
    BY <2>0, <2>2, CallFailsSafe
  <2>3. CASE /\ Goto(b, IF BackupRunning THEN "job" ELSE "run")
             /\ UNCHANGED <<api, seen, dropped, faults>>
    <3>1. PICK l \in {"job", "run"} : Goto(b, l) /\ (l = "run" => ~ BackupRunning)
      BY <2>3
    <3>2. Drops(b)
      BY <2>3, NoDrop
    <3>3. TypeOK' /\ Touches(b) /\ Kept(b, l)
      BY <2>0, <2>3, <3>1, <3>2, KeepFacts DEF Places
    <3>4. l = "run" => job[b] = "none" \/ ~ cache[b].label
      BY <3>1 DEF BackupRunning
    <3>5. l = "run" => seen[b] # api[b] \/ job[b] = "none"
      BY <2>0, <3>4 DEF One, OneKnows
    <3>6. dropped' = dropped /\ job' = job /\ cache' = cache
      BY <2>0, <2>3
    <3> QED
      BY <2>0, <3>3, <3>5, <3>6 DEF Kept, One, OneTold, OneKnows, Final
  <2> QED
    BY <1>3, <2>1, <2>2, <2>3 DEF Validate
<1>4. CASE Run(b)
  <2>0. pc[b] = "run" /\ UNCHANGED <<cache, job>>
    BY <1>4 DEF Run
  <2>1. CASE Refuse(b) \/ RefuseOrRetry(b)
    BY <2>0, <2>1, RefuseSafe
  <2>2. CASE CallFails(b)
    BY <2>0, <2>2, CallFailsSafe
  <2>3. CASE /\ WriteOrRetry(b, [seen[b] EXCEPT !.phase = "Running"], "label")
             /\ UNCHANGED dropped
    <3>. DEFINE x == [seen[b] EXCEPT !.phase = "Running"]
    <3>1. x \in CR /\ x.phase = "Running" /\ x.label = seen[b].label
      BY <1>0 DEF CR, Completed
    <3>2. Drops(b)
      BY <2>3, NoDrop
    <3>3. /\ TypeOK' /\ Touches(b)
          /\ Stored(b, x, "label") \/ Unanswered(b, x, "idle") \/ Kept(b, "idle")
      BY <2>0, <2>3, <3>1, <3>2, WriteFacts, FailFacts DEF WriteOrRetry, Places
    <3>. HIDE DEF x
    <3>4. dropped' = dropped
      BY <2>3
    <3> QED
      BY <2>0, <3>1, <3>3, <3>4
      DEF Stored, Unanswered, Kept, One, OneTold, OneKnows, Final, Completed
  <2> QED
    BY <1>4, <2>1, <2>2, <2>3 DEF Run
<1>5. CASE Label(b)
  <2>. DEFINE x == [seen[b] EXCEPT !.label = TRUE]
  <2>1. x \in CR /\ x.phase = seen[b].phase /\ x.label
    BY <1>0 DEF CR, Completed
  <2>2. pc[b] = "label" /\ dropped' = dropped /\ Drops(b)
    BY <1>5, NoDrop DEF Label
  <2>3. /\ TypeOK' /\ Touches(b)
        /\ Stored(b, x, "create") \/ Unanswered(b, x, "idle") \/ Kept(b, "idle")
    BY <1>5, <2>1, <2>2, WriteFacts, FailFacts DEF Label, WriteOrRetry, Places
  <2>. HIDE DEF x
  <2> QED
    BY <2>1, <2>2, <2>3 DEF Stored, Unanswered, Kept, One, OneTold, OneKnows, Final
<1>6. CASE CreateJob(b)
  <2>0. pc[b] = "create" /\ UNCHANGED <<api, cache, seen, dropped>>
    BY <1>6 DEF CreateJob
  <2>1. Drops(b)
    BY <2>0, NoDrop
  <2>2. CASE /\ job' = [job EXCEPT ![b] = "active"]
             /\ Return(b) \/ Retry(b)
             /\ Fault \/ UNCHANGED faults
    <3>1. faults' \in 0 .. MaxFaults
      BY <2>2, FaultFacts
    <3>2. /\ pc' \in [Backups -> Places] /\ queued' \in [Backups -> BOOLEAN]
          /\ pc'[b] = "idle"
          /\ \A c \in Backups \ {b} : pc'[c] = pc[c]
      BY <2>2, PcFacts DEF Places
    <3>3. TypeOK' /\ job'[b] = "active"
      BY <2>0, <2>2, <3>1, <3>2 DEF TypeOK, Places
    <3>4. Touches(b)
      BY <2>0, <2>2, <3>2 DEF TypeOK, Touches
    <3> QED
      BY <2>0, <3>2, <3>3, <3>4 DEF One, OneTold, OneKnows, Final
  <2>3. CASE job' = job /\ Retry(b) /\ (Fault \/ UNCHANGED faults)
    <3>1. TypeOK' /\ Touches(b) /\ Kept(b, "idle")
      BY <2>0, <2>1, <2>3, KeepFacts DEF Places
    <3> QED BY <2>1, <3>1, KeptSafe
  <2> QED
    BY <1>6, <2>2, <2>3 DEF CreateJob
<1>7. CASE HandleBackupJob(b)
  <2>0. pc[b] = "job" /\ UNCHANGED <<cache, job>>
    BY <1>7 DEF HandleBackupJob
  <2>1. CASE /\ job[b] = "none" /\ Goto(b, "unlabel") /\ UNCHANGED dropped
             /\ LET x == [seen[b] EXCEPT !.phase = "Ignored"]
                IN Write(b, x) \/ WriteFails(b, x)
    <3>. DEFINE x == [seen[b] EXCEPT !.phase = "Ignored"]
    <3>1. x \in CR /\ x.phase = "Ignored"
      BY <1>0 DEF CR, Completed
    <3>2. Drops(b)
      BY <2>1, NoDrop
    <3>3. /\ TypeOK' /\ Touches(b)
          /\ \/ Stored(b, x, "unlabel") \/ Unanswered(b, x, "unlabel")
             \/ Kept(b, "unlabel")
      BY <2>0, <2>1, <3>1, <3>2, WriteFacts, FailFacts DEF Places
    <3>. HIDE DEF x
    <3>4. dropped' = dropped /\ job[b] = "none"
      BY <2>1
    <3> QED
      BY <2>0, <3>1, <3>3, <3>4
      DEF Stored, Unanswered, Kept, One, OneTold, OneKnows, Final, Completed
  <2>2. CASE UNCHANGED <<api, seen, dropped, faults>> /\ Retry(b)
    <3>1. Drops(b)
      BY <2>2, NoDrop
    <3>2. TypeOK' /\ Touches(b) /\ Kept(b, "idle")
      BY <2>0, <2>2, <3>1, KeepFacts DEF Places
    <3> QED BY <3>1, <3>2, KeptSafe
  <2>3. CASE /\ job[b] \in {"complete", "failed"} /\ UNCHANGED dropped
             /\ WriteOrRetry(b, [seen[b] EXCEPT !.phase = PhaseOf(job[b])], "unlabel")
    <3>. DEFINE x == [seen[b] EXCEPT !.phase = PhaseOf(job[b])]
    <3>0. /\ PhaseOf(job[b]) \in Completed
          /\ job[b] = "complete" => PhaseOf(job[b]) = "Succeeded"
          /\ job[b] = "failed" => PhaseOf(job[b]) = "Failed"
      BY DEF PhaseOf, Completed
    <3>1. x \in CR /\ x.phase = PhaseOf(job[b])
      BY <1>0, <3>0 DEF CR
    <3>2. Drops(b)
      BY <2>3, NoDrop
    <3>3. /\ TypeOK' /\ Touches(b)
          /\ Stored(b, x, "unlabel") \/ Unanswered(b, x, "idle") \/ Kept(b, "idle")
      BY <2>0, <2>3, <3>1, <3>2, WriteFacts, FailFacts DEF WriteOrRetry, Places
    <3>. HIDE DEF x
    <3>4. dropped' = dropped /\ job[b] \in {"complete", "failed"}
      BY <2>3
    <3> QED
      BY <2>0, <3>0, <3>1, <3>3, <3>4
      DEF Stored, Unanswered, Kept, One, OneTold, OneKnows, Final
  <2>4. CASE CallFails(b)
    BY <2>0, <2>4, CallFailsSafe
  <2> QED
    BY <1>7, <2>1, <2>2, <2>3, <2>4 DEF HandleBackupJob
<1>8. CASE Unlabel(b)
  <2>. DEFINE x == [seen[b] EXCEPT !.label = FALSE]
             e == ~ Finished(x)
  <2>1. x \in CR /\ x.phase = seen[b].phase /\ e \in BOOLEAN
    BY <1>0 DEF CR, Completed
  <2>2. pc[b] = "unlabel" /\ UNCHANGED <<cache, job>>
    BY <1>8 DEF Unlabel
  <2>3. \/ Write(b, x) /\ Return(b) /\ dropped' = [dropped EXCEPT ![b] = @ \/ e]
        \/ WriteFails(b, x) /\ Retry(b) /\ UNCHANGED dropped
    BY <1>8 DEF Unlabel
  <2>. HIDE DEF x, e
  <2>4. Drops(b)
    BY <2>1, <2>3, DropFacts, NoDrop
  <2>5. /\ TypeOK' /\ Touches(b)
        /\ Stored(b, x, "idle") \/ Unanswered(b, x, "idle") \/ Kept(b, "idle")
    BY <2>1, <2>2, <2>3, <2>4, WriteFacts, FailFacts DEF Places
  <2> QED
    BY <2>1, <2>2, <2>4, <2>5
    DEF Stored, Unanswered, Kept, Drops, One, OneTold, OneKnows, Final, Completed
<1> QED
  BY <1>1, <1>2, <1>3, <1>4, <1>5, <1>6, <1>7, <1>8 DEF Pass

-----------------------------------------------------------------------------
(***************************************************************************)
(* The results.                                                            *)
(***************************************************************************)
\* The first state of the controller satisfies the invariant.
LEMMA InitSafe == Init => IInv
<1>. SUFFICES ASSUME Init PROVE IInv
  OBVIOUS
<1>1. New \in CR /\ New.phase = ""
  BY DEF New, CR
<1>2. TypeOK
  <2>1. queued \in [Backups -> BOOLEAN] /\ dropped \in [Backups -> BOOLEAN]
    BY DEF Init
  <2>2. /\ api \in [Backups -> CR] /\ cache \in [Backups -> CR] /\ seen \in [Backups -> CR]
    BY <1>1, Zenon DEF Init
  <2>3. faults \in 0 .. MaxFaults
    BY BackupAssumption DEF Init
  <2> QED
    BY <2>1, <2>2, <2>3 DEF Init, TypeOK
<1>3. \A b \in Backups : api[b].phase = "" /\ job[b] = "none" /\ pc[b] = "idle"
  BY <1>1 DEF Init
<1> QED
  BY <1>2, <1>3 DEF IInv, PhaseTellsJob, JobAnnounced, JobTracked, PassKnows, Completed

\* Every step of the operator, the cache, the Jobs and the restarts keeps it.
LEMMA NextSafe ==
  ASSUME IInv, [Next]_vars
  PROVE  IInv'
<1>. USE DEF IInv
<1>1. \A c \in Backups : One(c)
  BY DEF PhaseTellsJob, JobAnnounced, JobTracked, PassKnows, One, OneTold, OneKnows
<1>2. SUFFICES TypeOK' /\ \A c \in Backups : One(c)'
  BY DEF PhaseTellsJob, JobAnnounced, JobTracked, PassKnows, One, OneTold, OneKnows
<1>3. ASSUME NEW b \in Backups, Pass(b)
      PROVE  TypeOK' /\ \A c \in Backups : One(c)'
  BY <1>1, <1>3, PassSafe, Others
<1>4. ASSUME NEW b \in Backups, StartPass(b)
      PROVE  TypeOK' /\ \A c \in Backups : One(c)'
  <2>1. TypeOK'
    BY <1>4 DEF StartPass, TypeOK
  <2>2. /\ Touches(b) /\ pc'[b] = "start" /\ seen'[b] = cache[b]
        /\ UNCHANGED <<api, cache, job, dropped>>
    BY <1>4 DEF StartPass, TypeOK, Touches
  <2>3. One(b)'
    BY <1>1, <2>2 DEF One, OneTold, OneKnows
  <2> QED
    BY <1>1, <2>1, <2>2, <2>3, Others
<1>5. ASSUME NEW b \in Backups, CacheSync(b)
      PROVE  TypeOK' /\ \A c \in Backups : One(c)'
  <2>1. TypeOK' /\ cache'[b] = api[b]
    BY <1>5 DEF CacheSync, TypeOK
  <2>2. Touches(b) /\ UNCHANGED <<api, seen, pc, job, dropped>>
    BY <1>5 DEF CacheSync, TypeOK, Touches
  <2>3. One(b)'
    BY <1>1, <2>1, <2>2 DEF One, OneTold, OneKnows
  <2> QED
    BY <1>1, <2>1, <2>2, <2>3, Others
<1>6. ASSUME NEW b \in Backups, JobEnds(b)
      PROVE  TypeOK' /\ \A c \in Backups : One(c)'
  <2>1. PICK r \in {"complete", "failed"} : job' = [job EXCEPT ![b] = r]
    BY <1>6 DEF JobEnds
  <2>2. TypeOK' /\ job'[b] = r
    BY <1>6, <2>1 DEF JobEnds, TypeOK
  <2>3. Touches(b)
    BY <1>6, <2>1 DEF JobEnds, TypeOK, Touches
  <2>4. One(b)'
    BY <1>1, <1>6, <2>2 DEF JobEnds, One, OneTold, OneKnows, Completed
  <2> QED
    BY <1>1, <2>2, <2>3, <2>4, Others
<1>7. ASSUME Crash
      PROVE  TypeOK' /\ \A c \in Backups : One(c)'
  <2>1. faults' \in 0 .. MaxFaults
    BY <1>7, FaultFacts DEF Crash
  <2>2. TypeOK'
    BY <1>7, <2>1 DEF Crash, TypeOK
  <2> QED
    BY <1>1, <1>7, <2>2 DEF Crash, One, OneTold, OneKnows
<1>8. CASE UNCHANGED vars
  BY <1>1, <1>8 DEF vars, TypeOK, One, OneTold, OneKnows
<1> QED
  BY <1>3, <1>4, <1>5, <1>6, <1>7, <1>8 DEF Next

\* The inductive invariant holds of every behaviour of the controller.
THEOREM Invariance == Spec => []IInv
<1>1. Init => IInv
  BY InitSafe
<1>2. IInv /\ [Next]_vars => IInv'
  BY NextSafe
<1> QED
  BY <1>1, <1>2, PTL DEF Spec

\* The variables keep their types.
THEOREM TypeCorrect == Spec => []TypeOK
<1>1. IInv => TypeOK
  BY DEF IInv
<1> QED
  BY <1>1, Invariance, PTL

\* A phase that says how a backup ended says what became of its own Job, unless
\* a check turned the backup down when it had its label (handleBackupJob,
\* markAsFailedBackup).
THEOREM PhaseCorrect == Spec => []PhaseTellsJob
<1>1. IInv => PhaseTellsJob
  BY DEF IInv
<1> QED
  BY <1>1, Invariance, PTL

\* While a Job runs its backup is stored as Running with the label
\* isBackupRunning of the others looks for, unless a later pass turned it down.
THEOREM Announced == Spec => []JobAnnounced
<1>1. IInv => JobAnnounced
  BY DEF IInv
<1> QED
  BY <1>1, Invariance, PTL

\* A completed backup keeps its phase, however old the copies that passes
\* work on, and across restarts of the operator.
THEOREM CompletedStays == Spec => CompletedIsFinal
<1>. DEFINE A == \A b \in Backups : api[b].phase \in Completed => api'[b].phase = api[b].phase
<1>1. ASSUME IInv, [Next]_vars PROVE A
  <2>1. \A c \in Backups : One(c)
    BY <1>1
    DEF IInv, PhaseTellsJob, JobAnnounced, JobTracked, PassKnows, One, OneTold, OneKnows
  <2>2. ASSUME NEW b \in Backups, Pass(b) PROVE A
    BY <1>1, <2>1, <2>2, PassSafe DEF IInv, Touches, Final
  <2>3. CASE api' = api
    BY <2>3
  <2> QED
    BY <1>1, <2>2, <2>3 DEF Next, vars, StartPass, CacheSync, JobEnds, Crash
<1> QED
  BY <1>1, Invariance, PTL DEF Spec, CompletedIsFinal
===============================================================================
