--------------------------- MODULE AccountEmailProofs ---------------------------
(***************************************************************************)
(* What account mail promises, proved for any number of messages, workers, *)
(* clients, attempts and revisions.                                        *)
(*                                                                         *)
(* Almost every statement lets the rows of the outbox go on (`Continues':  *)
(* they end, lose their lease or their link, none begins); the invariant   *)
(* is preserved by such steps once for all.  What is left are the changes  *)
(* of the settings, the steps that add a row, lease one, count an attempt  *)
(* or use a link.                                                          *)
(***************************************************************************)
EXTENDS AccountEmail, TLAPS

\* A row after a statement that neither adds nor leases rows nor counts attempts
\* of a lease.
Follows(new, old) ==
  /\ new \in Row
  /\ new.status = "running" <=> new.lease # NoWorker
  /\ new.kind = old.kind
  /\ new.status = "absent" <=> old.status = "absent"
  /\ old.status = "absent" => new = old
  /\ old.status \in Ended => new.status = old.status
  /\ new.status \in Pending => old.status \in Pending /\ new.attempts >= old.attempts
  /\ new.lease # NoWorker => new.lease = old.lease /\ new.attempts = old.attempts
  /\ new.token = "active" => old.token = "active"
  /\ new.token = "revoked" /\ new.status \in Pending => old.token = "revoked"
  /\ new.kind = "registration" /\ new.status \in Pending => new.token = old.token

Continues(M, N) == N \in [Mail -> Row] /\ \A m \in Mail : Follows(N[m], M[m])

\* Absent rows are untouched, and a transaction that will add one has found it so.
RowsBegin ==
  /\ \A m \in Mail : mail[m].status = "absent" => mail[m] = NoRow /\ uses[m] = 0
  /\ notifying # NoMail => mail[notifying].status = "absent"

\* A worker's claim and the row it leased agree on the attempts, until one of them
\* gives the other up.
LeasesAgree ==
  /\ \A w \in Worker : worker[w].stage # "idle" =>
       worker[w].mail \in Mail /\ worker[w].attempts < MaxAttempts
  /\ \A w \in Worker, m \in Mail : worker[w].stage # "idle" /\ mail[m].lease = w =>
       /\ worker[w].mail = m
       /\ mail[m].attempts = IF worker[w].stage = "sending" THEN worker[w].attempts + 1
                             ELSE worker[w].attempts

\* A link that works was not used yet.
LinksAreFresh == \A m \in Mail : uses[m] \in {0, 1} /\ (mail[m].token = "active" => uses[m] = 0)

Inv ==
  /\ TypeOK /\ RowsBegin /\ LeasesAgree /\ LinksAreFresh
  /\ SendsUseCurrentSettings /\ PendingLinksAreServed /\ OneLiveLink

\* The two action properties, as formulas of a step.
SendCounted ==
  /\ \A w \in Worker : SendStarts(w) =>
       mail'[worker[w].mail].attempts = mail[worker[w].mail].attempts + 1
  /\ \A m \in Mail : mail'[m].status \in Pending => mail'[m].attempts >= mail[m].attempts

EndIsFinal ==
  \A m \in Mail : mail[m].status \in Ended =>
    /\ mail'[m].status = mail[m].status
    /\ \A w \in Worker : worker[w].mail = m => ~SendStarts(w)

StepOK == Inv' /\ SendCounted /\ EndIsFinal

\* What the other parts of the invariant do not speak of, and a transaction that
\* adds a row adds one that is not there.
LocalsFollow ==
  /\ exists' \in BOOLEAN /\ handed' \in SUBSET Mail
  /\ completing' \in [Client -> Mail \cup {NoMail}]
  /\ notifying' \in Mail \cup {NoMail}
  /\ notifying' # NoMail => mail[notifying'].status = "absent"

\* A link is used when it works, and then no more.
UsesFollow ==
  /\ uses' = [m \in Mail |-> uses'[m]]
  /\ \A m \in Mail :
       \/ uses'[m] = uses[m]
       \/ uses'[m] = uses[m] + 1 /\ mail[m].token = "active" /\ mail'[m].token # "active"

\* A worker goes on without sending: it stops, stays, or comes closer to the send
\* under settings that are in force.
WorkerFollows(new, old) ==
  \/ new = old
  \/ new = NoJob
  \/ /\ new \in [stage : {"claimed", "prepared", "checked"}, mail : Mail \cup {NoMail},
                 attempts : 0..MaxAttempts, revision : Revision]
     /\ old.stage \in {"claimed", "prepared", "checked"}
     /\ new.mail = old.mail /\ new.attempts = old.attempts
     /\ new.stage = "checked" => Active(settings) /\ settings.revision = new.revision

WorkersFollow ==
  /\ \A w \in Worker : WorkerFollows(worker'[w], worker[w])
  /\ worker' = [w \in Worker |-> worker'[w]]

\* The settings change under the fence; when mail is no longer active, no message
\* waits any more.
SettingsFollow ==
  \/ settings' = settings
  \/ /\ FenceFree /\ worker' = worker
     /\ settings' \in Settings /\ (settings'.enabled => settings'.passed)
     /\ Active(settings) => Active(settings') \/ \A m \in Mail : mail'[m].status \notin Pending

-----------------------------------------------------------------------------
(* The statements.                                                         *)

LEMMA UnleasedFields ==
  ASSUME NEW row \in Row, NEW status \in {"queued", "sent", "dropped"}
  PROVE  LET new == Unleased(row, status) IN
         /\ new \in Row /\ new.kind = row.kind /\ new.token = row.token /\ new.expired = row.expired
         /\ new.status = status /\ new.lease = NoWorker /\ new.lapsed = FALSE
         /\ new.attempts = IF status = "queued" THEN row.attempts ELSE 0
<1> DEFINE attempts == IF status = "queued" THEN row.attempts ELSE 0
<1>1. attempts \in 0..MaxAttempts
  BY MailAssumption DEF Row
<1>2. Unleased(row, status) =
        [row EXCEPT !.status = status, !.lease = NoWorker, !.lapsed = FALSE, !.attempts = attempts]
  BY DEF Unleased
<1>3. attempts = IF status = "queued" THEN row.attempts ELSE 0
  OBVIOUS
<1> HIDE DEF attempts
<1>4. QED  BY <1>1, <1>2, <1>3 DEF Row, Pending, Ended

LEMMA CancelledFields ==
  ASSUME NEW M \in [Mail -> Row], NEW S \in SUBSET Mail
  PROVE  /\ Cancelled(M, S) \in [Mail -> Row]
         /\ \A m \in Mail :
              LET new == Cancelled(M, S)[m] IN
              /\ new.kind = M[m].kind /\ new.token = M[m].token
              /\ ~(m \in S /\ M[m].status \in Pending) => new = M[m]
              /\ m \in S /\ M[m].status \in Pending => new.status = "dropped" /\ new.lease = NoWorker
<1>1. \A m \in Mail : Unleased(M[m], "dropped") \in Row
        /\ Unleased(M[m], "dropped").kind = M[m].kind /\ Unleased(M[m], "dropped").token = M[m].token
        /\ Unleased(M[m], "dropped").status = "dropped" /\ Unleased(M[m], "dropped").lease = NoWorker
  BY UnleasedFields
<1>2. QED  BY <1>1 DEF Cancelled

LEMMA RevokedFields ==
  ASSUME NEW M \in [Mail -> Row], NEW S \in SUBSET Mail
  PROVE  /\ Revoked(M, S) \in [Mail -> Row]
         /\ \A m \in Mail :
              LET new == Revoked(M, S)[m] IN
              /\ new.kind = M[m].kind
              /\ m \notin S => new = M[m]
              /\ m \in S => new.token = "revoked"
              /\ m \in S /\ M[m].status \in Pending => new.status = "dropped" /\ new.lease = NoWorker
              /\ m \in S /\ M[m].status \notin Pending =>
                   new.status = M[m].status /\ new.lease = M[m].lease /\ new.attempts = M[m].attempts
<1> DEFINE T == [m \in Mail |-> IF m \in S THEN [M[m] EXCEPT !.token = "revoked"] ELSE M[m]]
<1>1. T \in [Mail -> Row] /\ \A m \in Mail :
        /\ m \notin S => T[m] = M[m]
        /\ m \in S => T[m].token = "revoked" /\ T[m].status = M[m].status /\ T[m].kind = M[m].kind
                      /\ T[m].lease = M[m].lease /\ T[m].attempts = M[m].attempts
  BY DEF Row
<1>2. Revoked(M, S) = Cancelled(T, S)
  BY DEF Revoked
<1> HIDE DEF T
<1>3. QED  BY <1>1, <1>2, CancelledFields

LEMMA NothingFollows ==
  ASSUME TypeOK
  PROVE  Continues(mail, mail)
  BY DEF TypeOK, Continues, Follows, Row

LEMMA CancellationFollows ==
  ASSUME TypeOK, NEW S \in SUBSET Mail
  PROVE  Continues(mail, Cancelled(mail, S))
<1> mail \in [Mail -> Row]
  BY DEF TypeOK
<1>1. QED
  BY CancelledFields DEF TypeOK, Continues, Follows, Row, Pending, Ended

\* Revoking, of rows that are there.
LEMMA RevocationFollows ==
  ASSUME TypeOK, NEW S \in SUBSET Mail, \A m \in S : mail[m].status # "absent"
  PROVE  Continues(mail, Revoked(mail, S))
<1> mail \in [Mail -> Row]
  BY DEF TypeOK
<1>1. QED
  BY RevokedFields DEF TypeOK, Continues, Follows, Row, Pending, Ended

-----------------------------------------------------------------------------
(* The steps that let the rows go on.                                      *)

LEMMA WorkersStay ==
  ASSUME TypeOK, UNCHANGED worker
  PROVE  WorkersFollow
  BY DEF TypeOK, WorkersFollow, WorkerFollows

LEMMA ContinuingKeeps ==
  ASSUME Inv, Continues(mail, mail'), WorkersFollow, SettingsFollow, LocalsFollow, UsesFollow
  PROVE  StepOK
<1>1. /\ settings' \in Settings /\ (settings'.enabled => settings'.passed)
  BY DEF Inv, TypeOK, SettingsFollow
<1>2. worker' \in [Worker -> [stage : Stage, mail : Mail \cup {NoMail}, attempts : 0..MaxAttempts,
                             revision : Revision]]
  <2>1. ASSUME NEW w \in Worker
        PROVE  worker'[w] \in [stage : Stage, mail : Mail \cup {NoMail}, attempts : 0..MaxAttempts,
                              revision : Revision]
    <3>1. CASE worker'[w] = worker[w]
      BY <3>1 DEF Inv, TypeOK
    <3>2. CASE worker'[w] = NoJob
      BY <3>2, MailAssumption DEF NoJob, Stage, Revision
    <3>3. CASE worker'[w] \in [stage : {"claimed", "prepared", "checked"}, mail : Mail \cup {NoMail},
                               attempts : 0..MaxAttempts, revision : Revision]
      BY <3>3 DEF Stage
    <3>4. QED  BY <3>1, <3>2, <3>3 DEF WorkersFollow, WorkerFollows
  <2>2. QED  BY <2>1 DEF WorkersFollow
<1>3. uses' \in [Mail -> Nat]
  BY DEF Inv, TypeOK, UsesFollow
<1>4. TypeOK'
  BY <1>1, <1>2, <1>3 DEF TypeOK, LocalsFollow, Continues, Follows
<1>5. RowsBegin'
  BY DEF Inv, TypeOK, RowsBegin, LocalsFollow, UsesFollow, Continues, Follows, NoRow
<1>6. LinksAreFresh'
  BY DEF Inv, TypeOK, LinksAreFresh, UsesFollow, Continues, Follows
<1>7. LeasesAgree'
  <2>1. ASSUME NEW w \in Worker, worker'[w].stage # "idle"
        PROVE  /\ worker[w].stage # "idle"
               /\ worker'[w].mail = worker[w].mail /\ worker'[w].attempts = worker[w].attempts
               /\ worker'[w].stage = "sending" <=> worker[w].stage = "sending"
    BY <2>1 DEF WorkersFollow, WorkerFollows, NoJob
  <2>2. ASSUME NEW m \in Mail, NEW w \in Worker, mail'[m].lease = w
        PROVE  mail[m].lease = w /\ mail'[m].attempts = mail[m].attempts
    BY <2>2, MailAssumption DEF Continues, Follows
  <2>3. QED  BY <2>1, <2>2 DEF Inv, LeasesAgree
<1>8. SendsUseCurrentSettings'
  <2>1. ASSUME NEW w \in Worker, worker'[w].stage \in Fenced
        PROVE  Active(settings') /\ settings'.revision = worker'[w].revision
    <3>1. CASE worker'[w] = worker[w]
      BY <2>1, <3>1 DEF Inv, SendsUseCurrentSettings, SettingsFollow, FenceFree
    <3>2. CASE worker'[w] # worker[w]
      BY <2>1, <3>2 DEF WorkersFollow, WorkerFollows, NoJob, Fenced, SettingsFollow
    <3>3. QED  BY <3>1, <3>2
  <2>2. QED  BY <2>1 DEF SendsUseCurrentSettings, Active
<1>9. PendingLinksAreServed'
  <2>1. ASSUME NEW m \in Mail, mail'[m].kind \in Link, mail'[m].status \in Pending
        PROVE  /\ Active(settings') /\ mail'[m].token # "revoked"
               /\ mail'[m].kind = "registration" => mail'[m].token = "active"
    <3>1. mail[m].kind \in Link /\ mail[m].status \in Pending /\ mail[m].kind = mail'[m].kind
      BY <2>1 DEF Continues, Follows
    <3>2. /\ Active(settings) /\ mail[m].token # "revoked"
          /\ mail[m].kind = "registration" => mail[m].token = "active"
      BY <3>1 DEF Inv, PendingLinksAreServed
    <3>3. QED  BY <2>1, <3>1, <3>2 DEF Continues, Follows, SettingsFollow
  <2>2. QED  BY <2>1 DEF PendingLinksAreServed, Active
<1>10. OneLiveLink'
  BY DEF Inv, OneLiveLink, ActiveLinks, Continues, Follows
<1>11. \A w \in Worker : ~SendStarts(w)
  BY DEF WorkersFollow, WorkerFollows, SendStarts, NoJob
<1>12. SendCounted /\ EndIsFinal
  BY <1>11 DEF SendCounted, EndIsFinal, Continues, Follows
<1>13. QED  BY <1>4, <1>5, <1>6, <1>7, <1>8, <1>9, <1>10, <1>12 DEF StepOK, Inv

\* Where a statement leaves the settings, the links and the account alone.
LEMMA RowsOnly ==
  ASSUME Inv, Continues(mail, mail'), WorkersFollow, UNCHANGED <<settings, handed, lifecycle>>
  PROVE  StepOK
<1>1. SettingsFollow /\ LocalsFollow /\ UsesFollow
  BY DEF Inv, TypeOK, RowsBegin, SettingsFollow, LocalsFollow, UsesFollow, lifecycle
<1>2. QED  BY <1>1, ContinuingKeeps

LEMMA StopFollows ==
  ASSUME TypeOK, NEW w \in Worker, Stop(w)
  PROVE  WorkersFollow
  BY DEF TypeOK, Stop, WorkersFollow, WorkerFollows

LEMMA WriteFollows ==
  ASSUME TypeOK, NEW w \in Worker, NEW row, WriteLeased(w, row), worker[w].mail \in Mail,
         mail[worker[w].mail].lease = w => Follows(row, mail[worker[w].mail])
  PROVE  Continues(mail, mail')
<1>1. Continues(mail, mail)
  BY NothingFollows
<1>2. CASE mail[worker[w].mail].lease = w
  BY <1>1, <1>2 DEF WriteLeased, TypeOK, Continues, Follows
<1>3. CASE mail[worker[w].mail].lease # w
  BY <1>1, <1>3 DEF WriteLeased
<1>4. QED  BY <1>2, <1>3

\* A message that waits may be put back, and may end.
LEMMA UnleasedFollows ==
  ASSUME TypeOK, NEW m \in Mail, mail[m].status \in Pending, NEW status \in {"queued", "sent", "dropped"}
  PROVE  Follows(Unleased(mail[m], status), mail[m])
<1>1. mail[m] \in Row
  BY DEF TypeOK
<1> DEFINE new == Unleased(mail[m], status)
<1>2. /\ new \in Row /\ new.kind = mail[m].kind /\ new.token = mail[m].token
      /\ new.status = status /\ new.lease = NoWorker
      /\ status = "queued" => new.attempts = mail[m].attempts
  BY <1>1, UnleasedFields
<1>3. mail[m].attempts \in Nat
  BY <1>1, MailAssumption DEF Row
<1> HIDE DEF new
<1>4. Follows(new, mail[m])
  BY <1>2, <1>3, MailAssumption DEF Follows, Pending, Ended
<1>5. QED  BY <1>4 DEF new

LEMMA PreparePreserves ==
  ASSUME Inv, NEW w \in Worker, Prepare(w)
  PROVE  StepOK
<1> DEFINE m == worker[w].mail
<1>1. TypeOK /\ m \in Mail /\ UNCHANGED <<settings, handed, lifecycle>>
  BY DEF Inv, LeasesAgree, Prepare
<1>2. mail[m].lease = w => mail[m].status \in Pending
  BY <1>1, MailAssumption DEF TypeOK, Pending
<1>3. CASE CancelClaimed(w) \/ ReleaseWithoutAttempt(w)
  <2>1. Continues(mail, mail')
    BY <1>1, <1>2, <1>3, UnleasedFollows, WriteFollows DEF CancelClaimed, ReleaseWithoutAttempt
  <2>2. WorkersFollow
    BY <1>1, <1>3, StopFollows DEF CancelClaimed, ReleaseWithoutAttempt
  <2>3. QED  BY <1>1, <2>1, <2>2, RowsOnly
<1>4. CASE /\ UNCHANGED mail
           /\ worker' = [worker EXCEPT ![w].stage = "prepared", ![w].revision = settings.revision]
  <2>1. Continues(mail, mail')
    BY <1>1, <1>4, NothingFollows
  <2>2. worker[w].stage = "claimed" /\ settings.revision \in Revision
    BY <1>1 DEF Prepare, TypeOK, Settings
  <2>3. WorkersFollow
    BY ZenonT(60), ZenonT(90), <1>1, <1>4, <2>2 DEF TypeOK, WorkersFollow, WorkerFollows
  <2>4. QED  BY <1>1, <2>1, <2>3, RowsOnly
<1>5. QED  BY <1>3, <1>4 DEF Prepare

LEMMA EnterFencePreserves ==
  ASSUME Inv, NEW w \in Worker, EnterFence(w)
  PROVE  StepOK
<1> DEFINE m == worker[w].mail
<1>1. TypeOK /\ m \in Mail /\ UNCHANGED <<settings, handed, lifecycle>>
  BY DEF Inv, LeasesAgree, EnterFence
<1>2. mail[m].lease = w => mail[m].status \in Pending
  BY <1>1, MailAssumption DEF TypeOK, Pending
<1>3. CASE CancelClaimed(w) \/ ReleaseWithoutAttempt(w)
  <2>1. Continues(mail, mail')
    BY <1>1, <1>2, <1>3, UnleasedFollows, WriteFollows DEF CancelClaimed, ReleaseWithoutAttempt
  <2>2. WorkersFollow
    BY <1>1, <1>3, StopFollows DEF CancelClaimed, ReleaseWithoutAttempt
  <2>3. QED  BY <1>1, <2>1, <2>2, RowsOnly
<1>4. CASE /\ Active(settings) /\ settings.revision = worker[w].revision
           /\ GoTo(w, "checked") /\ UNCHANGED mail
  <2>1. Continues(mail, mail')
    BY <1>1, <1>4, NothingFollows
  <2>2. WorkersFollow
    BY ZenonT(60), ZenonT(90), <1>1, <1>4 DEF EnterFence, GoTo, TypeOK, WorkersFollow, WorkerFollows
  <2>3. QED  BY <1>1, <2>1, <2>2, RowsOnly
<1>5. QED  BY <1>3, <1>4 DEF EnterFence

LEMMA RecordSentPreserves ==
  ASSUME Inv, NEW w \in Worker, RecordSent(w)
  PROVE  StepOK
<1> DEFINE m == worker[w].mail
<1>1. TypeOK /\ m \in Mail /\ UNCHANGED <<settings, handed, lifecycle>>
  BY DEF Inv, LeasesAgree, RecordSent
<1>2. mail[m].lease = w => mail[m].status \in Pending
  BY <1>1, MailAssumption DEF TypeOK, Pending
<1>3. Continues(mail, mail')
  BY <1>1, <1>2, UnleasedFollows, WriteFollows DEF RecordSent
<1>4. WorkersFollow
  BY <1>1, StopFollows DEF RecordSent
<1>5. QED  BY <1>1, <1>3, <1>4, RowsOnly

LEMMA RecordFailurePreserves ==
  ASSUME Inv, NEW w \in Worker, RecordFailure(w)
  PROVE  StepOK
<1> DEFINE m == worker[w].mail
           row == [mail[m] EXCEPT !.attempts = worker[w].attempts + 1]
<1>1. TypeOK /\ m \in Mail /\ UNCHANGED <<settings, handed, lifecycle>>
  BY DEF Inv, LeasesAgree, RecordFailure
<1>2. worker[w].attempts \in 0..MaxAttempts /\ worker[w].attempts < MaxAttempts
  BY <1>1 DEF Inv, LeasesAgree, RecordFailure, TypeOK
<1>3. ASSUME mail[m].lease = w, NEW status \in {"queued", "dropped"}
      PROVE  Follows(Unleased(row, status), mail[m])
  <2>1. mail[m].status \in Pending /\ mail[m] \in Row
    BY <1>1, <1>3, MailAssumption DEF TypeOK, Pending
  <2>2. row \in Row /\ row.attempts >= mail[m].attempts /\ row.kind = mail[m].kind /\ row.token = mail[m].token
    BY <1>1, <1>2, <1>3, <2>1, MailAssumption DEF Inv, LeasesAgree, RecordFailure, Row
  <2> HIDE DEF row
  <2> DEFINE new == Unleased(row, status)
  <2>3. /\ new \in Row /\ new.kind = row.kind /\ new.token = row.token
        /\ new.status = status /\ new.lease = NoWorker
        /\ status = "queued" => new.attempts = row.attempts
    <3>1. status \in {"queued", "sent", "dropped"}
      OBVIOUS
    <3>2. QED  BY <2>2, <3>1, UnleasedFields
  <2> HIDE DEF new
  <2>4. Follows(new, mail[m])
    BY <2>1, <2>2, <2>3, MailAssumption DEF Follows, Pending, Ended
  <2>5. QED  BY <2>4 DEF new
<1>4. Continues(mail, mail')
  BY <1>1, <1>3, WriteFollows DEF RecordFailure
<1>5. WorkersFollow
  BY <1>1, StopFollows DEF RecordFailure
<1>6. QED  BY <1>1, <1>4, <1>5, RowsOnly

LEMMA CrashPreserves ==
  ASSUME Inv, NEW w \in Worker, Crash(w)
  PROVE  StepOK
<1>1. TypeOK /\ Continues(mail, mail') /\ UNCHANGED <<settings, handed, lifecycle>>
  BY NothingFollows DEF Inv, Crash
<1>2. WorkersFollow
  BY <1>1, StopFollows DEF Crash
<1>3. QED  BY <1>1, <1>2, RowsOnly

-----------------------------------------------------------------------------
(* The settings.                                                           *)

LEMMA SettingsKeep ==
  ASSUME Inv, SettingsFollow, UNCHANGED <<sending, lifecycle>>,
         mail' = mail \/ mail' = Cancelled(mail, Mail)
  PROVE  StepOK
<1>1. TypeOK /\ Continues(mail, mail')
  BY NothingFollows, CancellationFollows DEF Inv
<1>2. WorkersFollow
  BY <1>1, WorkersStay DEF sending
<1>3. LocalsFollow /\ UsesFollow
  BY <1>1 DEF Inv, TypeOK, RowsBegin, LocalsFollow, UsesFollow, lifecycle, sending
<1>4. QED  BY <1>1, <1>2, <1>3, ContinuingKeeps

LEMMA NothingPends ==
  ASSUME TypeOK, mail' = Cancelled(mail, Mail)
  PROVE  \A m \in Mail : mail'[m].status \notin Pending
<1> mail \in [Mail -> Row]
  BY DEF TypeOK
<1>1. QED
  BY CancelledFields DEF Pending

LEMMA AdministratePreserves ==
  ASSUME Inv, Administrate
  PROVE  StepOK
<1>1. TypeOK
  BY DEF Inv
<1>2. CASE NewRevision
  <2>1. SettingsFollow
    BY <1>1, <1>2, NothingPends, MailAssumption DEF NewRevision, SettingsFollow, sending, Settings, Revision, TypeOK
  <2>2. QED  BY <1>2, <2>1, SettingsKeep DEF NewRevision
<1>3. CASE Enable
  <2>1. SettingsFollow
    BY <1>1, <1>3 DEF Enable, SettingsFollow, sending, Settings, TypeOK, Active
  <2>2. QED  BY <1>3, <2>1, SettingsKeep DEF Enable
<1>4. CASE Disable
  <2>1. SettingsFollow
    BY <1>1, <1>4, NothingPends DEF Disable, SettingsFollow, sending, Settings, TypeOK
  <2>2. QED  BY <1>4, <2>1, SettingsKeep DEF Disable
<1>5. CASE TestSettings
  <2>1. SettingsFollow
    BY ZenonT(60), ZenonT(90), <1>1, <1>5, NothingPends DEF TestSettings, SettingsFollow, sending, Settings, TypeOK, Active
  <2>2. QED  BY <1>5, <2>1, SettingsKeep DEF TestSettings
<1>6. QED  BY <1>2, <1>3, <1>4, <1>5 DEF Administrate, UpdateSettings, ClearSettings

-----------------------------------------------------------------------------
(* The links.                                                              *)

\* Steps of the owner that let the rows go on.
LEMMA OwnerKeeps ==
  ASSUME Inv, Continues(mail, mail'), LocalsFollow, UsesFollow, UNCHANGED <<settings, worker>>
  PROVE  StepOK
<1>1. WorkersFollow
  BY WorkersStay DEF Inv
<1>2. SettingsFollow
  BY DEF SettingsFollow
<1>3. QED  BY <1>1, <1>2, ContinuingKeeps

LEMMA Unused ==
  ASSUME Inv, UNCHANGED uses
  PROVE  UsesFollow
  BY DEF Inv, TypeOK, UsesFollow

LEMMA LiveLinksAreThere ==
  ASSUME Inv, NEW m \in Mail, mail[m].token # "none"
  PROVE  mail[m].status # "absent"
  BY DEF Inv, RowsBegin, NoRow

LEMMA RegisterDirectlyPreserves ==
  ASSUME Inv, RegisterDirectly
  PROVE  StepOK
<1>1. Continues(mail, mail')
  BY NothingFollows DEF Inv, RegisterDirectly
<1>2. LocalsFollow /\ UsesFollow
  BY Unused DEF RegisterDirectly, LocalsFollow, Inv, TypeOK, RowsBegin, sending
<1>3. QED  BY <1>1, <1>2, OwnerKeeps DEF RegisterDirectly, sending

LEMMA ReadForNoticePreserves ==
  ASSUME Inv, NEW m \in Mail, ReadForNotice(m)
  PROVE  StepOK
<1>1. Continues(mail, mail')
  BY NothingFollows DEF Inv, ReadForNotice
<1>2. LocalsFollow /\ UsesFollow
  BY Unused DEF ReadForNotice, Absent, LocalsFollow, Inv, TypeOK, RowsBegin, sending
<1>3. QED  BY <1>1, <1>2, OwnerKeeps DEF ReadForNotice, sending

LEMMA BeginCompletionPreserves ==
  ASSUME Inv, NEW c \in Client, NEW m \in Mail, BeginCompletion(c, m)
  PROVE  StepOK
<1>1. Continues(mail, mail')
  BY NothingFollows DEF Inv, BeginCompletion
<1>2. LocalsFollow /\ UsesFollow
  BY Unused DEF BeginCompletion, LocalsFollow, Inv, TypeOK, RowsBegin, sending
<1>3. QED  BY <1>1, <1>2, OwnerKeeps DEF BeginCompletion, sending

LEMMA RefuseLateLinkPreserves ==
  ASSUME Inv, NEW m \in Mail, RefuseLateLink(m)
  PROVE  StepOK
<1>1. Continues(mail, mail')
  BY RevocationFollows, LiveLinksAreThere DEF Inv, RefuseLateLink
<1>2. LocalsFollow /\ UsesFollow
  BY Unused DEF RefuseLateLink, LocalsFollow, Inv, TypeOK, RowsBegin, sending, lifecycle
<1>3. QED  BY <1>1, <1>2, OwnerKeeps DEF RefuseLateLink, sending

LEMMA RefuseCompletionPreserves ==
  ASSUME Inv, NEW c \in Client, RefuseCompletion(c)
  PROVE  StepOK
<1>1. TypeOK /\ completing[c] \in Mail
  BY DEF Inv, RefuseCompletion, TypeOK
<1>2. Continues(mail, mail')
  BY <1>1, NothingFollows, RevocationFollows, LiveLinksAreThere DEF RefuseCompletion
<1>3. LocalsFollow /\ UsesFollow
  BY <1>1, Unused DEF RefuseCompletion, Leave, LocalsFollow, Inv, TypeOK, RowsBegin, sending
<1>4. QED  BY <1>2, <1>3, OwnerKeeps DEF RefuseCompletion, sending

LEMMA ChangePasswordQuietlyPreserves ==
  ASSUME Inv, ChangePasswordQuietly
  PROVE  StepOK
<1>1. Continues(mail, mail')
  BY RevocationFollows, LiveLinksAreThere DEF Inv, ChangePasswordQuietly, ActiveLinks
<1>2. LocalsFollow /\ UsesFollow
  BY Unused DEF ChangePasswordQuietly, LocalsFollow, Inv, TypeOK, RowsBegin, sending, lifecycle
<1>3. QED  BY <1>1, <1>2, OwnerKeeps DEF ChangePasswordQuietly, sending

LEMMA DeleteAccountPreserves ==
  ASSUME Inv, DeleteAccount
  PROVE  StepOK
<1>1. Continues(mail, mail')
  BY SMTT(40), SMTT(80) DEF Inv, TypeOK, RowsBegin, NoRow, DeleteAccount, Continues, Follows, Row
<1>2. LocalsFollow /\ UsesFollow
  BY Unused DEF DeleteAccount, LocalsFollow, Inv, TypeOK, RowsBegin, sending
<1>3. QED  BY <1>1, <1>2, OwnerKeeps DEF DeleteAccount, sending

\* The row of a link that was used.
LEMMA ConsumedFields ==
  ASSUME TypeOK, NEW m \in Mail
  PROVE  LET M == [mail EXCEPT ![m].token = "consumed"] IN
         /\ M \in [Mail -> Row]
         /\ M[m].token = "consumed" /\ M[m].kind = mail[m].kind /\ M[m].status = mail[m].status
         /\ M[m].lease = mail[m].lease /\ M[m].attempts = mail[m].attempts
         /\ \A n \in Mail \ {m} : M[n] = mail[n]
  BY DEF TypeOK, Row

LEMMA CompleteRegistrationPreserves ==
  ASSUME Inv, NEW c \in Client, CompleteRegistration(c)
  PROVE  StepOK
<1> DEFINE m == completing[c]
           M == [mail EXCEPT ![m].token = "consumed"]
<1>1. TypeOK /\ m \in Mail /\ mail[m].token = "active" /\ mail[m].status # "absent"
  BY LiveLinksAreThere DEF Inv, CompleteRegistration, TypeOK
<1>2. /\ M \in [Mail -> Row] /\ M[m].token = "consumed"
      /\ M[m].kind = mail[m].kind /\ M[m].status = mail[m].status
      /\ M[m].lease = mail[m].lease /\ M[m].attempts = mail[m].attempts
      /\ \A n \in Mail \ {m} : M[n] = mail[n]
  BY <1>1, ConsumedFields
<1>3. mail' = Cancelled(M, {m})
  BY DEF CompleteRegistration
<1> HIDE DEF M
<1>4. /\ mail' \in [Mail -> Row] /\ mail'[m].token = "consumed" /\ mail'[m].kind = mail[m].kind
      /\ mail[m].status \in Pending => mail'[m].status = "dropped" /\ mail'[m].lease = NoWorker
      /\ mail[m].status \notin Pending =>
           mail'[m].status = mail[m].status /\ mail'[m].lease = mail[m].lease
           /\ mail'[m].attempts = mail[m].attempts
      /\ \A n \in Mail \ {m} : mail'[n] = mail[n]
  BY <1>1, <1>2, <1>3, CancelledFields
<1>5. Continues(mail, mail')
  <2>1. Follows(mail'[m], mail[m])
    BY <1>1, <1>4, MailAssumption DEF TypeOK, Follows, Row, Pending, Ended
  <2>2. QED  BY <1>1, <1>4, <2>1, NothingFollows DEF Continues
<1>6. uses' = [uses EXCEPT ![m] = @ + 1]
  BY DEF CompleteRegistration
<1>7. UsesFollow
  BY <1>1, <1>4, <1>6 DEF TypeOK, UsesFollow
<1>8. LocalsFollow
  BY <1>1 DEF CompleteRegistration, Leave, LocalsFollow, Inv, TypeOK, RowsBegin, sending
<1>9. QED  BY <1>5, <1>7, <1>8, OwnerKeeps DEF CompleteRegistration, sending

LEMMA CompletePasswordResetPreserves ==
  ASSUME Inv, NEW c \in Client, CompletePasswordReset(c)
  PROVE  StepOK
<1> DEFINE m == completing[c]
           M == [mail EXCEPT ![m].token = "consumed"]
           S == ActiveLinks("reset") \ {m}
<1>1. TypeOK /\ m \in Mail /\ mail[m].token = "active" /\ mail[m].status # "absent" /\ mail[m].kind = "reset"
  BY LiveLinksAreThere DEF Inv, CompletePasswordReset, TypeOK
<1>2. /\ M \in [Mail -> Row] /\ M[m].token = "consumed"
      /\ M[m].kind = mail[m].kind /\ M[m].status = mail[m].status
      /\ M[m].lease = mail[m].lease /\ M[m].attempts = mail[m].attempts
      /\ \A n \in Mail \ {m} : M[n] = mail[n]
  BY <1>1, ConsumedFields
<1>3. mail' = Revoked(M, S) /\ S \in SUBSET Mail /\ m \notin S
  BY DEF CompletePasswordReset, ActiveLinks
<1>4. S = {}
  BY <1>1 DEF Inv, OneLiveLink, ActiveLinks, Link
<1> HIDE DEF M, S
<1>5. mail' \in [Mail -> Row] /\ \A n \in Mail : mail'[n] = M[n]
  BY <1>2, <1>3, <1>4, RevokedFields
<1>6. Continues(mail, mail')
  <2>1. Follows(mail'[m], mail[m])
    BY <1>1, <1>2, <1>5, MailAssumption DEF TypeOK, Follows, Row, Pending, Ended
  <2>2. QED  BY <1>1, <1>2, <1>5, <2>1, NothingFollows DEF Continues
<1>7. uses' = [uses EXCEPT ![m] = @ + 1]
  BY DEF CompletePasswordReset
<1>8. UsesFollow
  BY <1>1, <1>2, <1>5, <1>7 DEF TypeOK, UsesFollow
<1>9. LocalsFollow
  BY <1>1 DEF CompletePasswordReset, Leave, LocalsFollow, Inv, TypeOK, RowsBegin, sending
<1>10. QED  BY <1>6, <1>8, <1>9, OwnerKeeps DEF CompletePasswordReset, sending

-----------------------------------------------------------------------------
(* Time.                                                                   *)

LEMMA TimePreserves ==
  ASSUME Inv, NEW m \in Mail, LeaseLapses(m) \/ Expire(m)
  PROVE  StepOK
<1>1. mail[m].status # "absent"
  BY LiveLinksAreThere DEF LeaseLapses, Expire, Pending
<1>2. Continues(mail, mail')
  <2>1. mail[m] \in Row /\ (mail[m].status = "running" <=> mail[m].lease # NoWorker)
    BY DEF Inv, TypeOK
  <2>2. mail' = [mail EXCEPT ![m].lapsed = TRUE] \/ mail' = [mail EXCEPT ![m].expired = TRUE]
    BY DEF LeaseLapses, Expire
  <2>3. /\ mail' \in [Mail -> Row] /\ mail'[m].kind = mail[m].kind /\ mail'[m].status = mail[m].status
        /\ mail'[m].lease = mail[m].lease /\ mail'[m].attempts = mail[m].attempts
        /\ mail'[m].token = mail[m].token
        /\ \A n \in Mail \ {m} : mail'[n] = mail[n]
    <3>1. CASE mail' = [mail EXCEPT ![m].lapsed = TRUE]
      BY <2>1, <3>1 DEF Inv, TypeOK, Row
    <3>2. CASE mail' = [mail EXCEPT ![m].expired = TRUE]
      BY <2>1, <3>2 DEF Inv, TypeOK, Row
    <3>3. QED  BY <2>2, <3>1, <3>2
  <2>4. Follows(mail'[m], mail[m])
    BY <1>1, <2>1, <2>3, MailAssumption DEF Follows, Row
  <2>5. QED  BY <2>3, <2>4, NothingFollows DEF Inv, Continues
<1>3. LocalsFollow /\ UsesFollow
  BY Unused DEF LeaseLapses, Expire, LocalsFollow, Inv, TypeOK, RowsBegin, sending, lifecycle
<1>4. QED  BY <1>2, <1>3, OwnerKeeps DEF LeaseLapses, Expire, sending

-----------------------------------------------------------------------------
(* A claim, an attempt, a new row.                                         *)

LEMMA RecoveryFollows ==
  ASSUME TypeOK
  PROVE  Continues(mail, [m \in Mail |-> Recovered(mail[m])])
<1>1. ASSUME NEW m \in Mail
      PROVE  Follows(Recovered(mail[m]), mail[m])
  <2> DEFINE row == Requeued(mail[m])
  <2>1. mail[m] \in Row /\ Follows(mail[m], mail[m])
    BY NothingFollows DEF TypeOK, Continues
  <2>2. Follows(row, mail[m]) /\ (row = mail[m] \/ row.lease = NoWorker)
    <3>1. CASE mail[m].status = "running" /\ mail[m].lapsed
      <4>1. PICK status \in {"queued", "dropped"} : row = Unleased(mail[m], status)
        BY <3>1 DEF Requeued
      <4>2. Follows(Unleased(mail[m], status), mail[m])
        BY <3>1, UnleasedFollows DEF Pending
      <4>3. Unleased(mail[m], status).lease = NoWorker
        <5>1. status \in {"queued", "sent", "dropped"}
          OBVIOUS
        <5>2. QED  BY <2>1, <5>1, UnleasedFields
      <4>4. QED  BY <4>1, <4>2, <4>3
    <3>2. QED  BY <2>1, <3>1 DEF Requeued
  <2>3. CASE row.status = "queued" /\ row.expired
    <3>1. Recovered(mail[m]) = Unleased(row, "dropped")
      BY <2>3 DEF Recovered, Swept
    <3>2. row \in Row /\ mail[m].status \in Pending
      BY <2>2, <2>3 DEF Follows, Pending
    <3> HIDE DEF row
    <3> DEFINE new == Unleased(row, "dropped")
    <3>3. /\ new \in Row /\ new.kind = row.kind /\ new.token = row.token
          /\ new.status = "dropped" /\ new.lease = NoWorker
      BY <3>2, UnleasedFields
    <3> HIDE DEF new
    <3>4. Follows(new, mail[m])
      BY <2>2, <3>2, <3>3, MailAssumption DEF Follows, Pending, Ended
    <3>5. QED  BY <3>1, <3>4 DEF new
  <2>4. QED  BY <2>2, <2>3 DEF Recovered, Swept
<1>2. QED  BY <1>1 DEF Continues, Follows

LEMMA ClaimPreserves ==
  ASSUME Inv, NEW w \in Worker, NEW M, Continues(mail, M), worker[w].stage = "idle",
         NEW m \in Mail, Claimable(M, m),
         mail' = [M EXCEPT ![m].status = "running", ![m].lease = w],
         worker' = [worker EXCEPT ![w] = Claimed(m, M[m])],
         UNCHANGED <<settings, handed, lifecycle>>
  PROVE  StepOK
<1>1. TypeOK /\ M \in [Mail -> Row]
  BY DEF Inv, Continues
<1>2. /\ mail' \in [Mail -> Row] /\ mail'[m].status = "running" /\ mail'[m].lease = w
      /\ mail'[m].kind = M[m].kind /\ mail'[m].token = M[m].token /\ mail'[m].attempts = M[m].attempts
      /\ \A n \in Mail \ {m} : mail'[n] = M[n]
  BY ZenonT(60), ZenonT(90), <1>1 DEF Row, Pending
<1>3. /\ M[m].status = "queued" /\ M[m].attempts < MaxAttempts
      /\ \A n \in Mail : M[n].lease = NoWorker
  BY <1>1 DEF Claimable, Continues, Follows
<1>claim. LET new == Claimed(m, M[m]) IN
       /\ new \in [stage : Stage, mail : Mail \cup {NoMail}, attempts : 0..MaxAttempts, revision : Revision]
       /\ new.stage = "claimed" /\ new.mail = m /\ new.attempts = M[m].attempts
  <2>1. NoJob \in [stage : Stage, mail : Mail \cup {NoMail}, attempts : 0..MaxAttempts, revision : Revision]
    BY MailAssumption DEF NoJob, Stage, Revision
  <2>2. QED  BY <1>1, <2>1 DEF Claimed, Row, Stage
<1>4. /\ worker'[w].stage = "claimed" /\ worker'[w].mail = m /\ worker'[w].attempts = M[m].attempts
      /\ worker'[w] \in [stage : Stage, mail : Mail \cup {NoMail}, attempts : 0..MaxAttempts, revision : Revision]
      /\ \A v \in Worker \ {w} : worker'[v] = worker[v]
  BY <1>1, <1>claim DEF TypeOK
<1>5. mail[m].status \in Pending /\ mail[m].status # "absent" /\ M[m].kind = mail[m].kind
  BY <1>3 DEF Continues, Follows, Pending
<1>6. TypeOK'
  <2>1. \A n \in Mail : mail'[n].status = "running" <=> mail'[n].lease # NoWorker
    BY <1>2, MailAssumption DEF Continues, Follows
  <2>2. worker' \in [Worker -> [stage : Stage, mail : Mail \cup {NoMail}, attempts : 0..MaxAttempts,
                               revision : Revision]]
    BY <1>1, <1>4 DEF TypeOK
  <2>3. QED  BY <1>1, <1>2, <2>1, <2>2 DEF TypeOK, lifecycle
<1>7. RowsBegin'
  BY <1>1, <1>2, <1>5 DEF Inv, TypeOK, RowsBegin, Continues, Follows, lifecycle
<1>8. LinksAreFresh'
  BY <1>2 DEF Inv, LinksAreFresh, Continues, Follows, lifecycle
<1>9. LeasesAgree'
  BY <1>2, <1>3, <1>4, MailAssumption DEF Inv, LeasesAgree
<1>10. SendsUseCurrentSettings'
  BY <1>4 DEF Inv, SendsUseCurrentSettings, Fenced, Active
<1>11. PendingLinksAreServed'
  BY <1>2, <1>3, <1>5 DEF Inv, PendingLinksAreServed, Continues, Follows, Active, Pending
<1>12. OneLiveLink'
  BY <1>2 DEF Inv, OneLiveLink, ActiveLinks, Continues, Follows
<1>row. \A v \in Worker : ~SendStarts(v)
  BY <1>4 DEF SendStarts
<1>14. SendCounted /\ EndIsFinal
  BY SMTT(40), SMTT(80), <1>2, <1>3, <1>5, <1>row DEF SendCounted, EndIsFinal, Continues, Follows, Pending, Ended
<1>15. QED
  BY <1>6, <1>7, <1>8, <1>9, <1>10, <1>11, <1>12, <1>14 DEF StepOK, Inv

LEMMA PollPreserves ==
  ASSUME Inv, NEW w \in Worker, Poll(w)
  PROVE  StepOK
<1> DEFINE M == [m \in Mail |-> Recovered(mail[m])]
<1>1. Continues(mail, M)
  BY RecoveryFollows DEF Inv
<1>2. CASE mail' = M /\ UNCHANGED worker
  BY <1>1, <1>2, WorkersStay, RowsOnly DEF Inv, Poll
<1>3. CASE \E m \in Mail : /\ Claimable(M, m)
                           /\ mail' = [M EXCEPT ![m].status = "running", ![m].lease = w]
                           /\ worker' = [worker EXCEPT ![w] = Claimed(m, M[m])]
  <2> HIDE DEF M
  <2>1. QED  BY <1>1, <1>3, ClaimPreserves DEF Poll
<1>4. QED  BY <1>2, <1>3 DEF Poll

LEMMA StartSendPreserves ==
  ASSUME Inv, NEW w \in Worker, StartSend(w)
  PROVE  StepOK
<1> DEFINE m == worker[w].mail
<1>1. /\ TypeOK /\ m \in Mail /\ worker[w].stage = "checked"
      /\ worker[w].attempts < MaxAttempts /\ worker[w].attempts \in 0..MaxAttempts
  BY DEF Inv, TypeOK, LeasesAgree, StartSend
<1>2. CASE mail[m].lease # w
  BY <1>1, <1>2, NothingFollows, StopFollows, RowsOnly DEF StartSend
<1>3. CASE mail[m].lease = w
  <2>1. /\ mail' = [mail EXCEPT ![m].attempts = worker[w].attempts + 1] /\ handed' = handed \cup {m}
        /\ worker' = [worker EXCEPT ![w].stage = "sending"]
        /\ UNCHANGED <<settings, lifecycle>>
    BY <1>3 DEF StartSend, GoTo
  <2>2. worker[w].attempts = mail[m].attempts /\ mail[m].status = "running"
    BY <1>1, <1>3, MailAssumption DEF Inv, TypeOK, LeasesAgree
  <2>3. /\ mail' \in [Mail -> Row] /\ mail'[m].attempts = mail[m].attempts + 1
        /\ mail'[m].status = "running" /\ mail'[m].lease = w
        /\ mail'[m].kind = mail[m].kind /\ mail'[m].token = mail[m].token
        /\ \A n \in Mail \ {m} : mail'[n] = mail[n]
    <3> DEFINE attempts == worker[w].attempts + 1
    <3>1. attempts \in 0..MaxAttempts /\ attempts = mail[m].attempts + 1
      BY <1>1, <2>2, MailAssumption
    <3>2. mail' = [mail EXCEPT ![m].attempts = attempts]
      BY <2>1
    <3> HIDE DEF attempts
    <3>3. QED  BY SMTT(40), SMTT(80), <1>1, <1>3, <2>2, <3>1, <3>2 DEF TypeOK, Row
  <2>4. /\ worker'[w].stage = "sending" /\ worker'[w].mail = m
        /\ worker'[w].attempts = worker[w].attempts /\ worker'[w].revision = worker[w].revision
        /\ \A v \in Worker \ {w} : worker'[v] = worker[v]
        /\ worker' \in [Worker -> [stage : Stage, mail : Mail \cup {NoMail}, attempts : 0..MaxAttempts,
                                   revision : Revision]]
    BY <1>1, <2>1 DEF TypeOK, Stage
  <2>5. TypeOK'
    BY <1>1, <2>1, <2>2, <2>3, <2>4 DEF TypeOK, lifecycle
  <2>6. RowsBegin'
    BY <2>1, <2>2, <2>3 DEF Inv, RowsBegin, lifecycle
  <2>7. LinksAreFresh'
    BY <2>1, <2>3 DEF Inv, LinksAreFresh, lifecycle
  <2>8. LeasesAgree'
    BY <1>1, <2>2, <2>3, <2>4, MailAssumption DEF Inv, LeasesAgree
  <2>9. SendsUseCurrentSettings'
    BY <1>1, <2>1, <2>4 DEF Inv, SendsUseCurrentSettings, Fenced, Active
  <2>10. PendingLinksAreServed'
    BY <2>1, <2>2, <2>3 DEF Inv, PendingLinksAreServed, Active
  <2>11. OneLiveLink'
    BY <2>3 DEF Inv, OneLiveLink, ActiveLinks
  <2>12. SendCounted
    <3>1. \A v \in Worker : SendStarts(v) => v = w
      BY <2>4 DEF SendStarts
    <3>2. \A n \in Mail : mail[n].attempts \in Nat
      BY <1>1, MailAssumption DEF TypeOK, Row
    <3>3. \A n \in Mail : mail'[n].attempts >= mail[n].attempts
      BY <2>3, <3>2
    <3>4. QED  BY <2>3, <3>1, <3>3 DEF SendCounted
  <2>13. EndIsFinal
    BY <2>2, <2>3, <2>4 DEF EndIsFinal, SendStarts, Ended
  <2>14. QED
    BY <2>5, <2>6, <2>7, <2>8, <2>9, <2>10, <2>11, <2>12, <2>13 DEF StepOK, Inv
<1>4. QED  BY <1>2, <1>3

\* A row is added beside rows that went on.
LEMMA AddingKeeps ==
  ASSUME Inv, NEW M, Continues(mail, M), NEW m \in Mail, mail[m].status = "absent",
         NEW kind \in Link \cup {"notice"}, NEW token \in {"none", "active"},
         kind \in Link <=> token = "active",
         token = "active" => Active(settings) /\ \A n \in Mail : ~(M[n].kind = kind /\ M[n].token = "active"),
         mail' = Queued(M, m, kind, token),
         notifying' # NoMail => mail'[notifying'].status = "absent",
         notifying' \in Mail \cup {NoMail},
         UNCHANGED <<settings, sending, exists, completing, uses>>
  PROVE  StepOK
<1>1. TypeOK /\ M \in [Mail -> Row]
  BY DEF Inv, Continues
<1> DEFINE row == [NoRow EXCEPT !.kind = kind, !.status = "queued", !.token = token]
<1>row. /\ row \in Row /\ row.status = "queued" /\ row.lease = NoWorker
       /\ row.kind = kind /\ row.token = token /\ row.attempts = 0
  <2>1. NoRow \in Row /\ NoRow.lease = NoWorker /\ NoRow.attempts = 0
    BY MailAssumption DEF NoRow, Row
  <2>2. QED  BY <2>1 DEF Row, Pending, Link
<1>add. mail' = [M EXCEPT ![m] = row]
  BY DEF Queued
<1> HIDE DEF row
<1>2. /\ mail' \in [Mail -> Row] /\ mail'[m].status = "queued" /\ mail'[m].lease = NoWorker
      /\ mail'[m].kind = kind /\ mail'[m].token = token /\ mail'[m].attempts = 0
      /\ \A n \in Mail \ {m} : mail'[n] = M[n]
  BY <1>1, <1>row, <1>add
<1>3. TypeOK'
  BY <1>1, <1>2 DEF TypeOK, Continues, Follows, sending
<1>4. RowsBegin'
  BY <1>2 DEF Inv, RowsBegin, Continues, Follows
<1>5. LinksAreFresh'
  BY <1>2 DEF Inv, RowsBegin, LinksAreFresh, Continues, Follows
<1>6. LeasesAgree'
  <2>1. ASSUME NEW n \in Mail, NEW w \in Worker, mail'[n].lease = w
        PROVE  mail[n].lease = w /\ mail'[n].attempts = mail[n].attempts
    BY <1>2, <2>1, MailAssumption DEF Continues, Follows
  <2>2. QED  BY <2>1 DEF Inv, LeasesAgree, sending
<1>7. SendsUseCurrentSettings'
  BY DEF Inv, SendsUseCurrentSettings, sending, Active
<1>8. PendingLinksAreServed'
  BY <1>2 DEF Inv, PendingLinksAreServed, Continues, Follows, Active, Link
<1>9. OneLiveLink'
  BY <1>2 DEF Inv, OneLiveLink, ActiveLinks, Continues, Follows
<1>10. SendCounted
  <2>1. mail[m].attempts = 0
    BY DEF Inv, RowsBegin, NoRow
  <2>2. QED  BY <1>2, <2>1 DEF SendCounted, SendStarts, Continues, Follows, sending
<1>11. EndIsFinal
  BY <1>2 DEF EndIsFinal, SendStarts, Continues, Follows, sending, Ended
<1>12. QED
  BY <1>3, <1>4, <1>5, <1>6, <1>7, <1>8, <1>9, <1>10, <1>11 DEF StepOK, Inv

LEMMA RequestLinkPreserves ==
  ASSUME Inv, NEW m \in Mail, NEW kind \in Link, RequestLink(m, kind)
  PROVE  StepOK
<1> DEFINE S == ActiveLinks(kind)
           M == Revoked(mail, S)
<1>1. TypeOK /\ S \in SUBSET Mail /\ \A n \in S : mail[n].status # "absent"
  BY LiveLinksAreThere DEF Inv, ActiveLinks
<1>2. Continues(mail, M)
  BY <1>1, RevocationFollows
<1>3. mail' = Queued(M, m, kind, "active") /\ m \in Absent /\ settings.enabled
  BY DEF RequestLink
<1>4. ASSUME NEW n \in Mail PROVE ~(M[n].kind = kind /\ M[n].token = "active")
  <2>1. M[n].kind = mail[n].kind /\ (n \in S => M[n].token = "revoked") /\ (n \notin S => M[n] = mail[n])
    BY <1>1, RevokedFields DEF TypeOK
  <2>2. QED  BY <2>1 DEF ActiveLinks
<1>5. Active(settings) /\ mail[m].status = "absent" /\ m # notifying
  BY <1>1, <1>3 DEF TypeOK, Active, Absent
<1> HIDE DEF M
<1>6. /\ notifying' = notifying /\ notifying \in Mail \cup {NoMail}
      /\ UNCHANGED <<settings, sending, exists, completing, uses>>
  BY DEF RequestLink, lifecycle, Inv, TypeOK
<1>7. notifying' # NoMail => mail'[notifying'].status = "absent"
  <2>1. ASSUME notifying # NoMail PROVE mail'[notifying] = M[notifying]
    BY <1>2, <1>3, <1>5, <1>6, <2>1 DEF Queued, Continues
  <2>2. notifying # NoMail => M[notifying].status = "absent"
    BY <1>2, <1>6 DEF Inv, RowsBegin, Continues, Follows
  <2>3. QED  BY <1>6, <2>1, <2>2
<1>8. QED
  BY <1>2, <1>3, <1>4, <1>5, <1>6, <1>7, AddingKeeps

LEMMA CommitNoticePreserves ==
  ASSUME Inv, CommitNotice
  PROVE  StepOK
<1>1. /\ TypeOK /\ notifying \in Mail /\ mail[notifying].status = "absent" /\ notifying' = NoMail
      /\ UNCHANGED <<settings, sending, exists, completing, uses>>
  BY DEF Inv, TypeOK, RowsBegin, CommitNotice
<1>2. PICK M \in {mail, Revoked(mail, ActiveLinks("reset"))} : mail' = Queued(M, notifying, "notice", "none")
  BY DEF CommitNotice
<1>3. Continues(mail, M)
  <2>1. Continues(mail, mail)
    BY <1>1, NothingFollows
  <2>2. Continues(mail, Revoked(mail, ActiveLinks("reset")))
    BY <1>1, RevocationFollows, LiveLinksAreThere DEF ActiveLinks
  <2>3. QED  BY <1>2, <2>1, <2>2
<1>4. QED
  BY <1>1, <1>2, <1>3, AddingKeeps DEF Link

-----------------------------------------------------------------------------
(* Every step, and what follows.                                           *)

LEMMA InvInit ==
  ASSUME Init
  PROVE  Inv
<1>1. TypeOK
  BY MailAssumption DEF Init, TypeOK, Settings, Revision, NoRow, Row, NoJob, Stage, Pending, Ended, Link
<1>2. RowsBegin /\ LeasesAgree /\ LinksAreFresh
  BY DEF Init, RowsBegin, LeasesAgree, LinksAreFresh, NoRow, NoJob
<1>3. SendsUseCurrentSettings /\ PendingLinksAreServed /\ OneLiveLink
  BY DEF Init, SendsUseCurrentSettings, PendingLinksAreServed, OneLiveLink, ActiveLinks, NoRow, NoJob, Fenced, Link
<1>4. QED  BY <1>1, <1>2, <1>3 DEF Inv

LEMMA InvNext ==
  ASSUME Inv, [Next]_vars
  PROVE  StepOK
<1>1. CASE UNCHANGED vars
  <2>1. Continues(mail, mail') /\ WorkersFollow
    BY <1>1, NothingFollows, WorkersStay DEF Inv, vars, sending
  <2>2. QED  BY <1>1, <2>1, RowsOnly DEF vars, sending
<1>2. ASSUME NEW w \in Worker, Round(w) \/ Crash(w)
      PROVE  StepOK
  BY <1>2, PollPreserves, PreparePreserves, EnterFencePreserves, StartSendPreserves, RecordSentPreserves,
     RecordFailurePreserves, CrashPreserves DEF Round
<1>3. CASE Administrate
  BY <1>3, AdministratePreserves
<1>4. CASE Owner
  <2>1. ASSUME NEW c \in Client, Visit(c)
        PROVE  StepOK
    BY <2>1, BeginCompletionPreserves, RefuseCompletionPreserves, CompleteRegistrationPreserves,
       CompletePasswordResetPreserves DEF Visit
  <2>2. QED
    BY <1>4, <2>1, RequestLinkPreserves, RegisterDirectlyPreserves, CommitNoticePreserves,
       ChangePasswordQuietlyPreserves, DeleteAccountPreserves, ReadForNoticePreserves, RefuseLateLinkPreserves
       DEF Owner
<1>5. ASSUME NEW m \in Mail, LeaseLapses(m) \/ Expire(m)
      PROVE  StepOK
  BY <1>5, TimePreserves
<1>6. QED  BY <1>1, <1>2, <1>3, <1>4, <1>5 DEF Next

LEMMA InvHolds == Spec => []Inv
<1>1. Init => Inv
  BY InvInit
<1>2. Inv /\ [Next]_vars => Inv'
  BY InvNext DEF StepOK
<1>3. QED  BY <1>1, <1>2, PTL DEF Spec

\* The rows keep their tables' CHECKs and the workers' variables their types.
THEOREM MailTypes == Spec => []TypeOK
<1>1. Inv => TypeOK
  BY DEF Inv
<1>2. QED  BY <1>1, InvHolds, PTL

\* Nothing is sent with settings that are not in force: the fence and the second
\* reading under it are enough, whatever the workers read before.
THEOREM SendsAreCurrent == Spec => []SendsUseCurrentSettings
<1>1. Inv => SendsUseCurrentSettings
  BY DEF Inv
<1>2. QED  BY <1>1, InvHolds, PTL

\* No message with a link waits for settings that will not send it, or carries a
\* link that was taken back.
THEOREM LinksAreServed == Spec => []PendingLinksAreServed
<1>1. Inv => PendingLinksAreServed
  BY DEF Inv
<1>2. QED  BY <1>1, InvHolds, PTL

\* An address never has two links of a kind that work.
THEOREM LiveLinkIsAlone == Spec => []OneLiveLink
<1>1. Inv => OneLiveLink
  BY DEF Inv
<1>2. QED  BY <1>1, InvHolds, PTL

\* No link works twice, with any number of clients that complete it.
THEOREM LinksWorkOnce == Spec => []LinkWorksOnce
<1>1. Inv => LinkWorksOnce
  BY DEF Inv, TypeOK, LinksAreFresh, LinkWorksOnce
<1>2. QED  BY <1>1, InvHolds, PTL

\* Every hand-over is counted first, and no count is lost while the message waits.
THEOREM HandOversAreCounted == Spec => SendsAreCounted
<1>1. Inv /\ [Next]_vars =>
        [/\ \A w \in Worker : SendStarts(w) =>
              mail'[worker[w].mail].attempts = mail[worker[w].mail].attempts + 1
         /\ \A m \in Mail : mail'[m].status \in Pending => mail'[m].attempts >= mail[m].attempts]_vars
  BY InvNext DEF StepOK, SendCounted
<1>2. QED  BY <1>1, InvHolds, PTL DEF Spec, SendsAreCounted

\* A message that has ended is not sent again by a worker that held it before.
THEOREM EndsAreFinal == Spec => EndedMailStaysEnded
<1>1. Inv /\ [Next]_vars =>
        [\A m \in Mail : mail[m].status \in Ended =>
           /\ mail'[m].status = mail[m].status
           /\ \A w \in Worker : worker[w].mail = m => ~SendStarts(w)]_vars
  BY InvNext DEF StepOK, EndIsFinal
<1>2. QED  BY <1>1, InvHolds, PTL DEF Spec, EndedMailStaysEnded
=============================================================================
