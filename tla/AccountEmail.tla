------------------------------ MODULE AccountEmail ------------------------------
(***************************************************************************)
(* The account mail of one address: the outbox and its one-time links      *)
(* (apps/api/src/account-email/lifecycle.ts), the workers that lease and   *)
(* send it (worker.ts), and the SMTP settings whose changes have to drain  *)
(* it (settings.ts) through the dispatch fence (dispatch-fence.ts).        *)
(*                                                                         *)
(* A worker reads the settings and the link several times between its      *)
(* claim and the send, and holds the shared fence only for the last part;  *)
(* a settings change takes the fence exclusively, a link's owner takes     *)
(* nothing.  Leases lapse and messages expire at any moment.               *)
(***************************************************************************)
EXTENDS Integers, FiniteSets

CONSTANTS
  Mail,          \* bound: rows of mail_outbox, each with the link it carries
  Worker,        \* mail worker processes
  Client,        \* browsers that complete a link
  NoWorker,
  NoMail,
  MaxAttempts,   \* mail_outbox.max_attempts
  LastRevision   \* bound: revisions of the settings

ASSUME MailAssumption ==
  /\ MaxAttempts \in Nat \ {0} /\ LastRevision \in Nat \ {0}
  /\ NoWorker \notin Worker /\ NoMail \notin Mail

Revision == 1..LastRevision

VARIABLES
  settings,   \* smtp_settings
  mail,       \* mail_outbox and, in the same row, its account_email_token
  worker,     \* each worker's local variables
  exists,     \* whether the address has an account
  completing, \* a client's completion between its reads and its transaction
  notifying,  \* the row of a transaction that has read the settings to report a new password
  handed,     \* the messages that were handed to the SMTP server at least once
  uses        \* how often each link has worked

lifecycle == <<exists, completing, notifying, uses>>
sending == <<worker, handed>>
vars == <<settings, mail, sending, lifecycle>>

Link == {"registration", "reset"}
Pending == {"queued", "running"}
Ended == {"sent", "dropped"}   \* dropped: failed or cancelled

\* passed: last_test_status is passed and last_tested_revision the revision
Settings == [enabled : BOOLEAN, revision : Revision, passed : BOOLEAN]

\* lease_token is known by its worker, which has one claim at a time; a reset
\* link of a deleted account is gone and leaves token_id null; the attempts of a
\* row that has ended are read by nobody and not kept.
Row == [kind : Link \cup {"none", "notice"}, status : Pending \cup Ended \cup {"absent"},
        attempts : 0..MaxAttempts, lease : Worker \cup {NoWorker}, lapsed : BOOLEAN,
        expired : BOOLEAN, token : {"none", "active", "consumed", "revoked"}]

NoRow == [kind |-> "none", status |-> "absent", attempts |-> 0, lease |-> NoWorker,
          lapsed |-> FALSE, expired |-> FALSE, token |-> "none"]

Stage == {"idle", "claimed", "prepared", "checked", "sending"}
Fenced == {"checked", "sending"}

NoJob == [stage |-> "idle", mail |-> NoMail, attempts |-> 0, revision |-> 1]

-----------------------------------------------------------------------------
(* Statements.                                                             *)

\* mutant: the lease stays in a row that stops running
StillLeased(row, status) == [row EXCEPT !.status = status]

Unleased(row, status) ==
  [row EXCEPT !.status = status, !.lease = NoWorker, !.lapsed = FALSE,
              !.attempts = IF status = "queued" THEN @ ELSE 0]

\* the rows of S that have not ended yet
Cancelled(M, S) ==
  [m \in Mail |-> IF m \in S /\ M[m].status \in Pending THEN Unleased(M[m], "dropped") ELSE M[m]]

Revoked(M, S) ==
  Cancelled([m \in Mail |-> IF m \in S THEN [M[m] EXCEPT !.token = "revoked"] ELSE M[m]], S)

ActiveLinks(kind) == {m \in Mail : mail[m].kind = kind /\ mail[m].token = "active"}

Absent == {m \in Mail : mail[m].status = "absent" /\ m # notifying}

Queued(M, m, kind, token) ==
  [M EXCEPT ![m] = [NoRow EXCEPT !.kind = kind, !.status = "queued", !.token = token]]

\* the conditions under which mail may be sent
Active(s) == s.enabled /\ s.passed

Stop(w) == worker' = [worker EXCEPT ![w] = NoJob]
GoTo(w, stage) == worker' = [worker EXCEPT ![w].stage = stage]

\* an UPDATE where status = 'running' and lease_token is the worker's
WriteLeased(w, row) ==
  LET m == worker[w].mail IN
  mail' = IF mail[m].lease = w THEN [mail EXCEPT ![m] = row] ELSE mail

-----------------------------------------------------------------------------
(* The worker: runAccountEmailWorkerOnce.                                  *)

Requeued(row) ==
  IF row.status = "running" /\ row.lapsed
  THEN Unleased(row, IF row.attempts < MaxAttempts THEN "queued" ELSE "dropped") ELSE row

Swept(row) == IF row.status = "queued" /\ row.expired THEN Unleased(row, "dropped") ELSE row

Recovered(row) == Swept(Requeued(row))

\* claimMail's candidates; some are not due yet.  A running row has a live lease,
\* for the others were recovered just before.
Claimable(M, m) ==
  /\ Active(settings) /\ \A n \in Mail : M[n].status # "running"
  /\ M[m].status = "queued" /\ M[m].attempts < MaxAttempts

\* mutant: the worker counts from nothing
ClaimedAfresh(m, row) == [NoJob EXCEPT !.stage = "claimed", !.mail = m]

\* ClaimedMail: what the worker remembers of the row
Claimed(m, row) ==
  [NoJob EXCEPT !.stage = "claimed", !.mail = m, !.attempts = row.attempts]

\* cleanAndRecover, then claimMail
Poll(w) ==
  /\ worker[w].stage = "idle"
  /\ LET M == [m \in Mail |-> Recovered(mail[m])] IN
     \/ mail' = M /\ UNCHANGED worker
     \/ \E m \in Mail :
          /\ Claimable(M, m)
          /\ mail' = [M EXCEPT ![m].status = "running", ![m].lease = w]
          /\ worker' = [worker EXCEPT ![w] = Claimed(m, M[m])]
  /\ UNCHANGED <<settings, handed, lifecycle>>

LinkIsDead(row) == row.token \in {"consumed", "revoked"}

ReleaseWithoutAttempt(w) ==
  WriteLeased(w, Unleased(mail[worker[w].mail], "queued")) /\ Stop(w)

CancelClaimed(w) ==
  WriteLeased(w, Unleased(mail[worker[w].mail], "dropped")) /\ Stop(w)

\* the reads before the fence; a link that had expired was not claimed
Prepare(w) ==
  LET row == mail[worker[w].mail] IN
  /\ worker[w].stage = "claimed"
  /\ \/ LinkIsDead(row) /\ CancelClaimed(w)
     \/ ~LinkIsDead(row) /\ ~Active(settings) /\ ReleaseWithoutAttempt(w)
     \/ /\ ~LinkIsDead(row) /\ Active(settings) /\ UNCHANGED mail
        /\ worker' = [worker EXCEPT ![w].stage = "prepared", ![w].revision = settings.revision]
  /\ UNCHANGED <<settings, handed, lifecycle>>

\* the shared fence is taken, everything is read again
EnterFence(w) ==
  LET row == mail[worker[w].mail] IN
  /\ worker[w].stage = "prepared"
  /\ \/ /\ ~(Active(settings) /\ settings.revision = worker[w].revision)
        /\ ReleaseWithoutAttempt(w)
     \/ /\ Active(settings) /\ settings.revision = worker[w].revision
        /\ \/ (row.expired \/ LinkIsDead(row)) /\ CancelClaimed(w)
           \/ ~(row.expired \/ LinkIsDead(row)) /\ GoTo(w, "checked") /\ UNCHANGED mail
  /\ UNCHANGED <<settings, handed, lifecycle>>

\* the attempt is counted by the lease's holder, then the server is called
StartSend(w) ==
  LET m == worker[w].mail IN
  /\ worker[w].stage = "checked"
  /\ \/ mail[m].lease # w /\ Stop(w) /\ UNCHANGED <<mail, handed>>
     \/ /\ mail[m].lease = w /\ GoTo(w, "sending")
        /\ mail' = [mail EXCEPT ![m].attempts = worker[w].attempts + 1]
        /\ handed' = handed \cup {m}
  /\ UNCHANGED <<settings, lifecycle>>

\* mutant: the row is written whatever became of the lease
RecordSentUnfenced(w) ==
  /\ worker[w].stage = "sending" /\ Stop(w)
  /\ mail' = [mail EXCEPT ![worker[w].mail] = Unleased(@, "sent")]
  /\ UNCHANGED <<settings, handed, lifecycle>>

\* the server has accepted the message
RecordSent(w) ==
  /\ worker[w].stage = "sending" /\ Stop(w)
  /\ WriteLeased(w, Unleased(mail[worker[w].mail], "sent"))
  /\ UNCHANGED <<settings, handed, lifecycle>>

\* recordFailure: the server's refusal, its timeout (accepted or not), a name
\* that does not resolve, a payload that does not open, a failed statement
RecordFailure(w) ==
  LET row == [mail[worker[w].mail] EXCEPT !.attempts = worker[w].attempts + 1] IN
  /\ worker[w].stage \in {"claimed", "prepared", "checked", "sending"} /\ Stop(w)
  /\ \/ WriteLeased(w, Unleased(row, "dropped"))
     \/ row.attempts < MaxAttempts /\ ~row.expired /\ WriteLeased(w, Unleased(row, "queued"))
  /\ UNCHANGED <<settings, handed, lifecycle>>

\* the process dies; the session that holds its fence ends with it
Crash(w) ==
  /\ worker[w].stage # "idle" /\ Stop(w)
  /\ UNCHANGED <<settings, mail, handed, lifecycle>>

-----------------------------------------------------------------------------
(* The settings, under the exclusive fence.                                *)

FenceFree == \A w \in Worker : worker[w].stage \notin Fenced

\* mutant: the fence is not taken
NewRevisionUnfenced ==
  /\ settings.revision < LastRevision
  /\ settings' = [enabled |-> FALSE, revision |-> settings.revision + 1, passed |-> FALSE]
  /\ mail' = Cancelled(mail, Mail)
  /\ UNCHANGED <<sending, lifecycle>>

NewRevision ==
  /\ FenceFree /\ settings.revision < LastRevision
  /\ settings' = [enabled |-> FALSE, revision |-> settings.revision + 1, passed |-> FALSE]
  /\ mail' = Cancelled(mail, Mail)
  /\ UNCHANGED <<sending, lifecycle>>

UpdateSettings == NewRevision
ClearSettings == ~settings.enabled /\ NewRevision

Enable ==
  /\ FenceFree /\ settings.passed
  /\ settings' = [settings EXCEPT !.enabled = TRUE]
  /\ UNCHANGED <<mail, sending, lifecycle>>

\* mutant: what is queued waits for the next time mail is enabled
DisableOnly ==
  /\ FenceFree
  /\ settings' = [settings EXCEPT !.enabled = FALSE]
  /\ UNCHANGED <<mail, sending, lifecycle>>

Disable ==
  /\ FenceFree
  /\ settings' = [settings EXCEPT !.enabled = FALSE]
  /\ mail' = Cancelled(mail, Mail)
  /\ UNCHANGED <<sending, lifecycle>>

\* testSmtpSettings has sent its message, outside the fence, with the revision
\* that is still there; the test of an older one changes nothing
TestSettings ==
  /\ FenceFree
  /\ \/ settings' = [settings EXCEPT !.passed = TRUE] /\ UNCHANGED mail
     \/ /\ settings' = [settings EXCEPT !.passed = FALSE, !.enabled = FALSE]
        /\ mail' = IF settings.enabled THEN Cancelled(mail, Mail) ELSE mail
  /\ UNCHANGED <<sending, lifecycle>>

-----------------------------------------------------------------------------
(* The links.                                                              *)

\* mutant: an older link stays good beside the new one
RequestBesides(m, kind) ==
  /\ settings.enabled /\ m \in Absent
  /\ mail' = Queued(mail, m, kind, "active")
  /\ UNCHANGED <<settings, sending, lifecycle>>

\* requestRegistration, requestPasswordReset: under the lock of the settings' row
RequestLink(m, kind) ==
  /\ settings.enabled /\ m \in Absent
  /\ exists <=> kind = "reset"
  /\ mail' = Queued(Revoked(mail, ActiveLinks(kind)), m, kind, "active")
  /\ UNCHANGED <<settings, sending, lifecycle>>

\* POST /api/auth/register, possible while mail is off
RegisterDirectly ==
  /\ ~settings.enabled /\ ~exists
  /\ exists' = TRUE
  /\ UNCHANGED <<settings, mail, sending, completing, notifying, uses>>

\* the owner follows a link the server may have delivered, whatever it answered;
\* the time is taken, the link is looked up, the new password is hashed
BeginCompletion(c, m) ==
  /\ completing[c] = NoMail /\ m \in handed
  /\ mail[m].token = "active" /\ ~mail[m].expired
  /\ completing' = [completing EXCEPT ![c] = m]
  /\ UNCHANGED <<settings, mail, sending, exists, notifying, uses>>

\* or it has expired: its transaction revokes it
RefuseLateLink(m) ==
  /\ m \in handed /\ mail[m].token = "active" /\ mail[m].expired
  /\ mail' = Revoked(mail, {m})
  /\ UNCHANGED <<settings, sending, lifecycle>>

Leave(c) == completing' = [completing EXCEPT ![c] = NoMail]

\* the link was used, revoked or deleted meanwhile, or the address registered
RefuseCompletion(c) ==
  LET m == completing[c] IN
  /\ m # NoMail /\ Leave(c)
  /\ \/ mail[m].token # "active" /\ UNCHANGED mail
     \/ mail[m].token = "active" /\ mail[m].kind = "registration" /\ exists /\ mail' = Revoked(mail, {m})
  /\ UNCHANGED <<settings, sending, exists, notifying, uses>>

CompleteRegistration(c) ==
  LET m == completing[c] IN
  /\ m # NoMail /\ mail[m].kind = "registration" /\ mail[m].token = "active"
  /\ ~exists /\ Leave(c)
  /\ exists' = TRUE
  /\ mail' = Cancelled([mail EXCEPT ![m].token = "consumed"], {m})
  /\ uses' = [uses EXCEPT ![m] = @ + 1]
  /\ UNCHANGED <<settings, sending, notifying>>

\* mutant: the other links are revoked, the one that was followed stays
ResetOnly(c) ==
  LET m == completing[c] IN
  /\ m # NoMail /\ mail[m].kind = "reset" /\ mail[m].token = "active"
  /\ Leave(c)
  /\ mail' = Revoked(mail, ActiveLinks("reset") \ {m})
  /\ uses' = [uses EXCEPT ![m] = @ + 1]
  /\ UNCHANGED <<settings, sending, exists, notifying>>

\* the link is consumed, but a copy that is still queued is left to the worker
CompletePasswordReset(c) ==
  LET m == completing[c] IN
  /\ m # NoMail /\ mail[m].kind = "reset" /\ mail[m].token = "active"
  /\ Leave(c)
  /\ mail' = Revoked([mail EXCEPT ![m].token = "consumed"], ActiveLinks("reset") \ {m})
  /\ uses' = [uses EXCEPT ![m] = @ + 1]
  /\ UNCHANGED <<settings, sending, exists, notifying>>

\* invalidateForPasswordChange or notifyPasswordChanged has found mail enabled
ReadForNotice(m) ==
  /\ notifying = NoMail /\ m \in Absent /\ exists /\ settings.enabled
  /\ notifying' = m
  /\ UNCHANGED <<settings, mail, sending, exists, completing, uses>>

\* and commits, without having locked what it read; a link that was requested
\* meanwhile may be missed
CommitNotice ==
  /\ notifying # NoMail
  /\ notifying' = NoMail
  /\ mail' \in {Queued(mail, notifying, "notice", "none"),
                Queued(Revoked(mail, ActiveLinks("reset")), notifying, "notice", "none")}
  /\ UNCHANGED <<settings, sending, exists, completing, uses>>

\* the change of password while mail is off
ChangePasswordQuietly ==
  /\ exists /\ ~settings.enabled
  /\ mail' = Revoked(mail, ActiveLinks("reset"))
  /\ UNCHANGED <<settings, sending, lifecycle>>

\* an administrator deletes the account: the reset links go with it, and their
\* messages stay
DeleteAccount ==
  /\ exists /\ exists' = FALSE
  /\ mail' = [m \in Mail |-> IF mail[m].kind = "reset" THEN [mail[m] EXCEPT !.token = "none"] ELSE mail[m]]
  /\ UNCHANGED <<settings, sending, completing, notifying, uses>>

-----------------------------------------------------------------------------
(* Time.                                                                   *)

LeaseLapses(m) ==
  /\ mail[m].status = "running" /\ ~mail[m].lapsed
  /\ mail' = [mail EXCEPT ![m].lapsed = TRUE]
  /\ UNCHANGED <<settings, sending, lifecycle>>

\* expires_at of a message and its link; nobody reads it of those that are over
Expire(m) ==
  /\ mail[m].status \in Pending \/ mail[m].token = "active"
  /\ ~mail[m].expired
  /\ mail' = [mail EXCEPT ![m].expired = TRUE]
  /\ UNCHANGED <<settings, sending, lifecycle>>

-----------------------------------------------------------------------------
Init ==
  /\ settings = [enabled |-> FALSE, revision |-> 1, passed |-> FALSE]
  /\ handed = {}
  /\ mail = [m \in Mail |-> NoRow]
  /\ worker = [w \in Worker |-> NoJob]
  /\ exists \in BOOLEAN
  /\ completing = [c \in Client |-> NoMail]
  /\ notifying = NoMail
  /\ uses = [m \in Mail |-> 0]

Round(w) ==
  \/ Poll(w) \/ Prepare(w) \/ EnterFence(w) \/ StartSend(w)
  \/ RecordSent(w) \/ RecordFailure(w)

Administrate ==
  UpdateSettings \/ ClearSettings \/ Enable \/ Disable \/ TestSettings

Visit(c) ==
  \/ \E m \in Mail : BeginCompletion(c, m)
  \/ RefuseCompletion(c) \/ CompleteRegistration(c) \/ CompletePasswordReset(c)

Owner ==
  \/ \E m \in Mail, kind \in Link : RequestLink(m, kind)
  \/ RegisterDirectly \/ CommitNotice \/ ChangePasswordQuietly \/ DeleteAccount
  \/ \E m \in Mail : ReadForNotice(m) \/ RefuseLateLink(m)
  \/ \E c \in Client : Visit(c)

Next ==
  \/ \E w \in Worker : Round(w) \/ Crash(w)
  \/ Administrate \/ Owner
  \/ \E m \in Mail : LeaseLapses(m) \/ Expire(m)

Spec == Init /\ [][Next]_vars

-----------------------------------------------------------------------------
(* What account mail promises.                                             *)

SendStarts(w) == worker[w].stage # "sending" /\ worker'[w].stage = "sending"

\* The types of the rows, with the CHECKs of their tables, and of the workers' and
\* clients' local variables: no statement asks for a row its table refuses.
TypeOK ==
  /\ settings \in Settings
  /\ settings.enabled => settings.passed
  /\ mail \in [Mail -> Row]
  /\ \A m \in Mail : mail[m].status = "running" <=> mail[m].lease # NoWorker
  /\ worker \in [Worker -> [stage : Stage, mail : Mail \cup {NoMail}, attempts : 0..MaxAttempts,
                            revision : Revision]]
  /\ exists \in BOOLEAN /\ notifying \in Mail \cup {NoMail} /\ handed \in SUBSET Mail
  /\ completing \in [Client -> Mail \cup {NoMail}]
  /\ uses \in [Mail -> Nat]

\* Whatever is being sent is sent with the settings in force: enabled, tested,
\* and of the revision the connection was built from.  So an edit or a disable
\* that has returned has left no send behind (docs/runbooks/account-email.md).
SendsUseCurrentSettings ==
  \A w \in Worker : worker[w].stage \in Fenced =>
    Active(settings) /\ settings.revision = worker[w].revision

\* A message that carries a link waits only while mail is enabled with tested
\* settings, and its link was not revoked; a registration's was not used either.
PendingLinksAreServed ==
  \A m \in Mail : mail[m].kind \in Link /\ mail[m].status \in Pending =>
    /\ Active(settings)
    /\ mail[m].token # "revoked"
    /\ mail[m].kind = "registration" => mail[m].token = "active"

\* Every hand-over to the server is counted in the row first, and no count is
\* lost, so there are never more than max_attempts: through lapsed leases,
\* crashes after the server's answer and workers that come back late.
SendsAreCounted ==
  [][/\ \A w \in Worker : SendStarts(w) =>
          mail'[worker[w].mail].attempts = mail[worker[w].mail].attempts + 1
     /\ \A m \in Mail : mail'[m].status \in Pending => mail'[m].attempts >= mail[m].attempts]_vars

\* An address has one registration link and one reset link that work, at most.
OneLiveLink == \A kind \in Link : \A m, n \in ActiveLinks(kind) : m = n

\* A link works once, however its copies, completions and revocations race.
LinkWorksOnce == \A m \in Mail : uses[m] <= 1

\* A message that was sent, failed or was cancelled stays so, and unless its
\* send is on its way already it is not handed to the server any more.
EndedMailStaysEnded ==
  [][\A m \in Mail : mail[m].status \in Ended =>
       /\ mail'[m].status = mail[m].status
       /\ \A w \in Worker : worker[w].mail = m => ~SendStarts(w)]_vars

=============================================================================
