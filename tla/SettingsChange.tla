--------------------------- MODULE SettingsChange ---------------------------
(***************************************************************************)
(* Changing a tenant's settings behind a one-time password: a request      *)
(* stores the proposal, a verification merges it into the configuration, a *)
(* cancel withdraws it.  Each runs in a session of its own; several may be *)
(* in flight.  Here row locks matter: an UPDATE that is flushed before the *)
(* commit makes other writers of the row wait, and they go on with what    *)
(* they had read before they waited.                                       *)
(*                                                                         *)
(* Redis keeps a second copy of the password's hash.  A guess it does not  *)
(* confirm is compared with the hash in the row all the same, so its       *)
(* content never decides; a failing call to it ends the handler (Abort).   *)
(***************************************************************************)
EXTENDS SettingsValues, Sequences

CONSTANTS
  Requesters, Verifiers, Cancellers,  \* handlers of each kind that may be in flight
  Sections,     \* sections the instance has
  Values,       \* in-range values of a field
  Proposals,    \* proposals the environment makes: a section and values
  Configs,      \* configurations the tenant may start with
  Whole,        \* what the scoring weights add up to
  MaxRequests,  \* bound on change requests
  None          \* an absent row

MaxGuesses == 3
Ids == 1 .. MaxRequests
Handlers == Requesters \cup Verifiers \cup Cancellers
Statuses == {"pending_otp", "applied", "rejected", "expired"}
Proposal == [section : Sections, values : SectionValues(Values)]
Request == [proposal : Proposal, status : Statuses, attempts : 0 .. MaxGuesses]
Config == [Sections -> SectionValues(Values)]

ASSUME ConstantsAssumption ==
  /\ Sections \subseteq SectionNames /\ Values \subseteq Int /\ Absent \notin Int
  /\ Proposals \subseteq Proposal /\ Configs \subseteq Config
  /\ Whole \in Int /\ MaxRequests \in Nat
  /\ Requesters \cap Verifiers = {} /\ Requesters \cap Cancellers = {}
  /\ Verifiers \cap Cancellers = {}
  /\ None \notin Request \cup Proposal

VARIABLES
  config,    \* tenants.config
  requests,  \* settings_change_requests rows; None if absent
  audit,     \* settings_audit_log rows, in commit order
  late,      \* requests past their otp_expires_at
  nextId,    \* the first request number nobody has taken
  tx,        \* the handlers' sessions
  answered   \* history: per request, the guesses answered "Invalid OTP" or "Too many"

dbVars == <<config, requests, audit>>
vars == <<dbVars, late, nextId, tx, answered>>

Closed ==
  [step     |-> "closed",
   id       |-> 0,        \* the request it works on
   attempts |-> 0,        \* otp_attempts as loaded
   proposal |-> None,     \* what a new request proposes
   expires  |-> {},       \* rows its UPDATE has set to expired
   config   |-> None]     \* the configuration as loaded

Init ==
  /\ config \in Configs
  /\ requests = [i \in Ids |-> None]
  /\ audit = <<>>
  /\ late = {}
  /\ nextId = 1
  /\ tx = [h \in Handlers |-> Closed]
  /\ answered = [i \in Ids |-> 0]
-----------------------------------------------------------------------------
IsPending(i) == requests[i] # None /\ requests[i].status = "pending_otp"

\* Rows a session has updated and not committed.
Locked(h) ==
  CASE tx[h].step = "applying" -> {tx[h].id}
    [] tx[h].step = "inserted" -> tx[h].expires
    [] OTHER -> {}

\* Session h may UPDATE row i: nobody else holds it.
Free(h, i) == \A g \in Handlers \ {h} : i \notin Locked(g)

\* Session h ends.
Closes(h) == tx' = [tx EXCEPT ![h] = Closed]

\* An exception, or the process dying, before the commit: get_db rolls back.
Abort(h) ==
  /\ tx[h].step # "closed"
  /\ Closes(h)
  /\ UNCHANGED <<dbVars, late, nextId, answered>>
-----------------------------------------------------------------------------
(* request_settings_change                                                 *)

\* The tenant is read and the proposal accepted; a refusal changes nothing.
RequestChange(h, p) ==
  LET current == config[p.section] IN
  /\ tx[h].step = "closed"
  /\ CrossValid(p.section, Merge(current, p.values), Whole)
  /\ HasChanges(current, p.values)
  /\ tx' = [tx EXCEPT ![h] = [Closed EXCEPT !.step = "accepted", !.proposal = p]]
  /\ UNCHANGED <<dbVars, late, nextId, answered>>

PendingIn(s) == {i \in Ids : IsPending(i) /\ requests[i].proposal.section = s}

\* Faulty variant: the pending requests of the section stay.
InsertBesidesPending(h) ==
  /\ tx[h].step = "accepted"
  /\ nextId \in Ids
  /\ tx' = [tx EXCEPT ![h].step = "inserted", ![h].id = nextId]
  /\ nextId' = nextId + 1
  /\ UNCHANGED <<dbVars, late, answered>>

\* The UPDATE that expires the pending requests of the section, which waits
\* for their writers and then looks at them again, and the INSERT.
InsertRequest(h) ==
  LET others == PendingIn(tx[h].proposal.section) IN
  /\ tx[h].step = "accepted"
  /\ nextId \in Ids
  /\ \A i \in others : Free(h, i)
  /\ tx' = [tx EXCEPT ![h].step = "inserted", ![h].id = nextId, ![h].expires = others]
  /\ nextId' = nextId + 1
  /\ UNCHANGED <<dbVars, late, answered>>

CommitRequest(h) ==
  LET t == tx[h] IN
  /\ t.step = "inserted"
  /\ requests' = [i \in Ids |->
       IF i = t.id THEN [proposal |-> t.proposal, status |-> "pending_otp", attempts |-> 0]
       ELSE IF i \in t.expires THEN [requests[i] EXCEPT !.status = "expired"]
       ELSE requests[i]]
  /\ Closes(h)
  /\ UNCHANGED <<config, audit, late, nextId, answered>>

\* otp_expires_at passes.
OtpExpires(i) ==
  /\ IsPending(i)
  /\ late' = late \cup {i}
  /\ UNCHANGED <<dbVars, nextId, tx, answered>>
-----------------------------------------------------------------------------
(* verify_and_apply                                                        *)

\* The request is loaded, found pending and compared with the clock.
BeginVerify(h, i) ==
  /\ tx[h].step = "closed"
  /\ IsPending(i)
  /\ tx' = [tx EXCEPT ![h] = [Closed EXCEPT
                                !.step = IF i \in late THEN "too_late" ELSE "guessing",
                                !.id = i, !.attempts = requests[i].attempts]]
  /\ UNCHANGED <<dbVars, late, nextId, answered>>

VerifyTooLate(h) ==
  LET i == tx[h].id IN
  /\ tx[h].step = "too_late"
  /\ Free(h, i)
  /\ requests' = [requests EXCEPT ![i].status = "expired"]
  /\ Closes(h)
  /\ UNCHANGED <<config, audit, late, nextId, answered>>

\* Faulty variant: the exception is raised without the commit before it.
WrongGuessRolledBack(h) ==
  /\ tx[h].step = "guessing"
  /\ Closes(h)
  /\ answered' = [answered EXCEPT ![tx[h].id] = @ + 1]
  /\ UNCHANGED <<dbVars, late, nextId>>

\* Faulty variant: rejected only after the last guess has been exceeded.
WrongGuessOneMore(h) ==
  LET i == tx[h].id
      attempts == tx[h].attempts + 1
  IN /\ tx[h].step = "guessing"
     /\ Free(h, i)
     /\ requests' = [requests EXCEPT
          ![i].attempts = attempts,
          ![i].status = IF attempts > MaxGuesses THEN "rejected" ELSE @]
     /\ Closes(h)
     /\ answered' = [answered EXCEPT ![i] = @ + 1]
     /\ UNCHANGED <<config, audit, late, nextId>>

\* A wrong password: the attempt counts, the last one rejects the request.
\* Only the changed columns are written.
WrongGuess(h) ==
  LET i == tx[h].id
      attempts == tx[h].attempts + 1
  IN /\ tx[h].step = "guessing"
     /\ Free(h, i)
     /\ requests' = [requests EXCEPT
          ![i].attempts = attempts,
          ![i].status = IF attempts >= MaxGuesses THEN "rejected" ELSE @]
     /\ Closes(h)
     /\ answered' = [answered EXCEPT ![i] = @ + 1]
     /\ UNCHANGED <<config, audit, late, nextId>>

\* The right password: the attempt is flushed before the tenant is read.
RightGuess(h) ==
  /\ tx[h].step = "guessing"
  /\ Free(h, tx[h].id)
  /\ tx' = [tx EXCEPT ![h].step = "applying", ![h].config = config]
  /\ UNCHANGED <<dbVars, late, nextId, answered>>

\* Faulty variant: the status is left pending.
ApplyChangeStillPending(h) ==
  LET t == tx[h]
      p == requests[t.id].proposal
      before == t.config[p.section]
      after  == Merge(before, p.values)
  IN /\ t.step = "applying"
     /\ config' = [t.config EXCEPT ![p.section] = after]
     /\ requests' = [requests EXCEPT ![t.id].attempts = t.attempts + 1]
     /\ audit' = Append(audit, [request |-> t.id, before |-> before, after |-> after])
     /\ Closes(h)
     /\ UNCHANGED <<late, nextId, answered>>

\* The merged configuration is written whole, with the status and the audit
\* row.  Other writers of the tenant only wait for one another.
ApplyChange(h) ==
  LET t == tx[h]
      p == requests[t.id].proposal
      before == t.config[p.section]
      after  == Merge(before, p.values)
  IN /\ t.step = "applying"
     /\ config' = [t.config EXCEPT ![p.section] = after]
     /\ requests' = [requests EXCEPT ![t.id].status = "applied", ![t.id].attempts = t.attempts + 1]
     /\ audit' = Append(audit, [request |-> t.id, before |-> before, after |-> after])
     /\ Closes(h)
     /\ UNCHANGED <<late, nextId, answered>>
-----------------------------------------------------------------------------
(* cancel_change_request                                                   *)

BeginCancel(h, i) ==
  /\ tx[h].step = "closed"
  /\ IsPending(i)
  /\ tx' = [tx EXCEPT ![h] = [Closed EXCEPT !.step = "cancelling", !.id = i]]
  /\ UNCHANGED <<dbVars, late, nextId, answered>>

CommitCancel(h) ==
  LET i == tx[h].id IN
  /\ tx[h].step = "cancelling"
  /\ Free(h, i)
  /\ requests' = [requests EXCEPT ![i].status = "expired"]
  /\ Closes(h)
  /\ UNCHANGED <<config, audit, late, nextId, answered>>
-----------------------------------------------------------------------------
Next ==
  \/ \E h \in Requesters :
       (\E p \in Proposals : RequestChange(h, p)) \/ InsertRequest(h) \/ CommitRequest(h)
  \/ \E h \in Verifiers :
       \/ \E i \in Ids : BeginVerify(h, i)
       \/ VerifyTooLate(h) \/ WrongGuess(h) \/ RightGuess(h) \/ ApplyChange(h)
  \/ \E h \in Cancellers : (\E i \in Ids : BeginCancel(h, i)) \/ CommitCancel(h)
  \/ \E h \in Handlers : Abort(h)
  \/ \E i \in Ids : OtpExpires(i)

Spec == Init /\ [][Next]_vars
-----------------------------------------------------------------------------
(* Properties.                                                             *)

AuditRow == [request : Ids, before : SectionValues(Values), after : SectionValues(Values)]
Steps == {"closed", "accepted", "inserted", "guessing", "too_late", "applying", "cancelling"}
Session ==
  [step : Steps, id : Ids \cup {0}, attempts : 0 .. MaxGuesses - 1,
   proposal : Proposal \cup {None}, expires : SUBSET Ids, config : Config \cup {None}]

\* Rows and sessions hold values of their types; a request that a session
\* found pending still has a guess left, although verify_and_apply does not
\* test otp_attempts before it counts one more.
TypeOK ==
  /\ config \in Config
  /\ requests \in [Ids -> Request \cup {None}]
  /\ audit \in Seq(AuditRow)
  /\ late \subseteq Ids
  /\ nextId \in 1 .. MaxRequests + 1
  /\ tx \in [Handlers -> Session]
  /\ answered \in [Ids -> Nat]

Applications(i) == {n \in DOMAIN audit : audit[n].request = i}

\* Three wrong passwords end a request: the guesses answered as wrong never
\* exceed three, and after the third the change is not pending any more and
\* has not been applied, whatever requests and cancels run meanwhile.
GuessLimit ==
  \A i \in Ids :
    /\ answered[i] <= MaxGuesses
    /\ answered[i] = MaxGuesses => ~IsPending(i) /\ Applications(i) = {}

\* A request expires the pending ones of its section: with one requester at
\* a time there is never more than one to verify, whatever verifications and
\* cancels run meanwhile.
OnePendingPerSection ==
  \A i, j \in Ids :
    IsPending(i) /\ IsPending(j) /\ requests[i].proposal.section = requests[j].proposal.section
      => i = j

Ledger ==
  INSTANCE SettingsLedger WITH
    asked <- [i \in Ids |-> IF requests[i] = None THEN None ELSE requests[i].proposal]

\* With one verification at a time the settings are a ledger: each commit
\* merges one request, once, into the configuration as it stands, and the
\* audit log tells it.
LedgerPromise == Ledger!LedgerSpec

\* verify_and_apply applies a request once.
AppliedOnce == \A m, n \in DOMAIN audit : audit[m].request = audit[n].request => m = n

\* The stored configuration satisfies the rule between fields that
\* validate_section_changes checks when a change is requested.
ConfigValid == \A s \in Sections : CrossValid(s, config[s], Whole)
=============================================================================
