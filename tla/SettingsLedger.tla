--------------------------- MODULE SettingsLedger ---------------------------
(***************************************************************************)
(* What the settings component promises: a change request keeps its        *)
(* section and proposal for ever; the configuration changes only by        *)
(* merging the proposal of one request into its section as it stands, no   *)
(* request is merged twice, and the audit log is the history of exactly    *)
(* these merges.                                                           *)
(***************************************************************************)
EXTENDS SettingsValues, Sequences

CONSTANTS
  Ids,        \* request numbers
  Sections,   \* sections of the configuration
  Proposals,  \* what a request may ask for: a section and values
  Configs,    \* configurations a tenant may start with
  None        \* no request

VARIABLES
  asked,      \* per request, its proposal; None before it is made
  config,     \* the tenant's configuration
  audit       \* the merges, oldest first

ledgerVars == <<asked, config, audit>>

LedgerInit ==
  /\ asked = [i \in Ids |-> None]
  /\ config \in Configs
  /\ audit = <<>>

Asks(i) ==
  /\ asked[i] = None
  /\ \E p \in Proposals : asked' = [asked EXCEPT ![i] = p]
  /\ UNCHANGED <<config, audit>>

Merges(i) ==
  LET s == asked[i].section
      after == Merge(config[s], asked[i].values)
  IN /\ asked[i] # None
     /\ \A n \in DOMAIN audit : audit[n].request # i
     /\ config' = [config EXCEPT ![s] = after]
     /\ audit' = Append(audit, [request |-> i, before |-> config[s], after |-> after])
     /\ UNCHANGED asked

LedgerNext == \E i \in Ids : Asks(i) \/ Merges(i)

LedgerSpec == LedgerInit /\ [][LedgerNext]_ledgerVars
-----------------------------------------------------------------------------
(* What follows.                                                           *)

\* The section the n-th merge was made in.
SectionOf(n) == asked[audit[n].request].section

\* The audit log is the history of the configuration: every entry is the
\* merge of a request's proposal, no request has two, each entry of a section
\* starts from what the one before it left, and what the last one left is the
\* section as it stands.
AuditIsHistory ==
  /\ \A n \in DOMAIN audit :
       /\ asked[audit[n].request] # None
       /\ audit[n].after = Merge(audit[n].before, asked[audit[n].request].values)
  /\ \A m, n \in DOMAIN audit : audit[m].request = audit[n].request => m = n
  /\ \A m, n \in DOMAIN audit :
       /\ m < n /\ SectionOf(m) = SectionOf(n)
       /\ \A k \in m + 1 .. n - 1 : SectionOf(k) # SectionOf(n)
       => audit[n].before = audit[m].after
  /\ \A n \in DOMAIN audit :
       (\A k \in DOMAIN audit : k > n => SectionOf(k) # SectionOf(n)) =>
         config[SectionOf(n)] = audit[n].after
=============================================================================
