--------------------------- MODULE SettingsValues ---------------------------
(***************************************************************************)
(* The values of one section of a tenant's configuration, and how a        *)
(* proposal is checked against them and merged into them.  A section keeps *)
(* two of its fields, the pair its cross-field rule compares; a field may  *)
(* be absent from the stored configuration and from a proposal.  The       *)
(* nested keys of rate_limits are single fields.                           *)
(***************************************************************************)
EXTENDS Integers

CONSTANT Absent   \* the value of a field that is not stored, or not proposed

Fields == {"lower", "upper"}
SectionValues(Values) == [Fields -> Values \cup {Absent}]

SectionNames ==
  {"lifecycle_thresholds", "engagement_scoring_weights", "contact_rules", "trai_calling_hours",
   "rate_limits", "branding", "languages"}

\* The proposed fields replace the current ones, the others stay.
Merge(current, proposed) ==
  [f \in Fields |-> IF proposed[f] = Absent THEN current[f] ELSE proposed[f]]

HasChanges(current, proposed) ==
  \E f \in Fields : proposed[f] # Absent /\ proposed[f] # current[f]

OrZero(value) == IF value = Absent THEN 0 ELSE value

\* The rule between fields: at_risk_days < dormancy_days, start_hour_ist <
\* end_hour_ist, max_whatsapp_per_day_per_agent <= max_contacts_per_month,
\* and weights that add up to `whole`.  A missing field satisfies the
\* comparisons, and counts as a weight of zero.
CrossValid(section, values, whole) ==
  LET complete == \A f \in Fields : values[f] # Absent IN
  CASE section \in {"lifecycle_thresholds", "trai_calling_hours"} ->
         complete => values["lower"] < values["upper"]
    [] section = "contact_rules" -> complete => values["lower"] <= values["upper"]
    [] section = "engagement_scoring_weights" ->
         OrZero(values["lower"]) + OrZero(values["upper"]) = whole
    [] OTHER -> TRUE
=============================================================================
