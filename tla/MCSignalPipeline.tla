-------------------------- MODULE MCSignalPipeline --------------------------
(* Instances of SignalPipeline for TLC. *)
EXTENDS SignalPipeline, TLC

\* A sale, the expiry and the renewal of a license.
MCKinds == {Kind("policy_sold", "none"), Kind("license_status_changed", "EXPIRED"),
            Kind("license_status_changed", "ACTIVE")}
\* With a reply, which re-engages a dormant agent and alerts its ADM.
MCReplyKinds == MCKinds \cup {Kind("whatsapp_agent_replied", "none")}
MCSaleOnly == {Kind("policy_sold", "none")}
MCRevocation == {Kind("consent_changed", "revoked")}
=============================================================================
