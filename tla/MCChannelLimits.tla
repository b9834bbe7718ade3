--------------------------- MODULE MCChannelLimits ---------------------------
(* The two halves of the rate limiter and the templates of what is sent, for    *)
(* TLC.  They share no state, so a behaviour exercises one of the three and     *)
(* leaves the others in their initial state.                                    *)
EXTENDS VoiceLimits, WhatsAppLimits, TemplateVersions, TLC

Init == VoiceInit /\ WhatsAppInit /\ TemplateInit
Next ==
  \/ VoiceNext /\ WhatsAppInit /\ TemplateInit /\ UNCHANGED <<whatsAppVars, templateVars>>
  \/ WhatsAppNext /\ VoiceInit /\ TemplateInit /\ UNCHANGED <<voiceVars, templateVars>>
  \/ TemplateNext /\ VoiceInit /\ WhatsAppInit /\ UNCHANGED <<voiceVars, whatsAppVars>>
Spec == Init /\ [][Next]_<<voiceVars, whatsAppVars, templateVars>>

Symmetry == Permutations(Callers) \cup Permutations(Senders) \cup Permutations(Editors)
            \cup Permutations(Names)
=============================================================================
