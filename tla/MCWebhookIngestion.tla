-------------------------- MODULE MCWebhookIngestion --------------------------
(* Equal texts in two batches in opposite order, two taps and a call result. An  *)
(* agent with an ADM escalates, and one without revokes the consent and escalates. *)
EXTENDS WebhookIngestion, TLC
CONSTANTS hi, again, stop, halt, tap1, tap2, call, p1, p2, x, y, bye, id

MCForm == (hi :> "text") @@ (again :> "text") @@ (stop :> "text") @@ (halt :> "text")
          @@ (tap1 :> "button") @@ (tap2 :> "button") @@ (call :> "voice")
MCWords == [m \in Messages |->
              IF m \in {stop, halt} THEN {"stop", "adm"} ELSE IF m \in {hi, again} THEN {"adm"} ELSE {}]
MCText == (hi :> x) @@ (again :> x) @@ (stop :> bye) @@ (halt :> bye) @@ (tap1 :> y) @@ (tap2 :> y) @@ (call :> id)
MCSender == [m \in Messages |-> IF m \in {stop, halt} THEN p2 ELSE p1]
MCTap == [m \in Messages |-> IF m = tap1 THEN [module |-> x, right |-> TRUE]
                             ELSE IF m = tap2 THEN [module |-> y, right |-> FALSE] ELSE None]
MCBatches == {<<hi, tap1, stop>>, <<halt, again>>, <<tap2, call>>}
=============================================================================
