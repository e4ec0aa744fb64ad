----------------------------- MODULE MCSubmission -----------------------------
(* Submission for two requests, each of which asks for any of a few things. *)
EXTENDS Submission, TLC

CONSTANTS r1, r2, m0, k1, k2

Plain(key, print) == [key |-> key, print |-> print, units |-> 1, stream |-> "normal",
                      scheduled |-> FALSE, replaces |-> Nobody]

\* A plain request; one with its key, which is scheduled and replaces m0; one with
\* a key of its own, for two recipients of a limited stream, which replaces m0 or
\* nothing; an SMTP submission.  The replacement does not fit together with either
\* of the large ones: not in a minute of the website, not in an hour of their
\* stream, not in the schedule.
MCPlain == Plain(k1, "a")
MCReplacing == [Plain(k1, "b") EXCEPT !.stream = "otp", !.scheduled = TRUE, !.replaces = m0]
MCLarge == [Plain(k2, "c") EXCEPT !.units = 2, !.stream = "otp", !.scheduled = TRUE,
                                  !.replaces = m0]
MCBulk == [MCLarge EXCEPT !.replaces = Nobody]
MCSmtp == Plain(NoKey, "d")
MCAsks == {MCPlain, MCReplacing, MCLarge, MCBulk, MCSmtp}

\* A key reused for something else, a replacement repeated, two
\* competing replacements, two that share only the limits, and both ways in.
MCPairs == {<<MCPlain, MCReplacing>>, <<MCReplacing, MCReplacing>>,
            <<MCReplacing, MCLarge>>, <<MCReplacing, MCBulk>>, <<MCPlain, MCSmtp>>}
MCInit == Init /\ <<req[r1], req[r2]>> \in MCPairs

\* Where the limits are the question, no message is delivered.
MCNext == Next /\ (req[r2] = MCBulk => due' = due /\ delivery'[m0] = "queued")
MCSpec == MCInit /\ [][MCNext]_vars /\ Fairness

MCBudget == [minute |-> 2, hour |-> 0, day |-> 3]
MCStreamBudget == "normal" :> [w \in Windows |-> 0]
                  @@ "otp" :> [minute |-> 0, hour |-> 2, day |-> 0]
===============================================================================
