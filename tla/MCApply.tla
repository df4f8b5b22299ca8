------------------------------ MODULE MCApply ------------------------------
(* Two fields, one of them with a default, for each diff and each way to     *)
(* apply.                                                                    *)
EXTENDS Apply, TLC

S(how, known) == [diff |-> how, mutations |-> FALSE, replace |-> FALSE, protected |-> FALSE,
                   onlyOutOfSync |-> TRUE, known |-> known, ignored |-> {}]

MCSetups == {S("threeWay", TRUE), [S("threeWay", FALSE) EXCEPT !.onlyOutOfSync = FALSE],
             S("structured", TRUE), S("serverSide", FALSE),
             [S("serverSide", FALSE) EXCEPT !.mutations = TRUE, !.onlyOutOfSync = FALSE],
             [S("threeWay", TRUE) EXCEPT !.ignored = {"a"}],
             [S("serverSide", TRUE) EXCEPT !.ignored = {"b"}],
             [S("threeWay", TRUE) EXCEPT !.replace = TRUE, !.onlyOutOfSync = FALSE],
             [S("threeWay", FALSE) EXCEPT !.replace = TRUE, !.protected = TRUE]}

M(a, b) == "a" :> a @@ "b" :> b

MCManifests == {M(1, 2), M(1, Absent), M(2, Absent), M(Absent, 1)}

MCDefaults == M(Absent, 1)
=============================================================================
