------------------------------ MODULE MCReads ------------------------------
(* A keyless session of two segments (c1, archived once c2 opens) with two   *)
(* leaves that share a message and a condensed summary over them, and a keyed *)
(* session (c3) whose oversize leaf is written while the calls are under way. *)
EXTENDS Reads

MCKeyOf == [c \in Convs |-> IF c = "c3" THEN "s" ELSE NoKey]
MCSidOf == [c \in Convs |-> IF c = "c3" THEN "s3" ELSE "k"]
MCConvOf == [x \in Rows |-> IF x \in {"m4", "l3"} THEN "c3" ELSE "c1"]
MCSources == [l \in Leaves |-> CASE l = "l1" -> {"m1", "m2"}
                                 [] l = "l2" -> {"m2", "m3"}
                                 [] OTHER -> {"m4"}]
MCLinks == {<<"d", "l1">>, <<"d", "l2">>}
MCAge == [x \in Rows |-> CASE x = "m1" -> 1 [] x = "m2" -> 2 [] x = "m3" -> 3
                           [] x = "m4" -> 4 [] x = "l1" -> 5 [] x = "l2" -> 6
                           [] x = "d" -> 7 [] OTHER -> 8]
MCDist == [s \in Sums |-> CASE s = "l3" -> 1 [] s = "l1" -> 2 [] s = "d" -> 3 [] OTHER -> 4]
MCEntityKey == [e \in Entities |-> "s"]
MCMentions == [e \in Entities |-> {"l3"}]
MCFileConv == [f \in Files |-> "c3"]
MCWindows == {<<1, 0>>, <<2, 0>>, <<3, 6>>}
=============================================================================
