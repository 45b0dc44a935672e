------------------------------ MODULE MCUpkeep ------------------------------
EXTENDS Upkeep
\* Conversation 1 has the summaries; conversation 2 is an archived subagent's.
Row(sid, active, brief) ==
    [live |-> TRUE, sid |-> sid, key |-> NullKey, active |-> active, brief |-> brief]
MCConvs == 1 :> Row(1, TRUE, FALSE) @@ 2 :> Row(2, FALSE, TRUE)
\* Two condensed summaries, one above the other, in either order of names.
MCKids == {"c1" :> {"s1"} @@ "c2" :> {"c1", "s2"}, "c1" :> {"c2", "s2"} @@ "c2" :> {"s1"},
           "c1" :> {} @@ "c2" :> {"s1", "c1"}}
MCLegacies == [conv : {MCConvs}, kids : MCKids, marked : {{"s1", "c1", "c2"}}]
\* Nothing in the environment; one provider named twice, one more to fall back on.
MCModelLayers == <<"", "haiku", "haiku", "mini">>
MCCallerKeys == {Key("cron", 0), Key("chat", 0)}
=============================================================================
