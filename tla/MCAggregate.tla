---------------------------- MODULE MCAggregate ----------------------------
(* Small instances of Aggregate and Report for TLC. *)
EXTENDS Report

\* Messages 1 to 6; 5 and 6 agree in their first eighty runes.
MCTruncated == [m \in 0..6 |-> IF m = 6 THEN 5 ELSE m]

\* Two servers with pod names, successes and failures of several kinds: a
\* server duration above the total, a failure before any peer is known.
MixedReplies ==
    {SuccessReply(s, t[1], t[2], t[3]) :
        s \in {1, 2}, t \in {<<1, 0, -1>>, <<1, 2, 0>>, <<4, 2, 3>>}}
    \cup {FailureReply(s, 14, 1, s) : s \in {1, 2}}
    \cup {FailureReply(1, 14, 2, 0)}

\* Many failures of two codes with messages that tie and collide.
FailureReplies ==
    {FailureReply(1, 14, m, 1) : m \in {1, 2, 3, 5, 6}}
    \cup {FailureReply(1, 8, 4, 1)}

\* Long samples, so that the ranks of p50, p90 and p99 differ.
TimedReplies == {SuccessReply(1, t, 1, -1) : t \in {1, 2}}

\* Answers of two servers and failures of one.
PlainReplies ==
    {SuccessReply(s, 2, 1, -1) : s \in {1, 2}} \cup {FailureReply(1, 8, 1, 1)}

\* Calls of two servers and failures to dial, whose times matter.
SpreadReplies ==
    {SuccessReply(1, 1, 1, -1), SuccessReply(2, 3, 1, -1), SetupFailure(1)}

OneSetting(named, mesh, reply, max) ==
    [named |-> named, blank |-> {}, mesh |-> mesh, workers |-> 1, gaps |-> {0},
     reply |-> reply, max |-> max]

\* Two workers with pauses; the name of the second server is its hostname.
SpreadSetting ==
    [OneSetting({1}, FALSE, SpreadReplies, 3)
        EXCEPT !.blank = {2}, !.workers = 2, !.gaps = {0, 2}]

\* The settings in which every property but the documents' holds.
AllSettings ==
    {OneSetting({1, 2}, FALSE, MixedReplies, 4),
     OneSetting({1, 2}, TRUE, MixedReplies, 3),
     OneSetting({1}, FALSE, FailureReplies, 5),
     OneSetting({1}, FALSE, TimedReplies, 10),
     SpreadSetting}

\* Both formats; labels that are nil, empty and set; every shape with a name.
NamedConfigs ==
    {[format |-> f[1], labels |-> f[2], payload |-> <<0, 1, 2, 3, 4, 5>>, out |-> "nil"] :
        f \in {<<"human", << >> >>, <<"json", <<{}>> >>, <<"json", <<{1, 2}>> >>}}

\* A mix with a shape that is not in the enum.
ForeignConfigs ==
    {[format |-> "json", labels |-> << >>, payload |-> <<3, 7>>, out |-> "buffer"]}

\* Two servers without POD_NAME; with it; with it and behind a sidecar.
UnnamedSettings == {OneSetting({}, FALSE, PlainReplies, 3)}
NamedSettings == {OneSetting({1, 2}, FALSE, PlainReplies, 3)}
MeshSettings == {OneSetting({1, 2}, TRUE, PlainReplies, 3)}
=============================================================================
