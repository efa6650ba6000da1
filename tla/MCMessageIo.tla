---------------------------- MODULE MCMessageIo -----------------------------
(* Messages to be enqueued in module MessageIo.                            *)
EXTENDS MessageIo

\* Integers on both sides of each change of width
Ints == {0, 1, 252, 253, 65536}
FewLengths == {0, 1, 253}
FewInts == {1, 253}
Hash == [i \in 1..HashLen |-> 7]
NodeLists == {<<>>, <<<<2, 300, Hash>>, <<1, 4, Hash>>>>}
Maybe(S) == S \cup {None}

Opens ==
    [type : {"Open"}, channel : FewInts, protocol : {<<104, 49>>},
     discovery_key : {Hash}, capability : Maybe({Hash})]
Closes == [type : {"Close"}, channel : FewInts]

Synchronizes ==
    [type : {"Synchronize"}, fork : {0}, length : FewInts, remote_length : {0},
     can_upgrade : BOOLEAN, uploading : BOOLEAN, downloading : BOOLEAN]
Requests ==
    [type : {"Request"}, id : {253}, fork : {0}, block : Maybe({<<5, 0>>}),
     hash : Maybe({<<253, 1>>}), seek : Maybe({<<10>>}), upgrade : Maybe({<<0, 10>>}),
     manifest : BOOLEAN, priority : {0, 1}]
Datas ==
    [type : {"Data"}, request : {1}, fork : {5},
     block : Maybe({<<5, <<9, 9>>, ns>> : ns \in NodeLists}),
     hash : Maybe({<<20, ns>> : ns \in NodeLists}),
     seek : Maybe({<<10, <<>>>>}),
     upgrade : Maybe({<<0, 10, <<>>, ns, Hash>> : ns \in NodeLists})]
Plains ==
    [type : {"Cancel", "NoData"}, request : Ints]
        \cup [type : {"Want", "Unwant"}, start : FewInts, length : FewLengths]
        \cup [type : {"Bitfield"}, start : FewInts, bitfield : {<<>>, <<0, 65537>>}]
        \cup [type : {"Extension"}, name : {<<>>, <<120>>}, message : {<<>>, <<68, 20>>}]
Ranges == [type : {"Range"}, drop : BOOLEAN, start : FewInts, length : FewLengths]

\* Every message type with its options, on a channel whose id takes three bytes
EveryMessage ==
    {ChannelMessage(m.channel, m) : m \in Opens \cup Closes}
        \cup {ChannelMessage(300, m) :
                 m \in Synchronizes \cup Requests \cup Datas \cup Plains \cup Ranges}

\* A few messages whose sizes differ, on two channels, to be put into batches
FewMessages ==
    {ChannelMessage(1, m) : m \in [type : {"Close"}, channel : {1}]}
        \cup {ChannelMessage(c, m) :
                 c \in {1, 2},
                 m \in [type : {"NoData"}, request : {0, 3}]
                     \cup [type : {"Want"}, start : {0}, length : {1}]
                     \cup [type : {"Range"}, drop : {FALSE}, start : {0}, length : {0, 1}]
                     \cup [type : {"Bitfield"}, start : {0}, bitfield : {<<>>}]}

\* Any two messages, or three of the few
MCPools == {[messages |-> EveryMessage, max |-> 2], [messages |-> FewMessages, max |-> 3]}
FewPool == {[messages |-> FewMessages, max |-> 3]}
=============================================================================
