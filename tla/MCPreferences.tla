---------------------------- MODULE MCPreferences ----------------------------
(***************************************************************************)
(* Two submissions with the URLs and origins below, one preset, one        *)
(* customer.                                                               *)
(***************************************************************************)
EXTENDS Preferences, TLC

Key(n) == <<n, "lower">>
Other(n) == <<n, "Mixed">>
Url(fast, query) == [fast |-> fast, query |-> query]
Pays(who, percent) == [who |-> who, percent |-> percent]

Plain == Url(FALSE, <<>>)
Fast == Url(TRUE, <<>>)
Split == <<Pays("origin", 30), Pays("0xa", 70)>>
FastSplit == Url(TRUE, Key("refund") :> Split)
Overspent == Url(FALSE, Key("refund") :> <<Pays("0xa", 60), Pays("origin", 60)>>)
OneShare == Url(FALSE, Key("refund") :> <<Pays("0xa", 100)>>)
NoAddress == Url(FALSE, Key("refund") :> <<Pays("0xzz", 10)>>)
NullShare == Url(FALSE, Key("refund") :> <<Pays("0x0", 99)>>)
Named == Url(FALSE, Key("originid") :> <<"wallet">> @@ Key("hint") :> <<"logs">>)
NamedOther == Url(FALSE, Other("originid") :> <<"wallet">> @@ Other("hint") :> <<"logs">>)
NamedMore == Url(FALSE, Key("originid") :> <<"wallet">> @@ Key("hint") :> <<"logs">>
                    @@ Key("usemempool") :> <<"true">>
                    @@ Key("mempoolrpc") :> <<<<"http", "node">>>>)
NamedTwice == Url(FALSE, Key("originid") :> <<"wallet">> @@ Key("hint") :> <<"logs">>
                    @@ Other("hint") :> <<"secret">>)
NamedBoth == Url(FALSE, Key("originid") :> <<"wallet">> @@ Key("hint") :> <<"logs">>
                    @@ Key("usemempool") :> <<"true">> @@ Other("usemempool") :> <<"false">>)
NamedFast == Url(TRUE, Key("originid") :> <<"wallet">> @@ Key("builder") :> <<"x">>
                    @@ Key("allowtee") :> <<"F">>)
ByName == Url(TRUE, Key("originid") :> <<"preset">> @@ Key("refund") :> Split)
Ranged == Url(FALSE, Key("blockrange") :> <<2>>
                    @@ Key("auctiontimeout") :> <<5>> @@ Key("builder") :> <<"x">>)
BadRange == Url(FALSE, Key("blockrange") :> <<-1>>)

MCUrls ==
    "p1" :> {Plain, Fast, FastSplit, Overspent, OneShare, NoAddress, NullShare, Named,
             NamedMore, NamedTwice, NamedBoth, NamedFast, ByName, Ranged, BadRange}
 @@ "p2" :> {NamedOther, Ranged}
MCHeaders == {"", "preset"}
MCPresets == {"preset" :> u : u \in {FastSplit, NamedTwice}}
MCCustomers == "wallet" :> {NamedTwice, NamedBoth, NamedFast}
MCLists == {<<>>, <<"beaver", "Rsync">>}
MCLower == "beaver" :> "beaver" @@ "Rsync" :> "rsync"
MCSender == "p1" :> "0xb" @@ "p2" :> "0xc"
=============================================================================
