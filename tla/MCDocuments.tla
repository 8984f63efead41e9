------------------------------ MODULE MCDocuments ------------------------------
(* An instance of DocumentSession for TLC: two folders of two names, torrents whose keys are *)
(* missing, doubled, hidden by another or no text. *)
EXTENDS DocumentSession, TLC

CONSTANTS in, out

MCDirs == {in, out}
MCNames == {"p", "q"}
MCKeyOf == [t |-> "t", T |-> "t", u |-> "u"]     \* t and T differ in the case of the host
MCSeedUrls == {"w", "x"}
MCStrings == {"t", "T", "u", "w", "x", "?"}
MCTexts == {"", "c", "d", "e", "n", "m", "s", "y", "z", "me", "you", "top", "TorrentCraft"}

Plain ==
    [announce |-> "t", announce_list |-> None, comment |-> "c", creator |-> "TorrentCraft",
     date |-> None, url_list |-> <<"w">>, httpseeds |-> <<"x">>, source |-> None,
     unknown |-> FALSE, info |-> [name |-> "n", private |-> None, source |-> None, sorted |-> TRUE]]
Odd ==
    [announce |-> "u", announce_list |-> << <<"t", "T", "?">>, <<"?">>, <<"u">> >>,
     comment |-> BadText, creator |-> "me", date |-> 5, url_list |-> <<"?", "w">>,
     httpseeds |-> None, source |-> "top", unknown |-> TRUE,
     info |-> [name |-> BadText, private |-> 1, source |-> "s", sorted |-> TRUE]]
Revived ==
    [Plain EXCEPT !.announce_list = << <<"?">> >>, !.source = "top", !.info.source = BadText]
Unsorted == [Plain EXCEPT !.info.sorted = FALSE]
Tiered == [Plain EXCEPT !.announce_list = << <<"t">>, <<"u">> >>, !.url_list = None]

Disk(p, q, other, last) ==
    <<in, "p">> :> p @@ <<in, "q">> :> q @@ <<out, "p">> :> other @@ <<out, "q">> :> last
MCStarts == {Disk(Odd, Plain, Tiered, None), Disk(Garbage, Revived, Unsorted, None)}

MCDefaultRows == <<[tier |-> 1, url |-> "t"], [tier |-> 2, url |-> "u"]>>
MCOpened == {<<in, "p">>, <<in, "q">>, <<out, "p">>, in}
Client(name, actions) ==
    [kind |-> "client", path |-> <<in, name>>, actions |-> actions, dry |-> FALSE]
EditCommand(name, actions) == [Client(name, actions) EXCEPT !.kind = "metadata"]
Is(field, value) == [field |-> field, value |-> value]
MCTyped ==
    {Is("comment", "d"), Is("creator", "you"), Is("private", FALSE), Is("name", "m"), Is("source", "z"),
     Is("web_seeds", <<>>), Is("web_seeds", <<"x", "w">>),
     Is("clear", "source"), Is("clear", "web_seeds"),
     Is("custom", TRUE), Is("dated", TRUE), Is("output", None)}

Add(tier, url) ==
    [kind |-> "add", path |-> <<in, "q">>, tier |-> tier, url |-> url, dry |-> FALSE]
MCCliCommands ==
    {EditCommand("q", <<Act("comment", "e"), Act("private", 0), Act("source", "y")>>),
     EditCommand("q", <<Act("source", None), Act("creator", None)>>),
     EditCommand("q", <<Act("name", "")>>),
     Client("p", <<Act("source", None), Act("web_seeds", <<"w", "x">>)>>),
     Client("p", <<Act("move", <<1, 1, 2>>), Act("add_tier", <<"u">>), Act("move_tier", <<2, 1>>),
                   Act("remove", <<1, 1>>), Act("move_within", <<1, 1, 2>>),
                   Act("add_to_tier", <<1, "T">>)>>),
     [EditCommand("q", <<>>) EXCEPT !.dry = TRUE],
     Add(1, "T"), Add(2, "u"),
     [kind |-> "remove", path |-> <<out, "p">>, tier |-> 1, index |-> 1, dry |-> FALSE],
     [kind |-> "replace", path |-> <<in, "q">>, entries |-> <<<<3, "u">>, <<1, "t">>, <<3, "t">>>>,
      dry |-> FALSE]}
=============================================================================
