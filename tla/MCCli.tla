------------------------------- MODULE MCCli --------------------------------
(***************************************************************************)
(* Command lines for TLC: one per interface and feature, and those the     *)
(* checks of the start refuse.                                             *)
(***************************************************************************)
EXTENDS Cli

NoLink ==
    [form |-> None, version |-> 1, exp |-> FALSE, left |-> 0, nonce |-> None,
     sig |-> None, domain |-> FALSE, call |-> FALSE, privacy |-> None,
     torii |-> FALSE, pay_to |-> FALSE]

Signed ==
    [form |-> "ok", version |-> 2, exp |-> TRUE, left |-> 1, nonce |-> "hex", sig |-> "hex",
     domain |-> FALSE, call |-> FALSE, privacy |-> None, torii |-> TRUE,
     pay_to |-> TRUE]

\* The default command line: the conference, nothing mirrored, no link.
Plain ==
    [typed |-> {}, heard |-> {}, legacy_ui |-> FALSE, tui |-> FALSE, env |-> {}, link |-> NoLink, route |-> TRUE,
     torii |-> FALSE, local |-> TRUE, params |-> None, handle |-> None,
     privacy |-> None,
     pay |-> [auto |-> FALSE, no_auto |-> FALSE, rate |-> 0, config |-> FALSE,
              to |-> FALSE, from |-> FALSE, unsettled |-> FALSE],
     anon |-> [prepay |-> 0, extra |-> 0, minutes |-> 1, interval |-> "default",
               id |-> None, proof |-> None, unshield |-> FALSE, details |-> None],
     life |-> [config |-> FALSE, domain |-> FALSE, call |-> FALSE,
               participant |-> FALSE, hex |-> None, alias |-> FALSE,
               issued |-> FALSE, usage |-> FALSE, gas |-> FALSE]]

Mirrored(a) ==
    [a EXCEPT !.life.config = TRUE, !.life.domain = TRUE, !.life.call = TRUE,
              !.life.participant = TRUE, !.life.usage = TRUE]

Linked(link) == [Plain EXCEPT !.link = link, !.route = FALSE, !.local = FALSE]

\* Links: signed, legacy, expired, too far ahead, tampered with, incomplete.
LinkArgs ==
    {Linked(l) : l \in
        {Signed, [Signed EXCEPT !.left = MaxLife + 1], [Signed EXCEPT !.sig = "wrong"],
         [Signed EXCEPT !.nonce = "bad"], [Signed EXCEPT !.version = 3],
         [Signed EXCEPT !.domain = TRUE], [Signed EXCEPT !.form = "bad"],
         [Signed EXCEPT !.version = 1],
         [Signed EXCEPT !.version = 1, !.exp = FALSE, !.left = 0, !.nonce = None, !.sig = None]}}

Paying == [Plain EXCEPT !.legacy_ui = TRUE, !.pay.config = TRUE, !.pay.to = TRUE]
Unpaid == [Plain EXCEPT !.legacy_ui = TRUE, !.pay.no_auto = TRUE]
Zk == [Plain EXCEPT !.legacy_ui = TRUE, !.env = {"privacy"}]
Escrowed ==
    [Zk EXCEPT !.pay.config = TRUE, !.pay.from = TRUE, !.anon.prepay = 1,
               !.anon.extra = 1, !.anon.minutes = 2, !.anon.unshield = TRUE,
               !.anon.details = "ok", !.anon.interval = "off"]

\* Command lines that are refused, each at another check.
RefusedArgs ==
    {[Plain EXCEPT !.privacy = "other"], [Plain EXCEPT !.local = FALSE],
     [Plain EXCEPT !.anon.prepay = 1], [Escrowed EXCEPT !.anon.extra = MaxAmount],
     [Plain EXCEPT !.env = {"participant"}], [Plain EXCEPT !.params = "bad"],
     [Unpaid EXCEPT !.env = {"pay_to"}], [Paying EXCEPT !.pay.rate = 1]}

Scene(a, typed, heard) == [a EXCEPT !.typed = typed, !.heard = heard]

RoomArgs ==
    {Scene(Paying, {"talk"}, {"rate"}), Scene(Paying, {"pay"}, {}),
     Scene([Paying EXCEPT !.pay.config = FALSE, !.pay.to = FALSE, !.pay.unsettled = TRUE],
           {}, {"rate", "host"}),
     Scene([Unpaid EXCEPT !.pay.rate = 2, !.pay.unsettled = TRUE], {"pay"}, {"rate"}),
     Scene(Mirrored(Unpaid), {"policy", "end", "typo"}, {"host", "policy", "bad"}),
     Scene(Unpaid, {"talk", "keys"}, {}),
     Scene(Zk, {"talk", "pay", "end"}, {"roster", "bad"}),
     Scene(Mirrored(Escrowed), {"keys", "end"}, {"bad"}),
     Scene(Mirrored(Plain), {"mic", "end"}, {"bad"}),
     Scene(Plain, {"video", "pause"}, {}),
     Scene([Plain EXCEPT !.tui = TRUE, !.privacy = "zk_roster_v1"],
           {"mic", "video", "end"}, {"roster"})}

AllArgs == LinkArgs \cup RefusedArgs \cup RoomArgs

\* A legacy room that pays and mirrors its lifecycle.
QuitArgs == {Scene(Mirrored(Paying), {"end"}, {"rate", "host"})}
=============================================================================
