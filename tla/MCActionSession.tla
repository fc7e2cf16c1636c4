-------------------------- MODULE MCActionSession --------------------------
(* Small instances of ActionSession. *)
EXTENDS ActionSession

\* Two hubs, one below the other, each with an endpoint.
MCStops == {"h1", "h2", "e1", "e2"}
MCHubs == {"h1", "h2"}
MCAbove == [s \in MCStops |-> CASE s = "h1" -> <<>>
                                [] s = "e2" -> <<"h1", "h2">>
                                [] OTHER -> <<"h1">>]
MCRingDelay == [s \in MCHubs |-> <<0, 1>>]
MCStopDelay == [s \in MCStops |-> IF s = "h2" THEN 1 ELSE 0]
MCDeskew == [s \in MCHubs |-> 0]
MCDefault == [f \in {"f", "k"} |-> IF f = "k" THEN 1 ELSE 0]

Plain ==
    [op |-> "", stops |-> <<>>, gids |-> <<>>, bank |-> 1, mode |-> "LISTEN_ONLY",
     num |-> 1, wait |-> 0, data |-> <<>>, whole |-> FALSE, read |-> FALSE,
     incremental |-> FALSE, usrop |-> 1, partial |-> <<>>, inout |-> FALSE, output |-> <<>>,
     to |-> <<>>]
Selecting(stops, gids) == [Plain EXCEPT !.op = "select", !.stops = stops, !.gids = gids]
Writing(stops, f, n) ==
    [Plain EXCEPT !.op = "write_read", !.stops = stops,
                  !.data = [k \in {User(f)} |-> n]]

MCStf ==
    {Selecting(<<s>>, <<g>>) : s \in {"e1", "e2", "h2"}, g \in {0, 2, 3}}
    \cup {Selecting(<<"e2", "e1">>, <<g, k>>) : <<g, k>> \in {<<0, 0>>, <<2, 2>>, <<2, 3>>}}
    \cup {[Selecting(<<"e1">>, <<2>>) EXCEPT !.bank = 0],
          [Selecting(<<"e1">>, <<0>>) EXCEPT !.bank = 0],
          [Selecting(<<"e2">>, <<3>>) EXCEPT !.mode = "OUTPUT_ENABLED"],
          [Selecting(<<"e2">>, <<2>>) EXCEPT !.mode = Reset],
          Selecting(<<"e1">>, <<1>>)}
    \cup {[Selecting(<<"e2">>, <<2>>) EXCEPT !.wait = n] : n \in {-1, 1}}
    \cup {Writing(stops, "f", 1) : stops \in {<<"e1">>, <<"e2">>, <<"e1", "e2">>}}
    \cup {[Writing(<<"e2">>, "k", n) EXCEPT !.incremental = TRUE] : n \in {1, 2}}
    \cup {[Writing(<<"e2">>, "k", 1) EXCEPT !.read = TRUE],
          [Writing(<<"e2">>, "f", 1) EXCEPT !.gids = <<3>>],
          [Writing(<<"e2">>, "k", 0) EXCEPT !.data = [k \in {Part("k")} |-> 0]],
          [Writing(<<"e2">>, "k", 0) EXCEPT !.data = <<>>],
          [Plain EXCEPT !.op = "nop", !.stops = <<"e1", "e2">>],
          [Plain EXCEPT !.op = "map_usrop", !.stops = <<"e2">>],
          [Plain EXCEPT !.op = "replace", !.stops = <<"e2">>, !.inout = TRUE, !.to = <<3>>,
                        !.output = <<[lsb |-> 30, msb |-> 31, bits |-> <<1>>],
                                     [lsb |-> 0, msb |-> 1, bits |-> <<0, 1>>]>>]}


\* A packet of 20 bits, with one field given from its upper end.
MCPacketFields == <<"OPCODE", "GID", "DATA">>
MCFieldEnds == [f \in {"OPCODE", "GID", "DATA"} |->
                  CASE f = "OPCODE" -> <<16, 19>> [] f = "GID" -> <<15, 12>> [] f = "DATA" -> <<0, 9>>]
MCPacketDefault == [f \in {"GID"} |-> 1]
Packet == [op |-> "direct_packet", args |-> <<>>, read |-> FALSE, nops |-> -1, known |-> TRUE,
           ctl |-> "dat", dr |-> <<>>, packet |-> <<>>, mode |-> "ii", in |-> <<>>, out |-> <<>>]
To(gid) == [f \in {"GID"} |-> gid]
With(opcode, data) == [f \in {"OPCODE", "DATA"} |-> IF f = "DATA" THEN data ELSE opcode]
LongDr(last) == [i \in 1..last |-> IF i = last \/ i % 3 = 0 THEN 1 ELSE 0]
MCPkt ==
    {[Packet EXCEPT !.args = args] : args \in {With(9, 1024), To(3) @@ With(2, 6), To(3)}}
    \cup {[Packet EXCEPT !.args = With(9, 517), !.read = r] : r \in BOOLEAN}
    \cup {[Packet EXCEPT !.op = "stf2mci", !.dr = LongDr(n), !.args = To(2)] : n \in {30, 47}}
    \cup {[Packet EXCEPT !.op = "stf2mci", !.nops = 4, !.known = b] : b \in BOOLEAN}
    \cup {[Packet EXCEPT !.op = "stf2mci", !.ctl = c, !.packet = <<1, 0, 1, 1>>] : c \in {"dat", "tap"}}
    \cup {[Packet EXCEPT !.op = "mci", !.mode = "io", !.in = <<McNop>>, !.out = out] :
            out \in {<<>>, <<McNop>>}}

\* A register of four bits: two fields, one that overlaps both, and the lowest bit.
MCDocFields == <<"w", "a", "o", "b">>
MCLsb == [f \in {"w", "a", "o", "b"} |-> CASE f \in {"w", "a"} -> 0 [] f = "o" -> 1 [] f = "b" -> 2]
MCMsb == [f \in {"w", "a", "o", "b"} |-> IF f = "w" THEN 0 ELSE MCLsb[f] + 1]
MCResetOf == [f \in {"w", "a", "o", "b"} |-> CASE f = "o" -> {} [] f = "b" -> {1} [] OTHER -> {0}]

Arg(f, r) == [field |-> f, exact |-> TRUE, ranges |-> <<r>>]
Bit(i, set) == [lsb |-> i, msb |-> i, bits |-> IF set THEN {0} ELSE {}]
Tapping == [op |-> "write", args |-> <<>>, incremental |-> FALSE, unset |-> TRUE, bits |-> {}]
MCArgs == {<<Arg("a", Whole({1}))>>, <<Arg("b", Whole({0, 1}))>>, <<Arg("b", Whole({0}))>>,
           <<Arg("a", Whole({})), Arg("b", Whole({1}))>>}
MCTap ==
    {[Tapping EXCEPT !.args = args, !.incremental = inc] :
        args \in MCArgs \cup {<<Arg("o", Whole({0}))>>, <<Arg("a", Bit(1, TRUE))>>}, inc \in BOOLEAN}
    \cup {[Tapping EXCEPT !.args = <<[Arg("a", Whole({0, 1})) EXCEPT !.exact = FALSE]>>,
                          !.incremental = TRUE],
          [Tapping EXCEPT !.args = <<Arg("a", Whole({1})), Arg("o", Whole({0}))>>],
          [Tapping EXCEPT !.args = <<Arg("b", Bit(2, TRUE))>>],
          [Tapping EXCEPT !.args = <<Arg("w", Whole({}))>>, !.incremental = TRUE],
          [Tapping EXCEPT !.args = <<Arg("b", Bit(0, TRUE))>>, !.unset = FALSE],
          [Tapping EXCEPT !.op = "raw", !.bits = {1, 2}],
          [Tapping EXCEPT !.op = "raw", !.bits = {1, 2}, !.incremental = TRUE],
          [Tapping EXCEPT !.op = "raw", !.args = <<Arg("a", Whole({1}))>>]}
    \cup {[Tapping EXCEPT !.op = "read", !.args = <<Arg("a", Whole({1}))>>, !.incremental = inc] :
            inc \in BOOLEAN}

\* A control register of three bits in two scopes.
MCCrLsb == [f \in {"p", "q"} |-> IF f = "p" THEN 0 ELSE 2]
MCCrMsb == [f \in {"p", "q"} |-> IF f = "p" THEN 1 ELSE 2]
MCCrReset == [f \in {"p", "q"} |-> IF f = "p" THEN {1} ELSE {}]
NoRaw == [lsb |-> 0, msb |-> 0, bits |-> {}]
Xreg(scopes, args) == [op |-> "fields", scopes |-> scopes, broadcast |-> TRUE, inject |-> FALSE,
                       args |-> args, raw |-> NoRaw, read |-> FALSE, check |-> FALSE, unchecked |-> {}]
NamingP(r) == [f \in {"p"} |-> r]
MCScopeLists == {<<"s1">>, <<"s1", "s2">>}
MCXreg ==
    {[Xreg(l, NamingP(<<Whole({0})>>)) EXCEPT !.inject = inj, !.check = c] :
        l \in MCScopeLists, inj \in BOOLEAN, c \in BOOLEAN}
    \cup {Xreg(l, [f \in {"q"} |-> <<Whole({0})>>]) : l \in MCScopeLists}
    \cup {[Xreg(<<"s1">>, [f \in {"p", "q"} |-> <<Whole({0})>>]) EXCEPT
              !.read = r, !.check = TRUE, !.unchecked = {"q"}] : r \in BOOLEAN}
    \cup {[Xreg(<<"s2">>, [f \in g |-> <<Whole({})>>]) EXCEPT !.read = TRUE, !.check = TRUE] :
              g \in {{}, {"p", "q"}}}
    \cup {Xreg(<<"s1">>, NamingP(rs)) : rs \in {<<Bit(0, TRUE), Bit(1, TRUE)>>, <<Bit(2, TRUE)>>}}
    \cup {Xreg(<<"s1">>, [f \in {"q"} |-> <<Bit(1, TRUE)>>]),
          [Xreg(<<"s1", "s2">>, <<>>) EXCEPT !.broadcast = FALSE]}
    \cup {[Xreg(<<"s2">>, <<>>) EXCEPT !.op = "raw", !.raw = r, !.inject = (r = NoRaw)] :
              r \in {[lsb |-> 0, msb |-> 1, bits |-> {0, 1}], [lsb |-> 0, msb |-> 2, bits |-> {1}],
                     [lsb |-> -1, msb |-> -1, bits |-> {}], [lsb |-> 0, msb |-> 1, bits |-> {3}], NoRaw}}
MCXregConfs == {[rtl |-> {"p", "q"}, locked |-> {}], [rtl |-> {"p"}, locked |-> {}],
                [rtl |-> {"p", "q"}, locked |-> {"q"}]}

\* Four pin actions on the machines k0 to k2 of agents i and j, and two chords of
\* one trigger: a and b share a pin, b and c a machine, and d misreads its pin
\* as b's.
MCUbpActions == {"a", "b", "c", "d", "x", "y"}
MCIp == [n \in MCUbpActions |-> IF n \in {"a", "x", "y"} THEN {"i"} ELSE {"i", "j"}]
MCUbp == [n \in MCUbpActions |-> CASE n = "a" -> "k0" [] n \in {"b", "c"} -> "k1"
                                    [] n = "d" -> "k2" [] n = "x" -> "chord" [] OTHER -> "chord2"]
MCTrigger == [n \in MCUbpActions |-> CASE n \in {"a", "b"} -> <<2>> [] n = "c" -> <<4>>
                                        [] n = "d" -> <<1, 0>> [] OTHER -> <<5>>]
MCTapTrigger == [n \in {"a", "b", "c", "d"} |-> [reg |-> IF n = "d" THEN "q" ELSE "r", pins |-> {Pin(n)}]]
Breaking == [op |-> "enable", action |-> Nobody, actions |-> <<>>, shared |-> FALSE,
             force |-> FALSE, byTap |-> FALSE, pulse |-> FALSE, machine |-> <<"i", "k0">>]
Triggering(as) == [Breaking EXCEPT !.op = "trigger", !.actions = as]
MCUbpScript ==
    {[Breaking EXCEPT !.action = n] : n \in MCUbpActions}
    \cup {[Breaking EXCEPT !.action = n, !.op = "disable"] : n \in {"b", Nobody}}
    \cup {[Breaking EXCEPT !.action = "b", !.shared = TRUE],
          [Breaking EXCEPT !.op = "reset"], [Breaking EXCEPT !.op = "direct"]}
    \cup {Triggering(as) : as \in {<<"a">>, <<"b">>, <<"c">>, <<"d">>, <<"x">>, <<"a", "b">>, <<"a", "x">>}}
    \cup {[Triggering(<<"a">>) EXCEPT !.force = TRUE], [Triggering(<<"b">>) EXCEPT !.pulse = TRUE],
          [Triggering(<<"a", "b">>) EXCEPT !.byTap = TRUE]}

\* Two pins and two internal signals: m.s is in two modules, m.t in one.
MCPinWidth == [p \in {"pin", "bus"} |-> IF p = "bus" THEN 2 ELSE 0]
MCPathsOf == [n \in {"pin", "bus", "m.s", "m.u"} |->
                IF n \in {"m.s", "m.u"} THEN {"c0" \o IF n = "m.s" THEN ".s" ELSE ".u",
                                             "c1" \o IF n = "m.s" THEN ".s" ELSE ".u"}
                ELSE {n}]
MCChosen == [e \in {"", "c1", "c7"} |-> CASE e = "" -> {"c0.s", "c1.s", "c0.u", "c1.u"}
                                           [] e = "c1" -> {"c1.s", "c1.u"} [] e = "c7" -> {}]
MCPeriod == [c \in {"bclk", "fast", "slow"} |-> CASE c = "bclk" -> 4 [] c = "fast" -> 3 [] c = "slow" -> 8]
Signalling == [op |-> "set", sigs |-> <<>>, sel |-> "", cycles |-> 0, maxtimeout |-> 0,
               clock |-> "fast", align |-> FALSE, silent |-> FALSE]
Sig(n, v) == [name |-> n, value |-> v]
On(op, sigs) == [Signalling EXCEPT !.op = op, !.sigs = sigs]
MCSig ==
    {On("set", <<Sig("m.s", 1)>>), On("set", <<Sig("pin", 2)>>), On("set", <<Sig("bus", 3)>>),
     On("set", <<Sig("pin", 1), Sig("bus", Unknown)>>), On("set", <<Sig("pin", 1), Sig("m.u", 1)>>),
     On("set", <<Sig("m.u", Unknown)>>), On("set", <<Sig("m.v", 1)>>)}
    \cup {[On(op, <<Sig("m.s", 0)>>) EXCEPT !.sel = sel, !.silent = (sel = "")] :
            op \in {"force", "unforce"}, sel \in {"", "c1"}}
    \cup {[On("set", <<Sig("m.s", 1), Sig("m.u", 1)>>) EXCEPT !.sel = sel] : sel \in {"c1", "c7"}}
    \cup {[On("pulse", <<Sig(n, 1)>>) EXCEPT !.cycles = 3, !.clock = c] :
            n \in {"pin"}, c \in {"fast", "slow"}}
    \cup {[On("pulse", <<Sig("m.u", 1)>>) EXCEPT !.cycles = 3]}
    \cup {[On("wait", <<Sig("m.s", 1)>>) EXCEPT !.cycles = 2, !.maxtimeout = m] : m \in {1, 4, 9}}
    \cup {[On("delay", <<>>) EXCEPT !.cycles = n, !.align = TRUE, !.silent = s] :
            n \in {0, 5}, s \in BOOLEAN}

MCNames == {"x", "x_1"}
MCIndexed == [p \in MCNames \X (1..6) |-> p[1] \o "_" \o ToString(p[2])]
Playing == [op |-> "label", name |-> "x", ratio |-> 1, silent |-> FALSE]
MCGen ==
    {[Playing EXCEPT !.name = x] : x \in MCNames}
    \cup {[Playing EXCEPT !.op = "ratio", !.ratio = n, !.silent = s] : n \in 1..3, s \in BOOLEAN}
    \cup {[Playing EXCEPT !.op = "restore"], [Playing EXCEPT !.silent = TRUE]}

\* Patmods: V on field a, W on the upper bits of the register and on field b,
\* and X on a register of another network, which is written through this one.
Tap(fields, bits) == [network |-> "tap", agent |-> "ag", register |-> "ir", fields |-> fields,
                      bits |-> bits, ext |-> Absent]
Xr(f) == [network |-> "xreg", agent |-> "cr", register |-> "r", fields |-> <<f>>, bits |-> <<>>, ext |-> Absent]
Value(x) == [name |-> "off", from |-> x, upto |-> x, step |-> 0]
Ten == [name |-> "n", from |-> 3, upto |-> 1, step |-> 2]
Var(x, values, usages) == [name |-> x, values |-> values, usages |-> usages]
Section(enabled, vs, groups) == [enabled |-> enabled, vars |-> vs, groups |-> groups]
Both == [name |-> "G", members |-> <<"V", "W">>]
VVar == Var("V", <<Value(0), Ten>>, <<Tap(<<"a">>, <<>>), Tap(<<"a">>, <<<<0, 0>>>>)>>)
WVar == Var("W", <<Value(XValue), Ten>>, <<Tap(<<>>, <<<<3, 3>>, <<2, 2>>>>), Tap(<<"b">>, <<<<0, 1>>>>)>>)
XVar == Var("X", <<Value(1)>>, <<Xr("x")>>)
Everything == <<Section(1, <<VVar, Var("U", <<Ten>>, <<>>)>>, <<>>), Section(-1, <<WVar, XVar>>, <<Both>>)>>
MCDocsOf ==
    {Everything,
     <<Section(1, <<Var("W", <<Value(WordValue)>>, <<Tap(<<"a", "b">>, <<>>)>>), XVar>>, <<>>)>>,
     <<Section(0, <<VVar>>, <<>>)>>,
     <<Section(0, <<>>, <<>>), Section(1, <<VVar>>, <<>>)>>,
     <<Section(1, <<VVar, XVar>>, <<[name |-> "G", members |-> <<"V", "X">>]>>)>>}
MCHere == [network |-> "tap", agent |-> "ag", register |-> "ir"]

Piece(r, labelled, var) == [lsb |-> r.lsb, msb |-> r.msb, bits |-> r.bits, en |-> var # "off",
                            var |-> IF var = "off" THEN Absent ELSE var, labelled |-> labelled]
Piecewise(f, ps) == [field |-> f, exact |-> TRUE, ranges |-> ps]
Shifting == [op |-> "write", args |-> <<>>, incremental |-> FALSE, unset |-> TRUE, bits |-> {},
             name |-> "act", en |-> TRUE, vars |-> {}, each |-> FALSE, manual |-> {}, parts |-> <<>>]
Mapped(f, lsb, eqf, bits) ==
    [agent |-> "cr", register |-> "r", field |-> f, lsb |-> lsb,
     eq |-> [network |-> "tap", agent |-> "ag", register |-> "ir", field |-> eqf, bits |-> bits]]
WholeOf(f, labelled) == Piecewise(f, <<Piece(Whole({0}), labelled, Absent)>>)
MCSpf ==
    {[Shifting EXCEPT !.args = args] :
        args \in {<<WholeOf("a", TRUE), WholeOf("b", TRUE)>>,
                  <<Piecewise("a", <<Piece(Bit(0, TRUE), TRUE, "V"), Piece(Bit(1, TRUE), TRUE, Absent)>>),
                    WholeOf("b", FALSE)>>,
                  <<Piecewise("b", <<Piece(Bit(1, TRUE), FALSE, "off")>>)>>}}
    \cup {[Shifting EXCEPT !.op = "read", !.args = <<WholeOf("a", FALSE)>>, !.manual = {"b"}],
          [Shifting EXCEPT !.args = <<WholeOf("b", FALSE)>>, !.each = TRUE, !.en = FALSE],
          [Shifting EXCEPT !.args = <<WholeOf("b", FALSE)>>, !.manual = {"z"}],
          [Shifting EXCEPT !.op = "raw", !.bits = {0, 1}, !.manual = {"a", "b"}, !.vars = {"V"}],
          [Shifting EXCEPT !.op = "raw", !.bits = {2}, !.each = TRUE, !.vars = {"W"}]}
    \cup {[Shifting EXCEPT !.name = "x1", !.args = <<WholeOf("a", TRUE)>>, !.parts = <<Mapped("x", 0, Absent, <<1, 0>>)>>],
          [Shifting EXCEPT !.name = "x2", !.args = <<WholeOf("b", TRUE)>>,
                           !.parts = <<Mapped("x", 0, Absent, <<1, 0>>), Mapped("x", 2, Absent, <<3, 2>>)>>],
          [Shifting EXCEPT !.name = "x3", !.op = "raw", !.vars = {"X"}, !.bits = {3},
                           !.parts = <<Mapped("x", 0, "a", <<1, 0>>), Mapped("x", 2, "b", <<1, 0>>)>>]}
MCSpfConfs ==
    {[docs |-> d, labels |-> "auto", sets |-> TRUE] : d \in MCDocsOf}
    \cup {[docs |-> Everything, labels |-> l, sets |-> (l # "new")] : l \in {"plain", "new"}}

Families == {"STF", "PKT", "SPF", "TAP", "XREG", "UBP", "SIG", "GEN"}
MCActions == [f \in Families |->
                CASE f = "STF" -> MCStf [] f = "PKT" -> MCPkt [] f = "TAP" -> MCTap [] f = "SPF" -> MCSpf
                  [] f = "XREG" -> MCXreg [] f = "UBP" -> MCUbpScript
                  [] f = "SIG" -> MCSig [] f = "GEN" -> MCGen]
MCTeConfs == [f \in Families |->
                CASE f = "STF" -> TeConf
                  [] f = "SPF" -> MCSpfConfs
                  [] f = "XREG" -> MCXregConfs
                  [] f = "UBP" -> {[cluster |-> FALSE, cycles |-> FALSE], [cluster |-> TRUE, cycles |-> TRUE]}
                  [] f = "SIG" -> {[silicon |-> b, sync |-> b] : b \in BOOLEAN}
                  [] OTHER -> {[network |-> FALSE, auto |-> FALSE]}]
=============================================================================
