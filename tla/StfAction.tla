------------------------------ MODULE StfAction ------------------------------
(***************************************************************************)
(* The STF action (actions_lib/htd_stf_action.py): it selects the stops of *)
(* a test network into groups and sends packets to the groups.  What it    *)
(* knows of the network is what the history manager remembers of earlier   *)
(* actions (stf_history), and the endpoints per group that the flow tracks *)
(* (stf_gid_track).  Verifying an action turns it into a list of ops and   *)
(* already records their effect; running it writes the ops to the SPF.     *)
(*                                                                         *)
(* Everything here is a function: from an action and what is known to its  *)
(* ops and what is known then, and from the ops to the state of the        *)
(* network.  ActionSession makes the steps.                                *)
(***************************************************************************)
EXTENDS Integers, Sequences, FiniteSets, SequencesExt

CONSTANTS
  Stops,        \* hubs and endpoints of the network
  Hubs,         \* those with a ring of their own
  Above,        \* stop -> the sequence of its hubs, from the controller down
  MaxGid,       \* groups that have a register spec are 1..MaxGid
  RingDelay,    \* hub -> what its child ring adds in parent and in child clocks
  StopDelay,    \* stop -> "DELAY"
  Deskew,       \* hub -> the size of its deskew FIFO, 5 if that is no number
  Fields,       \* fields of the register that write_read writes
  Default,      \* field -> its default
  FieldMax,     \* the largest value that fits a field
  Usrops,       \* user operations that it takes to map the whole register
  ActionAddr    \* its ACTION_ADDR: "H" or "L", or "" if it has none

\* TE_cfg: does SPF program the network by itself; STF_output_auto_en
TeConf == [network : BOOLEAN, auto : BOOLEAN]

None == -1
Gids == 0..MaxGid    \* 0 for none
Scratch == 1      \* scratchpad_gid, always in bank 0
Banks == {0, 1}
NumUsrops == 4
Modes == {"OUTPUT_ENABLED", "LISTEN_ONLY"}   \* valid_select_modes, shortened
Reset == "RESET_STF_NETWORK"

ASSUME NetworkAssumption ==
    /\ IsFiniteSet(Stops) /\ Hubs \subseteq Stops
    /\ Above \in [Stops -> Seq(Hubs)]
    /\ \A s \in Stops : \A i \in 1..Len(Above[s]) : Above[Above[s][i]] = SubSeq(Above[s], 1, i - 1)
    /\ MaxGid \in Nat /\ MaxGid > Scratch
    /\ RingDelay \in [Hubs -> Nat \X Nat]
    /\ StopDelay \in [Stops -> Nat] /\ Deskew \in [Hubs -> Nat]
    /\ FieldMax \in Nat
    /\ Default \in [Fields -> 0..FieldMax]
    /\ Usrops \in Nat \ {0} /\ ActionAddr \in {"H", "L", ""}

\* The names of register fields that are written: the output enable of a
\* bank, membership and response of a hub, its tracker, and the user's.
Oe(bank) == <<"oe", bank>>
Member(g) == <<"member", g>>
Responder(g) == <<"responder", g>>
User(f) == <<"user", f>>
Part(f) == <<"part", f>>      \* F[msb:lsb], a key of its own
RegFields == {Oe(b) : b \in Banks} \cup {Member(g) : g \in Gids \ {0}}
               \cup {Responder(g) : g \in Gids \ {0}} \cup {User(f) : f \in Fields}
               \cup {Part(f) : f \in Fields}
               \cup {<<"tracker", "delay">>, <<"tracker", "enable">>}

(***************************************************************************)
(* What the history manager holds under "stf_history".                     *)
(***************************************************************************)
NoHistory ==
    [bank    |-> [s \in Stops |-> [b \in Banks |-> None]],     \* s, "GID", bank
     members |-> [g \in Gids |-> [known |-> FALSE, of |-> {}]],   \* "GID", g
     count   |-> [s \in Hubs |-> [g \in Gids |-> 0]],          \* s, group_membership
     value   |-> [s \in Stops |-> [f \in RegFields |-> None]], \* s, register
     usrops  |-> [s \in Stops |-> [u \in 1..NumUsrops |-> None]],
     seq     |-> [s \in Stops |-> <<>>]]                       \* s, register, USROP_SEQ

\* init_stf_gid_track
NothingTracked == [g \in Gids |-> [m \in Modes |-> [b \in Banks |-> {}]]]

(***************************************************************************)
(* While an action is verified: the ops so far, the history, and whether   *)
(* an error was found, which rejects the action.                           *)
(***************************************************************************)
Begun(te, h) == [te |-> te, h |-> h, ops |-> <<>>, bad |-> FALSE]
Emit(w, op) == [w EXCEPT !.ops = Append(@, op)]
Error(w) == [w EXCEPT !.bad = TRUE]

SelectOp(s, g, b) == [op |-> "select", stop |-> s, gid |-> g, bank |-> b, mode |-> ""]
NopOp(g, num) == [op |-> "nop", gid |-> g, num |-> num]
WriteOp(stops, gids, data, read) ==
    [op |-> "write_read", stops |-> stops, gids |-> gids, data |-> data, read |-> read]

-----------------------------------------------------------------------------
(***************************************************************************)
(* Groups, as the history has them.                                        *)
(***************************************************************************)
Known(h, s) == \E b \in Banks : h.bank[s][b] # None    \* gids_for_agent
BankGids(h, s) == {h.bank[s][b] : b \in Banks}
AllOf(seq) == {seq[i] : i \in 1..Len(seq)}

\* gid_list_and_agents_match: every stop is in its group, the groups have no
\* stop in common, and the first of the stops is a member (the loop over the
\* stops returns in its first round).
Match(h, stops, gids) ==
    /\ stops # <<>>
    /\ \A i \in 1..Len(stops) : Known(h, stops[i]) /\ gids[i] \in BankGids(h, stops[i])
    /\ \A g \in AllOf(gids) : h.members[g].known
    /\ \A g, k \in AllOf(gids) : g # k => h.members[g].of \cap h.members[k].of = {}
    /\ stops[1] \in UNION {h.members[g].of : g \in AllOf(gids)}

\* common_gid_of_agents.  A set of small integers is listed in their order;
\* the least is taken, and when there are others it has to match at once: the
\* first that does not is an error, so no other is tried (GroupsOk).
CommonGids(h, stops) ==
    {g \in Gids \ {0} : \A i \in 1..Len(stops) : g \in BankGids(h, stops[i])}
AllIn(g, stops) == [i \in 1..Len(stops) |-> g]
CommonGid(h, stops) ==
    LET common == CommonGids(h, stops)
    IN  IF common = {} \/ \E i \in 1..Len(stops) : ~Known(h, stops[i]) THEN <<>>
        ELSE AllIn(CHOOSE g \in common : \A k \in common : g <= k, stops)

\* check_gid(required=0) or the common group, then are_agents_in_group.  Groups
\* are given as a list: an integer is the list of that integer for every stop,
\* and the error that the integer 1 alone is, the list of ones is not.
GroupsOf(h, a) == IF a.gids = <<>> THEN CommonGid(h, a.stops) ELSE a.gids
GroupsOk(h, a) ==
    LET gids == GroupsOf(h, a)
    IN  /\ Len(gids) = Len(a.stops)
        /\ Match(h, a.stops, gids)

-----------------------------------------------------------------------------
\* What is written over what was there.
Atop(new, old) ==
    [f \in DOMAIN new \cup DOMAIN old |-> IF f \in DOMAIN new THEN new[f] ELSE old[f]]

\* write_field_values: what is written is remembered as the stop's value.
Remember(h, stops, data) ==
    [h EXCEPT !.value =
       [s \in Stops |-> IF s \in AllOf(stops) THEN Atop(data, @[s]) ELSE @[s]]]
WriteFields(w, stops, gids, data, read) ==
    Emit([w EXCEPT !.h = Remember(@, stops, data)], WriteOp(stops, gids, data, read))
Write(w, s, g, data) == WriteFields(w, <<s>>, <<g>>, data, FALSE)

SetOe(w, s, b, g, val) == Write(w, s, g, [f \in {Oe(b)} |-> val])   \* set_oe_bif_oe

Nulls(w, num) == Emit(w, NopOp(0, num))

(***************************************************************************)
(* assign_gid_to_agent keeps two tables, the groups of a stop and the      *)
(* stops of a group.  When a stop leaves a group, it is taken from the     *)
(* group's list only if its two banks differ afterwards.                   *)
(***************************************************************************)
Join(h, g, s, b) ==
    [h EXCEPT !.members[g] = [known |-> TRUE, of |-> @.of \cup {s}],
              !.bank[s] = [k \in Banks |-> IF k = b THEN g
                                           ELSE IF @[k] = None THEN 0 ELSE @[k]]]
Leave(h, s, b, prev) ==
    LET gone == [h EXCEPT !.bank[s][b] = 0]
    IN  IF prev # 0 /\ gone.bank[s][0] # gone.bank[s][1]
          THEN [gone EXCEPT !.members[prev] = [known |-> TRUE, of |-> @.of \ {s}]]
          ELSE gone
Assign(w, g, s, b, prev, mode) ==
    Emit([w EXCEPT !.h = IF g # 0 THEN Join(@, g, s, b) ELSE Leave(@, s, b, prev),
                   \* list.remove of a stop that is not in the list
                   !.bad = @ \/ (g = 0 /\ prev # 0 /\ w.h.bank[s][1 - b] # 0
                                   /\ s \notin w.h.members[prev].of)],
         [SelectOp(s, g, b) EXCEPT !.mode = mode])

-----------------------------------------------------------------------------
(***************************************************************************)
(* determine_desired_hubs_state: what every hub on the way to the stops    *)
(* has to be programmed to, in an order in which they can be reached.      *)
(***************************************************************************)
\* setup_group_reg_info starts from the values that were written last.
Saved(h, hub, g) == IF h.value[hub][Member(g)] = None THEN 0 ELSE h.value[hub][Member(g)]
SetupHub(h, hub) == [g \in Gids \ {0} |-> Saved(h, hub, g)]

Way(s, g) ==
    LET down == Above[s] \o (IF s \in Hubs THEN <<s>> ELSE <<>>)
    IN  IF g = 0 THEN Reverse(down) ELSE down

\* plan: the hubs in order, and for each the membership it shall have and
\* the number of groups it is thought to carry.  A hub is set up again for
\* every stop, from the values written last; when the last stop of a group
\* goes the number is reduced, whether the hub was a member or not.
SetUp(p, hub, of, count, member, num) ==
    [p EXCEPT !.h.count[hub][of] = count,
              !.order = IF hub \in AllOf(@) THEN @ ELSE Append(@, hub),
              !.want[hub] = [SetupHub(p.h, hub) EXCEPT ![of] = member],
              !.num[hub] = num]
NumOf(was) == Cardinality({g \in DOMAIN was : g # Scratch /\ was[g] = 1})
PlanHubCountingOnce(p, hub, g, prev) ==   \* mutant: one stop per group is counted
    LET was == SetupHub(p.h, hub)
    IN  IF g # 0 THEN SetUp(p, hub, g, 1, 1, NumOf([was EXCEPT ![g] = 1]))
        ELSE SetUp(p, hub, prev, 0, 0, NumOf(was) - 1)
PlanHub(p, hub, g, prev) ==
    LET was  == SetupHub(p.h, hub)
        left == p.h.count[hub][prev] - 1
    IN  IF g # 0
          THEN SetUp(p, hub, g, p.h.count[hub][g] + 1, 1,
                     NumOf(was) + (IF was[g] = 1 THEN 0 ELSE 1))
        ELSE IF left < 1 THEN SetUp(p, hub, prev, left, 0, NumOf(was) - 1)
        ELSE SetUp(p, hub, prev, left, was[prev], NumOf(was))
PlanStop(p, s, g, b, prev) ==
    IF p.h.bank[s][b] = g THEN p
    ELSE FoldLeft(LAMBDA q, hub : PlanHub(q, hub, g, prev), p, Way(s, g))

PlanHubs(h, a, prevs) ==
    FoldLeft(LAMBDA p, i : PlanStop(p, a.stops[i], a.gids[i], a.bank, prevs[i]),
             [h |-> h, order |-> <<>>, want |-> [hub \in Hubs |-> SetupHub(h, hub)],
              num |-> [hub \in Hubs |-> 0]],
             [i \in 1..Len(a.stops) |-> i])

\* get_tracker_delay: how long an answer takes around the ring of a hub.
Children(hub) == {s \in Stops : Above[s] # <<>> /\ Last(Above[s]) = hub}
Delay(hub) ==
    1 + RingDelay[hub][1] + RingDelay[hub][2] + Deskew[hub]
      + MapThenSumSet(LAMBDA s : StopDelay[s], Children(hub))

\* A hub is programmed through the scratch group, in which it takes bank 0.
ProgramHub(w, hub, want, num) ==
    LET back    == IF w.h.bank[hub][0] = None THEN 0 ELSE w.h.bank[hub][0]
        enabled == w.h.bank[hub][0] # None /\ w.h.value[hub][Oe(0)] = 1
        on      == num > 0
        delay   == IF on THEN Delay(hub) ELSE 0
        answers == [f \in {Responder(g) : g \in Gids \ {0}} |->
                      IF f[2] = Scratch THEN 0 ELSE want[f[2]]]
        carried == [f \in {Member(g) : g \in Gids \ {0}} |->
                      IF f[2] = Scratch THEN (IF on THEN 1 ELSE 0) ELSE want[f[2]]]
        w1 == IF enabled THEN SetOe(w, hub, 0, back, 0) ELSE w
        w2 == Emit(w1, SelectOp(hub, Scratch, 0))
        w3 == Write(w2, hub, Scratch, [f \in {Member(Scratch)} |-> 0])
        w4 == Nulls(w3, delay + 1)
        w5 == Write(w4, hub, Scratch, [f \in {<<"tracker", "delay">>} |-> delay])
        w6 == Write(w5, hub, Scratch, [f \in {<<"tracker", "enable">>} |-> IF on THEN 1 ELSE 0])
        w7 == Write(w6, hub, Scratch, answers)
        w8 == Write(w7, hub, Scratch, carried)
        w9 == Emit(w8, SelectOp(hub, back, 0))
    IN  IF back # 0 /\ enabled THEN SetOe(w9, hub, 0, back, 1) ELSE w9

(***************************************************************************)
(* select.  A stop that is deselected (group 0) must have an entry for its *)
(* bank, which may be 0 already.                                           *)
(***************************************************************************)
PrevGid(h, a, i) == IF a.gids[i] = 0 THEN h.bank[a.stops[i]][a.bank] ELSE 0
SelectOk(h, a) ==
    /\ Len(a.gids) = Len(a.stops)
    /\ \A i \in 1..Len(a.stops) : PrevGid(h, a, i) # None
    /\ 0 \in AllOf(a.gids) => AllOf(a.gids) = {0}
    /\ a.mode = Reset => Len(a.stops) = 1

OffStop(w, a, prevs, i) ==
    LET s == a.stops[i]
        off == IF w.te.network THEN w ELSE SetOe(w, s, a.bank, prevs[i], 0)
    IN  Assign(off, 0, s, a.bank, prevs[i], a.mode)
OnStop(w, a, i) ==
    LET s == a.stops[i]
        put == Assign(w, a.gids[i], s, a.bank, 0, a.mode)
    IN  IF w.te.auto /\ ~w.te.network THEN SetOe(put, s, a.bank, a.gids[i], 1) ELSE put
SwitchOff(w, a, prevs) ==
    FoldLeft(LAMBDA v, i : IF a.gids[i] = 0 THEN OffStop(v, a, prevs, i) ELSE v,
             w, [i \in 1..Len(a.stops) |-> i])
SwitchOn(w, a) ==
    FoldLeft(LAMBDA v, i : IF a.gids[i] = 0 THEN v ELSE OnStop(v, a, i),
             w, [i \in 1..Len(a.stops) |-> i])

Select(w, a) ==
    LET prevs == [i \in 1..Len(a.stops) |-> PrevGid(w.h, a, i)]
        p     == PlanHubs(w.h, a, prevs)
        ready == IF w.te.network THEN w ELSE [w EXCEPT !.h = p.h]
        off   == SwitchOff(ready, a, prevs)
        hubs  == IF w.te.network THEN off
                 ELSE FoldLeft(LAMBDA v, hub : ProgramHub(v, hub, p.want[hub], p.num[hub]), off, p.order)
    IN  SwitchOn(hubs, a)

-----------------------------------------------------------------------------
(***************************************************************************)
(* write_read.  Fields that the action does not name are, in incremental   *)
(* mode, written again with what the history has for the first stop; else  *)
(* their default is remembered, whether the action writes or reads.        *)
(***************************************************************************)
Current(h, s, f, incremental) ==   \* get_incremental_or_default_value
    IF incremental /\ h.value[s][User(f)] # None THEN h.value[s][User(f)] ELSE Default[f]

Unnamed(a) == IF a.whole THEN {} ELSE {f \in Fields : a.read \/ User(f) \notin DOMAIN a.data}
Filled(h, a) == [k \in {User(f) : f \in Unnamed(a)} |->
                   Current(h, a.stops[1], k[2], a.incremental)]

DataOk(a) == \A k \in DOMAIN a.data : a.data[k] <= FieldMax
WriteRead(w, a) ==
    LET given == IF a.read THEN <<>> ELSE a.data
        gids  == GroupsOf(w.h, a)
        fill  == Filled(w.h, a)
    IN  IF a.incremental
          THEN WriteFields(w, a.stops, gids, Atop(given, fill), a.read)
          ELSE WriteFields([w EXCEPT !.h = Remember(@, a.stops, fill)],
                           a.stops, gids, given, a.read)

(***************************************************************************)
(* map_usrop: the register, or some addresses of it, is spread over        *)
(* consecutive user operations, which wrap around.                         *)
(***************************************************************************)
Addresses(a) ==
    IF a.partial # <<>> THEN a.partial
    ELSE IF ActionAddr = "L" THEN [i \in 1..Usrops |-> Usrops - i]
    ELSE [i \in 1..Usrops |-> i - 1]
UsropAt(a, i) == IF a.usrop + i - 1 > NumUsrops THEN a.usrop + i - 1 - NumUsrops
                 ELSE a.usrop + i - 1
UsropsOk(a) ==
    /\ Len(a.partial) <= Usrops
    /\ \A i \in 1..Len(a.partial) : a.partial[i] < Usrops
    /\ Len(Addresses(a)) <= NumUsrops
    /\ a.partial = <<>> /\ Usrops > 1 => ActionAddr # ""
MapUsrop(w, a) ==
    LET addrs == Addresses(a)
        used  == [i \in 1..Len(addrs) |-> UsropAt(a, i)]
        map   == [u \in AllOf(used) |->
                    addrs[CHOOSE i \in 1..Len(addrs) : used[i] = u]]
        h     == [w.h EXCEPT
                    !.seq = [s \in Stops |-> IF s \in AllOf(a.stops) THEN used ELSE @[s]],
                    !.usrops = [s \in Stops |-> IF s \in AllOf(a.stops)
                                  THEN [u \in 1..NumUsrops |->
                                          IF u \in DOMAIN map THEN map[u] ELSE @[s][u]]
                                  ELSE @[s]]]
    IN  Emit([w EXCEPT !.h = h],
             [op |-> "map_usrop", stops |-> a.stops, gids |-> GroupsOf(w.h, a), map |-> map])

(***************************************************************************)
(* replace expects an answer of 32 bits, lowest first, that is unknown     *)
(* where the action gives no output data.  A value for all of it stands as *)
(* the text of the number; one for a range moves what follows it if it has *)
(* more bits than the range.                                               *)
(***************************************************************************)
Unspecified == [i \in 1..32 |-> "X"]
From(seq, n) == SubSeq(seq, n, Len(seq))
WithOutput(out, r) ==
    LET width == r.msb - r.lsb + 1
        short == IF Len(r.bits) < width THEN width - Len(r.bits) ELSE 0
    IN  IF r.lsb < 0 \/ r.msb < 0 THEN r.bits \o From(out, Len(r.bits) + 1)
        ELSE SubSeq(out, 1, r.lsb) \o r.bits \o [i \in 1..short |-> 0] \o From(out, r.msb + 2)
OutputData(a) == IF a.inout THEN FoldLeft(WithOutput, Unspecified, a.output) ELSE <<>>

\* nop and replace send a packet to each distinct group, in order.
PacketOp(a, g) ==
    IF a.op = "nop" THEN NopOp(g, a.num)
    ELSE [op |-> "replace", gid |-> g, num |-> a.num, data |-> OutputData(a),
          to |-> IF a.to = <<>> THEN g ELSE a.to[1]]
Packets(w, a) ==
    LET groups == AllOf(GroupsOf(w.h, a))
    IN  FoldLeft(LAMBDA v, g : IF g \in groups THEN Emit(v, PacketOp(a, g)) ELSE v,
                 w, [i \in 1..MaxGid + 1 |-> i - 1])

(***************************************************************************)
(* verify_arguments, which both passes call before run.                    *)
(***************************************************************************)
OpOk(h, a) ==
    /\ a.wait >= 0      \* check_stf_waitcycles
    /\ CASE a.op = "select"     -> SelectOk(h, a)
         [] a.op = "null"       -> a.num > 0
         [] a.op = "nop"        -> GroupsOk(h, a) /\ a.num > 0
         [] a.op = "replace"    -> GroupsOk(h, a) /\ a.num > 0
         [] a.op = "map_usrop"  -> GroupsOk(h, a) /\ UsropsOk(a)
         [] a.op = "write_read" -> GroupsOk(h, a) /\ DataOk(a)
OpOf(w, a) ==
    CASE a.op = "select"     -> Select(w, a)
      [] a.op = "null"       -> Nulls(w, a.num)
      [] a.op \in {"nop", "replace"} -> Packets(w, a)
      [] a.op = "map_usrop"  -> MapUsrop(w, a)
      [] a.op = "write_read" -> WriteRead(w, a)
Waiting(w, num) == IF num > 0 THEN Nulls(w, num) ELSE w
VerifyStf(te, h, a) ==
    IF OpOk(h, a) THEN Waiting(OpOf(Begun(te, h), a), a.wait) ELSE Error(Begun(te, h))

-----------------------------------------------------------------------------
(***************************************************************************)
(* Running the ops.  What the SPF does to the network, external to this    *)
(* program: SELECT puts a bank of a stop into a group; a packet to a group *)
(* is heard by the stops in it whose hubs carry the group; and a grouping  *)
(* command replaces all groups.                                            *)
(***************************************************************************)
NoNetwork ==
    [bank     |-> [s \in Stops |-> [b \in Banks |-> 0]],
     value    |-> [s \in Stops |-> [f \in RegFields |-> IF f[1] = "user" THEN Default[f[2]] ELSE 0]],
     grouping |-> {},
     answer   |-> <<>>,     \* what the last replace expects, and for which group
     lost     |-> FALSE]    \* has a write missed its stop?

Hears(te, net, s, g) ==
  IF te.network THEN \E m \in Modes : \E b \in Banks : <<g, m, b, s>> \in net.grouping
  ELSE
    /\ g # 0 /\ g \in {net.bank[s][b] : b \in Banks}
    /\ \A i \in 1..Len(Above[s]) : net.value[Above[s][i]][Member(g)] = 1

\* The packet carries the whole register: what it does not set is default.
OnRegister(old, data) ==
    LET user == \E f \in Fields : User(f) \in DOMAIN data \/ Part(f) \in DOMAIN data
        field(f) == IF User(f) \in DOMAIN data THEN data[User(f)]
                    ELSE IF Part(f) \in DOMAIN data THEN data[Part(f)] ELSE Default[f]
        all == [k \in {User(f) : f \in Fields} |-> field(k[2])]
    IN  Atop(IF user THEN all ELSE <<>>, Atop(data, old))

Hit(te, net, op) == {i \in 1..Len(op.stops) : Hears(te, net, op.stops[i], op.gids[i])}
OnNetwork(te, net, op) ==
    CASE op.op = "select" -> [net EXCEPT !.bank[op.stop][op.bank] = op.gid]
      [] op.op = "write_read" ->
            LET hit == {op.stops[i] : i \in Hit(te, net, op)}
            IN  [net EXCEPT
                   !.value = [s \in Stops |-> IF s \in hit THEN OnRegister(@[s], op.data)
                                               ELSE @[s]],
                   \* group 0 is nobody: the output of an empty bank is switched off
                   !.lost = @ \/ \E i \in 1..Len(op.stops) : op.gids[i] # 0 /\ i \notin Hit(te, net, op)]
      [] op.op = "replace" -> [net EXCEPT !.answer = <<op.to, op.data>>]
      [] OTHER -> net

(***************************************************************************)
(* update_gid_tracking.  A stop leaves the other modes of the same group,  *)
(* not other groups; it is deselected in one mode only.                    *)
(***************************************************************************)
InMode(banks, op, m) ==
    [banks EXCEPT ![op.bank] = IF m = op.mode THEN @ \cup {op.stop} ELSE @ \ {op.stop}]
Tracked(t, op) ==
    IF op.mode = Reset THEN NothingTracked
    ELSE IF op.gid = 0
      THEN [g \in Gids |-> IF g = 0 THEN t[g]
                           ELSE [t[g] EXCEPT ![op.mode][op.bank] = @ \ {op.stop}]]
    ELSE [t EXCEPT ![op.gid] = [m \in Modes |-> InMode(t[op.gid][m], op, m)]]

\* stf_select prints all groups, those without a stop left out.
Grouping(t) == {x \in Gids \X Modes \X Banks \X Stops : x[4] \in t[x[1]][x[2]][x[3]]}

\* Of several ops only the last is printed, and it is counted among the
\* selects: an action that also waits prints none.
Selects(ops) == {i \in 1..Len(ops) : ops[i].op = "select"}
Prints(ops, i) == IF Len(ops) = 1 THEN TRUE ELSE Cardinality({j \in Selects(ops) : j < i}) = Len(ops) - 1

RunOp(r, ops, i) ==
    LET op == ops[i]
        t  == Tracked(r.track, op)
    IN  IF r.te.network /\ op.op = "select"
          THEN [r EXCEPT !.track = t,
                         !.net.grouping = IF op.mode = Reset THEN {}
                                          ELSE IF Prints(ops, i) THEN Grouping(t) ELSE @]
          ELSE [r EXCEPT !.net = OnNetwork(r.te, @, op)]
\* r: the settings, the network, and stf_gid_track.
RunOps(r, ops) ==
    FoldLeft(LAMBDA q, i : RunOp(q, ops, i), r, [i \in 1..Len(ops) |-> i])
=============================================================================
