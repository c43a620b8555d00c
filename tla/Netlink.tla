------------------------------ MODULE Netlink ------------------------------
(***************************************************************************)
(* NetlinkBackend (switch-net/src/netlink.rs): observe and apply, as the   *)
(* round trips to the kernel that they are made of.  The kernel answers a  *)
(* request when it is sent; the answers wait in the socket, also those of  *)
(* a call that has given up.  Links are known to the kernel by index, to   *)
(* the plugin by name, and others may delete and create them at any time.  *)
(***************************************************************************)
EXTENDS Kernel, Sequences

CONSTANTS
    Ops,          \* the operations that plans have
    Start,        \* the kernels that the backend may find
    Ports,        \* NetlinkBackend.ports: the switch ports, or NoLink by default
    Lease,        \* an address that a DHCP client may have
    SeqMod,       \* sequence numbers wrap around here, in the code at 2^32
    MaxIndex,     \* bound on the links that operations create
    MaxChanges,   \* bound on the changes that others make
    MaxFailures   \* bound on the calls in a row that give up

\* A sequence number comes again only after its answers have left the socket: an
\* answer that was received in full had all earlier ones before it, so those that
\* are left are of the last request of each of the calls in a row that gave up.
ASSUME NetlinkAssumption ==
    /\ {SeqMod, MaxIndex, MaxChanges, MaxFailures} \subseteq Nat
    /\ SeqMod > MaxFailures + 1

VARIABLES
    kernel,
    index,       \* the indexes of the links that exist
    next,        \* the index that the next link gets
    handover,    \* whether the kernel can leave spanning tree to mstpd: it knows
                 \* stp_mode, or has a /sbin/bridge-stp that works
    socket,      \* the messages to receive
    seq,         \* NetlinkBackend.seq
    call,        \* the call in progress, or Idle: [fn, op, todo, found], where
                 \*   fn     "observe" or "apply", of op
                 \*   todo   its requests; the first has been sent
                 \*   found  what the requests before have answered
    outcome,     \* of the last call: "ok", "error", or "none" before it returns
    observed,    \* the ActualState, when the last call has observed one
    start,       \* history: the kernel when the call began
    moments,     \* history: the kernels, with indexes, while observe runs
    others,      \* history: what others changed during the call
    changes,
    failures

world == <<kernel, index, next, handover>>
history == <<start, moments, others, changes, failures>>
vars == <<world, socket, seq, call, outcome, observed, history>>

Unknown == [links |-> <<>>, vlans |-> <<>>, static |-> <<>>, dhcp |-> <<>>]

Idle == [fn |-> "idle", op |-> <<>>, todo |-> <<>>, found |-> <<>>]

Init ==
    /\ kernel \in Start
    /\ LET size == Cardinality(DOMAIN kernel.links)
       IN  index = (CHOOSE f \in Injection(DOMAIN kernel.links, 1..size) : TRUE) /\ next = size + 1
    /\ handover \in BOOLEAN
    /\ socket = <<>>
    /\ seq = 0
    /\ call = Idle
    /\ outcome = "none" /\ observed = Unknown
    /\ start = kernel /\ moments = {} /\ others = {}
    /\ changes = 0 /\ failures = 0

-----------------------------------------------------------------------------
(***************************************************************************)
(* The kernel's side: what it reports, and how it answers.                 *)
(***************************************************************************)

\* A NewLink message, with other links by their index, 0 for none, and a
\* NewAddress message.
IndexOf(n) == IF n \in DOMAIN index THEN index[n] ELSE 0
NewLink(n, vlans) ==
    LET l == kernel.links[n]
    IN  [ type |-> "NewLink", index |-> index[n], name |-> n, up |-> l.up,
          master |-> IndexOf(l.master), vlans |-> vlans,
          kind |-> CASE l.kind.type = "dsa" -> [l.kind EXCEPT !.conduit = IndexOf(@)]
                     [] l.kind.type = "vlan" -> [l.kind EXCEPT !.parent = IndexOf(@)]
                     [] OTHER -> l.kind ]
NewAddress(n) ==
    [type |-> "NewAddress", index |-> index[n], static |-> kernel.static[n], dhcp |-> kernel.dhcp[n]]

\* The replies to a dump.
Dump(table) ==
    CASE table = "links" -> { NewLink(n, NoVlans) : n \in DOMAIN index }
      [] table = "vlans" -> { NewLink(n, kernel.vlans[n]) : n \in DOMAIN index }
      [] table = "addresses" -> { NewAddress(n) : n \in DOMAIN index }

\* The messages of an answer: its replies, if there are any, and what ends it.
Answer(s, replies, end) ==
    (IF replies = {} THEN <<>> ELSE << [seq |-> s, type |-> "inner", body |-> replies] >>)
    \o << [seq |-> s, type |-> end, body |-> {}] >>

\* The kernel carries out op, of which it assigns an index to a new link.
Modified(op) ==
    LET k == IF op[1] = "SetStp"
             THEN [kernel EXCEPT !.links[op[2]].kind.stp =
                      IF op[3] # "kernel" THEN op[3] ELSE IF handover THEN "user" ELSE "kernel"]
             ELSE Apply(kernel, op)
        new == DOMAIN k.links \ DOMAIN kernel.links
    IN  /\ kernel' = k
        /\ index' = [n \in DOMAIN k.links |-> IF n \in new THEN next ELSE index[n]]
        /\ next' = next + Cardinality(new)
        /\ UNCHANGED handover

-----------------------------------------------------------------------------
(***************************************************************************)
(* The requests of a call.                                                 *)
(***************************************************************************)

\* The links that op looks up, in this order, before it is sent.
Lookups(op) ==
    CASE op[1] = "CreateBridge" -> <<>>
      [] op[1] = "CreateVlan" -> <<Br>>
      [] op[1] = "SetMaster" /\ op[3] # NoLink -> <<op[3], op[2]>>
      [] OTHER -> <<op[2]>>

Modify(op) ==
    Append([i \in DOMAIN Lookups(op) |-> <<"index", Lookups(op)[i]>>], <<"modify", op>>)

\* set_stp_state, and the first request that hands spanning tree over.
SetStp(n, x) == Modify(<<"SetStp", n, x>>)

IsHandover(op) == op[1] = "SetBridgeStp" /\ op[3]

\* apply
Requests(op) ==
    IF IsHandover(op)
    THEN SetStp(op[2], "off") \o SetStp(op[2], "kernel") \o << <<"dump", "links">> >>
    ELSE Modify(op)

Observation == << <<"dump", "links">>, <<"dump", "vlans">>, <<"dump", "addresses">> >>

\* Whether the links that op looked up last still have the indexes found then.
Current(op, found) ==
    LET names == Lookups(op)
        from == Len(found) - Len(names)
    IN  \A i \in DOMAIN names :
           names[i] \in DOMAIN index /\ index[names[i]] = found[from + i].index

Accepted(op) ==
    IF op[1] = "SetStp" THEN IsKind(kernel, op[2], "bridge") ELSE Accepts(kernel, op)

\* request, up to the loop: the first request of c is sent, with the messages
\* left in the socket before its answer.
Send(c, left) ==
    LET r == Head(c.todo)
        s == (seq + 1) % SeqMod
    IN  /\ call' = c
        /\ seq' = s
        /\ IF r[1] = "modify" /\ Current(r[2], c.found) /\ Accepted(r[2])
           THEN Modified(r[2]) /\ socket' = left \o Answer(s, {}, "ack")
           ELSE /\ UNCHANGED world
                /\ socket' = left \o
                      CASE r[1] = "dump" -> Answer(s, Dump(r[2]), "done")
                        [] r[1] = "index" /\ r[2] \in DOMAIN index ->
                              Answer(s, {NewLink(r[2], NoVlans)}, "ack")
                        [] OTHER -> Answer(s, {}, "error")

\* The kernel that a step leaves while fn runs.
Moment(fn) == IF fn = "observe" THEN {[kernel |-> kernel', index |-> index']} ELSE {}

\* A call begins.
Begin(fn, op, rs) ==
    /\ call = Idle
    /\ Send([fn |-> fn, op |-> op, todo |-> rs, found |-> <<>>], socket)
    /\ outcome' = "none" /\ observed' = Unknown
    /\ start' = kernel
    /\ moments' = Moment(fn)
    /\ others' = {}
    /\ UNCHANGED <<changes, failures>>

Observe == Begin("observe", <<>>, Observation)
ApplyOp(op) ==
    /\ op[1] \in {"CreateBridge", "CreateVlan"} => next < MaxIndex
    /\ Begin("apply", op, Requests(op))

-----------------------------------------------------------------------------
(***************************************************************************)
(* What observe makes of the tables it has dumped.                         *)
(***************************************************************************)

\* `names`: the name that the link dump has for index i.
NameOf(links, i) ==
    IF \E l \in links : l.index = i
    THEN (CHOOSE l \in links : l.index = i).name
    ELSE NoLink

\* link_kind, and the kind that the override of the switch ports gives.
KindOf(links, l) ==
    CASE l.kind.type = "dsa" -> [l.kind EXCEPT !.conduit = NameOf(links, @)]
      [] l.kind.type = "vlan" ->
            IF NameOf(links, l.kind.parent) = NoLink THEN Other
            ELSE [l.kind EXCEPT !.parent = NameOf(links, @)]
      [] OTHER -> l.kind
Override(n, kind) ==
    CASE Ports = NoLink -> kind
      [] Ports # NoLink /\ kind.type = "dsa" /\ n \notin Ports -> Other
      [] Ports # NoLink /\ kind.type = "other" /\ n \in Ports -> Dsa(NoLink)
      [] OTHER -> kind

\* The entry of a table for the link that is called n in the link dump, or none.
Entry(links, table, n, default) ==
    IF \E t \in table : NameOf(links, t.index) = n
    THEN CHOOSE t \in table : NameOf(links, t.index) = n
    ELSE default

\* The ActualState.
Observed(links, vlans, addresses) ==
    [ links |-> [n \in { l.name : l \in links } |->
                    LET l == CHOOSE m \in links : m.name = n
                    IN  [ kind |-> Override(n, KindOf(links, l)), up |-> l.up,
                          master |-> NameOf(links, l.master) ]],
      vlans |-> [n \in Names |-> Entry(links, vlans, n, [vlans |-> NoVlans]).vlans],
      static |-> [n \in Names |-> Entry(links, addresses, n, [static |-> {}]).static],
      dhcp |-> [n \in Names |-> Entry(links, addresses, n, [dhcp |-> {}]).dhcp] ]

-----------------------------------------------------------------------------
(***************************************************************************)
(* The loop of request.  It may take several datagrams, but what they say  *)
(* was settled when the kernel answered.                                   *)
(***************************************************************************)

\* Mutant of Mine: the sequence number is not looked at.
MineAll(m) == TRUE

\* Whether a message answers the request that was sent last; others are skipped.
Mine(m) == m.seq = seq

\* The position of the message that ends the loop, 0 if it is not there.
End ==
    LET ends == { i \in DOMAIN socket : Mine(socket[i]) /\ socket[i].type # "inner" }
    IN  IF ends = {} THEN 0 ELSE CHOOSE i \in ends : \A j \in ends : i <= j

\* The replies of the type asked for, when the loop ends with message e.
Wanted == IF call.todo[1] = <<"dump", "addresses">> THEN "NewAddress" ELSE "NewLink"
Replies(e) ==
    { r \in UNION { socket[i].body : i \in { j \in 1..(e - 1) : Mine(socket[j]) } } :
        r.type = Wanted }

\* Mutant of KernelStp: what the kernel made of the request is not looked at.
KernelStpUnchecked(op, links) == FALSE

\* The bridge of op in a dump of the links runs the kernel's spanning tree.
KernelStp(op, links) ==
    \E l \in links : l.name = op[2] /\ l.kind.type = "bridge" /\ l.kind.stp = "kernel"

\* index finds no link in the answer.
NoSuchLink(e) == Head(call.todo)[1] = "index" /\ Replies(e) = {}

\* The call after the answer to its first request.
Answered(replies) ==
    LET r == Head(call.todo)[1]
    IN  [ call EXCEPT
            !.todo = Tail(@) \o
                IF call.fn = "apply" /\ r = "dump" /\ KernelStp(call.op, replies)
                THEN SetStp(call.op[2], "off") ELSE <<>>,
            !.found = Append(@, CASE r = "dump" -> replies
                                  [] r = "index" -> CHOOSE l \in replies : TRUE
                                  [] OTHER -> [index |-> 0]) ]

\* The call returns.
Return(r) ==
    /\ call' = Idle
    /\ outcome' = r
    /\ start' = kernel /\ moments' = {} /\ others' = {}
    /\ UNCHANGED <<world, changes>>

\* The answer is there: the call goes on with its next request, or returns what
\* it has observed, or that it was done, or that spanning tree was not handed over.
Receive ==
    /\ call # Idle
    /\ LET e == End
           c == Answered(Replies(e))
           left == SubSeq(socket, e + 1, Len(socket))
       IN  /\ e # 0
           /\ socket[e].type # "error" /\ ~NoSuchLink(e)
           /\ \/ /\ c.todo # <<>>
                 /\ Send(c, left)
                 /\ moments' = moments \cup Moment(c.fn)
                 /\ UNCHANGED <<outcome, observed, start, others, changes, failures>>
              \/ /\ c.todo = <<>> /\ c.fn = "observe"
                 /\ Return("ok")
                 /\ observed' = Observed(c.found[1], c.found[2], c.found[3])
                 /\ socket' = left
                 /\ failures' = 0
                 /\ UNCHANGED seq
              \/ /\ c.todo = <<>> /\ c.fn = "apply"
                 /\ Return(IF IsHandover(c.op) /\ KernelStp(c.op, c.found[5])
                           THEN "error" ELSE "ok")
                 /\ socket' = left
                 /\ failures' = 0
                 /\ UNCHANGED <<seq, observed>>

\* Mutant of ReceiveError: the request is sent again.
ReceiveErrorRetries ==
    /\ call # Idle
    /\ End # 0
    /\ socket[End].type = "error" \/ NoSuchLink(End)
    /\ Send(call, SubSeq(socket, End + 1, Len(socket)))
    /\ UNCHANGED <<outcome, observed, history>>

\* The kernel has rejected the request, or knows no link of that name.
ReceiveError ==
    /\ call # Idle
    /\ End # 0
    /\ socket[End].type = "error" \/ NoSuchLink(End)
    /\ Return("error")
    /\ socket' = SubSeq(socket, End + 1, Len(socket))
    /\ failures' = 0
    /\ UNCHANGED <<seq, observed>>

\* A datagram is lost or cannot be decoded: the call gives up, and what it has
\* not received yet stays in the socket.
ReceiveFails ==
    /\ call # Idle
    /\ failures < MaxFailures
    /\ Return("error")
    /\ \E n \in 0..Len(socket) : socket' = SubSeq(socket, n + 1, Len(socket))
    /\ failures' = failures + 1
    /\ UNCHANGED <<seq, observed>>

\* A request cannot be sent, the first of a call or one after an answer.
SendFails ==
    /\ failures < MaxFailures
    /\ \/ call = Idle /\ UNCHANGED socket
       \/ /\ call # Idle /\ End # 0
          /\ socket[End].type # "error" /\ ~NoSuchLink(End)
          /\ Answered(Replies(End)).todo # <<>>
          /\ socket' = SubSeq(socket, End + 1, Len(socket))
    /\ Return("error")
    /\ seq' = (seq + 1) % SeqMod
    /\ failures' = failures + 1
    /\ observed' = Unknown

-----------------------------------------------------------------------------
(***************************************************************************)
(* Others change the kernel.                                               *)
(***************************************************************************)

\* A change between two calls is for the second as one before the first ends.
Changed(what) ==
    /\ call # Idle
    /\ changes < MaxChanges
    /\ changes' = changes + 1
    /\ others' = others \cup {what}
    /\ moments' = moments \cup Moment(call.fn)
    /\ UNCHANGED <<handover, socket, seq, call, outcome, observed, start, failures>>

\* A DHCP client sets or removes its address.
AddressChanges(n) ==
    /\ IsKind(kernel, n, "vlan")
    /\ kernel' = [kernel EXCEPT !.dhcp[n] = IF @ = {} THEN {Lease} ELSE {}]
    /\ UNCHANGED <<index, next>>
    /\ Changed("address")

\* A link goes, or is replaced by a new one of its name.
LinkGoes(n) ==
    /\ Exists(kernel, n)
    /\ kernel' = WithoutLink(kernel, n)
    /\ index' = Restrict(index, DOMAIN kernel'.links)
    /\ UNCHANGED next
    /\ Changed("link")

LinkReplaced(n) ==
    /\ Exists(kernel, n)
    /\ kernel' = AddLink(WithoutLink(kernel, n), n, kernel.links[n].kind)
    /\ index' = [m \in DOMAIN kernel'.links |-> IF m = n THEN next ELSE index[m]]
    /\ next' = next + 1
    /\ Changed("link")

CallGoesOn == Receive \/ ReceiveError

Next ==
    \/ Observe
    \/ \E op \in Ops : ApplyOp(op)
    \/ Receive
    \/ ReceiveError
    \/ ReceiveFails
    \/ SendFails
    \/ \E n \in Names : AddressChanges(n)
    \/ \E n \in Names : LinkGoes(n)
    \/ \E n \in Names : LinkReplaced(n)

\* The kernel has answered when a request has been sent, and the backend's thread
\* reads the answer.
Spec == Init /\ [][Next]_vars /\ WF_vars(CallGoesOn)

-----------------------------------------------------------------------------
\* The kernel, with the override of the switch ports.
Seen(k) ==
    [k EXCEPT !.links = [n \in DOMAIN k.links |->
                            [k.links[n] EXCEPT !.kind = Override(n, @)]]]

Ends(fn) == call.fn = fn /\ call' = Idle

\* "Synchronous: ... every request is a short round trip" (netlink.rs:3-4), but
\* observe is three of them: unless links came or went meanwhile, it still reports
\* one kernel, as it was at some moment of the call, leases that change
\* notwithstanding, whatever answers earlier calls left in the socket.  And also
\* when links came and went, what it reports of a name is of the one link that had
\* it in the link dump: never the VLANs of one link and the addresses of another
\* that took its name.
ObservesOneKernel ==
    [][Ends("observe") /\ outcome' = "ok"
          => /\ "link" \notin others => \E m \in moments : observed' = Seen(m.kernel)
             /\ \A l \in call.found[1] :
                   LET of == { m \in moments : l.name \in DOMAIN m.index
                                                /\ m.index[l.name] = l.index }
                   IN  /\ observed'.vlans[l.name] \in { m.kernel.vlans[l.name] : m \in of } \cup {NoVlans}
                       /\ observed'.static[l.name] \in { m.kernel.static[l.name] : m \in of } \cup {{}}
                       /\ observed'.dhcp[l.name] \in { m.kernel.dhcp[l.name] : m \in of } \cup {{}}]_vars

\* What reconcile takes an operation for: one that reports success was carried
\* out, and all of it; one that reports an error left one of the kernels that
\* AfterFailure names, unless others changed links meanwhile.  And when "the kernel
\* did not leave spanning tree to mstpd" (netlink.rs:489), the bridge is left
\* without spanning tree, not with the kernel's, unless the call gave up half way.
AppliesOrFails ==
    [][Ends("apply") /\ others = {}
          => /\ IF outcome' = "ok"
                THEN Accepts(start, call.op) /\ kernel = Apply(start, call.op)
                ELSE kernel \in AfterFailure(start, call.op)
             /\ IsHandover(call.op) /\ failures' = 0 /\ IsKind(kernel, call.op[2], "bridge")
                => kernel.links[call.op[2]].kind.stp = IF outcome' = "ok" THEN "user" ELSE "off"]_vars

\* A call returns: the answer it waits for is always under way, although request
\* has no timeout.
CallReturns == call # Idle ~> call = Idle
=============================================================================
