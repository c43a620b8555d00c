----------------------------- MODULE SnmpModel -----------------------------
(***************************************************************************)
(* desired_snmp and snmpd_conf (switch-model/src/snmp.rs): the checks of   *)
(* /snmp, and the lines of snmpd.conf; and /system (lib.rs).               *)
(*                                                                         *)
(* A configuration c is a record:                                          *)
(*   enabled    TRUE, FALSE or None                                        *)
(*   versions   a set of versions, or None                                 *)
(*   listen     a set of <<ip, port>>, where port may be None, or None for *)
(*              an entry without udp                                       *)
(*   engine_id  the number of octets, 0 if it is no hex, or None           *)
(*   users      function from names to [auth, priv]: the number of octets  *)
(*              of the key, 0 if it is no hex or not there in a container  *)
(*              that is, or None                                           *)
(*   views      function from names to [include, exclude], sets of OIDs    *)
(*   groups     function from names to [members, access]: a set of         *)
(*              [user, models] and a set of [model, level, view]           *)
(***************************************************************************)
EXTENDS Leaves, Naturals

CONSTANTS
    Words,     \* names of letters, digits, '-', '_' and '.' (check_name)
    Ipv4,      \* texts that are IPv4 addresses
    Oids,      \* texts that are numeric OIDs
    Lines      \* texts without control characters (check_line)

SnmpPort == 161
ShaKeyLen == 20
AesKeyLen == 16

-----------------------------------------------------------------------------
\* SnmpConfig and what it holds.
IsSnmpConfig(c) ==
    /\ c.enabled \in Opt(BOOLEAN)
    /\ c.engine_id \in Opt(Nat)
    /\ \A n \in DOMAIN c.users : {c.users[n].auth, c.users[n].priv} \subseteq Opt(Nat)
    /\ \A n \in DOMAIN c.groups :
          /\ \A m \in c.groups[n].members : DOMAIN m = {"user", "models"}
          /\ \A a \in c.groups[n].access : DOMAIN a = {"model", "level", "view"}
    /\ \A n \in DOMAIN c.views : DOMAIN c.views[n] = {"include", "exclude"}

\* engine_config
EngineOk(c) ==
    /\ c.enabled = TRUE => c.versions # None /\ "v3" \in c.versions /\ c.listen # {}
    /\ \A l \in c.listen : l # None /\ l[1] \in Ipv4
    /\ c.engine_id # None => c.engine_id \in 5..32

\* usm_user
UserOk(n, u) ==
    /\ n \in Words
    /\ u.auth = ShaKeyLen
    /\ u.priv \in {None, AesKeyLen, ShaKeyLen}

\* vacm_view
ViewOk(n, v) == n \in Words /\ v.include \cup v.exclude \subseteq Oids

\* vacm_group
GroupOk(c, n, g) ==
    /\ n \in Words
    /\ \A m \in g.members : m.models \subseteq {"usm"} /\ m.user \in DOMAIN c.users
    /\ \A a \in g.access :
          /\ a.model \in {"usm", "any"}
          /\ a.level \in {"auth-no-priv", "auth-priv"}
          /\ a.view # None => a.view \in DOMAIN c.views
          /\ a.level = "auth-priv" => \A m \in g.members : c.users[m.user].priv # None

\* What desired_snmp asks for while the engine is enabled.
Complete(c) ==
    /\ c.users # <<>>
    /\ \E n \in DOMAIN c.groups : c.groups[n].access # {}

\* Mutant of SnmpValid: a disabled engine is not looked at.
SnmpValidIfEnabled(c) ==
    c.enabled = TRUE
        => /\ EngineOk(c)
           /\ \A n \in DOMAIN c.users : UserOk(n, c.users[n])
           /\ \A n \in DOMAIN c.views : ViewOk(n, c.views[n])
           /\ \A n \in DOMAIN c.groups : GroupOk(c, n, c.groups[n])
           /\ Complete(c)

\* desired_snmp reports no error.
SnmpValid(c) ==
    /\ EngineOk(c)
    /\ \A n \in DOMAIN c.users : UserOk(n, c.users[n])
    /\ \A n \in DOMAIN c.views : ViewOk(n, c.views[n])
    /\ \A n \in DOMAIN c.groups : GroupOk(c, n, c.groups[n])
    /\ c.enabled = TRUE => Complete(c)

-----------------------------------------------------------------------------
\* SecurityLevel, as access lines have it.
Level(l) == IF l = "auth-priv" THEN "priv" ELSE "auth"

\* desired_snmp: what snmpd is to run with, None while the engine is disabled.
DesiredSnmp(c) ==
    IF c.enabled # TRUE THEN None
    ELSE [ engine_id |-> c.engine_id,
           listen |-> { <<l[1], OrElse(l[2], SnmpPort)>> : l \in c.listen },
           users |-> [n \in DOMAIN c.users |-> c.users[n].priv # None],
           views |-> c.views,
           groups |-> [ n \in DOMAIN c.groups |->
               [ members |-> { m.user : m \in c.groups[n].members },
                 access |-> { [level |-> Level(a.level), view |-> a.view] :
                                a \in c.groups[n].access } ] ] ]

\* Mutant of SnmpdConf: every access is for authenticated requests.
SnmpdConfAuthOnly(s) ==
    { <<"agentaddress", s.listen>> }
    \cup { <<"createUser", n, s.users[n]>> : n \in DOMAIN s.users }
    \cup UNION { { <<"view", n, o, TRUE>> : o \in s.views[n].include }
                 \cup { <<"view", n, o, FALSE>> : o \in s.views[n].exclude } :
                   n \in DOMAIN s.views }
    \cup UNION { { <<"group", n, u>> : u \in s.groups[n].members } : n \in DOMAIN s.groups }
    \cup UNION { { <<"access", n, "auth", OrElse(a.view, "none")>> :
                     a \in s.groups[n].access } : n \in DOMAIN s.groups }

\* snmpd_conf: the lines that depend on /snmp, a user's with whether it has a
\* privacy key.
SnmpdConf(s) ==
    { <<"agentaddress", s.listen>> }
    \cup { <<"createUser", n, s.users[n]>> : n \in DOMAIN s.users }
    \cup UNION { { <<"view", n, o, TRUE>> : o \in s.views[n].include }
                 \cup { <<"view", n, o, FALSE>> : o \in s.views[n].exclude } :
                   n \in DOMAIN s.views }
    \cup UNION { { <<"group", n, u>> : u \in s.groups[n].members } : n \in DOMAIN s.groups }
    \cup UNION { { <<"access", n, a.level, OrElse(a.view, "none")>> :
                     a \in s.groups[n].access } : n \in DOMAIN s.groups }

\* system_config: contact and location, one line each; empty ones are not set.
SystemOk(y) == {y.contact, y.location} \ {None, ""} \subseteq Lines
DesiredSystem(y) ==
    [f \in {"contact", "location"} |-> IF y[f] = "" THEN None ELSE y[f]]
=============================================================================
