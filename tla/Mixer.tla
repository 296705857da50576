-------------------------------- MODULE Mixer --------------------------------
(***************************************************************************)
(* The mixer of sqa-backend (mixer.rs): its channels by UUID, and how a    *)
(* configuration sent by a client or read from a save file is applied to   *)
(* the engine's channels and to JACK, channel by channel, with no way back *)
(* when a step in the middle fails.  The server ends and is started again  *)
(* with default channels that have the old names and new UUIDs.            *)
(*                                                                         *)
(* A port is its short name and what it is connected to.  The audio        *)
(* thread's table of channels (Channels) is left out, and so is an error   *)
(* of JACK other than those for a name that is taken or is not there.      *)
(* Engine indices are one-based.  The order in which a HashMap is iterated *)
(* is any order.                                                           *)
(***************************************************************************)
EXTENDS Integers, Sequences, FiniteSets, SequencesExt

CONSTANTS
    Uuids, Names,
    Sinks, NoSink,   \* names of physical ports, and one that no port has
    NoPatch, NoPort, NoConf,
    MaxChans,        \* capacity of the engine's table, which gives out one less
    Defaults,        \* by session: the channels default_config makes
    Requests,        \* the configurations that clients send
    MaxApplied       \* bound: configurations applied

VARIABLES
    session,
    chans, holes,    \* EngineContext: ports by index, free indices
    leaked,          \* names of ports that no index refers to any more
    channels, defs,  \* MixerContext
    saved,           \* the configuration in a save file
    asked, answer,   \* the last configuration and what became of it
    applied,         \* how many there were
    hist             \* history: what has happened in this session

engineVars == <<chans, holes, leaked>>
mixerVars == <<channels, defs>>
vars == <<session, engineVars, mixerVars, saved, asked, answer, applied, hist>>

Patches == Sinks \cup {NoSink, NoPatch}
Port == [name : Names, to : SUBSET Sinks]
Channel == [uuid : Uuids, name : Names, patch : Patches]
Conf == [channels : Seq(Channel), defs : SUBSET Uuids]
UuidsOf(conf) == {conf.channels[i].uuid : i \in DOMAIN conf.channels}
Happenings == {"replaced", "repatched", "failed"}

(* A channel for each physical port, if the server starts at all: as many   *)
(* as the engine takes, with UUIDs and names of their own (mixer.rs:45).   *)
IsDefault(d) ==
    /\ d \in Seq([uuid : Uuids, name : Names, patch : Sinks]) /\ Len(d) < MaxChans
    /\ \A i, j \in DOMAIN d : d[i].uuid = d[j].uuid \/ d[i].name = d[j].name => i = j

(* What a module that instantiates this one assumes of the constants. *)
MixerAssumption ==
    /\ NoSink \notin Sinks /\ NoPatch \notin Sinks \cup {NoSink}
    /\ NoPort \notin Port /\ NoConf \notin Conf
    /\ Requests \subseteq Conf
    /\ 1 \in DOMAIN Defaults /\ \A s \in DOMAIN Defaults : IsDefault(Defaults[s])
    /\ MaxChans \in Nat \ {0} /\ MaxApplied \in Nat

-----------------------------------------------------------------------------
(* The engine, as fields of the state st that process_config works on.     *)

Live(st, i) == i \in DOMAIN st.chans /\ st.chans[i] # NoPort
Taken(st, name) ==
    name \in st.leaked \/ \E i \in DOMAIN st.chans : Live(st, i) /\ st.chans[i].name = name
Fail(st) == [st EXCEPT !.ok = FALSE]

NewIndex(st) == IF st.holes # <<>> THEN Head(st.holes) ELSE Len(st.chans) + 1

(* new_channel registers the port before it looks for room. *)
NewChannel(st, name) ==
    IF Taken(st, name) THEN Fail(st)
    ELSE IF Len(st.chans) - Len(st.holes) = MaxChans - 1
    THEN Fail([st EXCEPT !.leaked = @ \cup {name}])
    ELSE LET port == [name |-> name, to |-> {}]
         IN IF st.holes # <<>>
            THEN [st EXCEPT !.chans[Head(st.holes)] = port, !.holes = Tail(@)]
            ELSE [st EXCEPT !.chans = Append(@, port)]

(* Mutant: the index is not free afterwards. *)
RemoveChannelNoHole(st, i) ==
    IF Live(st, i) THEN [st EXCEPT !.chans[i] = NoPort] ELSE Fail(st)
RemoveChannel(st, i) ==
    IF Live(st, i) THEN [st EXCEPT !.chans[i] = NoPort, !.holes = Append(@, i)] ELSE Fail(st)

SetShortName(st, i, name) ==
    IF st.chans[i].name # name /\ Taken(st, name) THEN Fail(st)
    ELSE [st EXCEPT !.chans[i].name = name]

Connect(st, i, patch) ==
    IF ~st.ok \/ patch = NoPatch THEN st
    ELSE IF patch \in Sinks THEN [st EXCEPT !.chans[i].to = @ \cup {patch}]
    ELSE Fail(st)

-----------------------------------------------------------------------------
(* process_config *)

(* First pass: a channel whose name the configuration gives to another     *)
(* UUID loses its port.                                                    *)
RemoveClash(st, u, new) ==
    IF st.ok /\ st.channels[u].name = new.name /\ u # new.uuid
    THEN [RemoveChannel(st, st.channels[u].eid) EXCEPT
            !.touched = @ \cup {u}, !.hist = @ \cup {"replaced"}]
    ELSE st
RemoveClashes(st, u, conf) == FoldLeft(LAMBDA s, new : RemoveClash(s, u, new), st, conf.channels)
FirstPass(st, order, conf) == FoldLeft(LAMBDA s, u : RemoveClashes(s, u, conf), st, order)

(* Second pass.  The patch that the mixer remembers is not changed. *)
Disconnect(st, i, patch) == [st EXCEPT !.chans[i].to = @ \ {patch}]
Repatch(st, c, new) ==
    IF ~st.ok \/ new.patch = c.patch THEN st
    ELSE Connect([Disconnect(st, c.eid, c.patch) EXCEPT !.hist = @ \cup {"repatched"}],
                 c.eid, new.patch)
Update(st, new) ==
    LET c == st.channels[new.uuid]
        renamed == IF new.name = c.name THEN st ELSE SetShortName(st, c.eid, new.name)
        known == IF renamed.ok THEN [renamed EXCEPT !.channels[new.uuid].name = new.name] ELSE renamed
    IN IF Live(st, c.eid)
       THEN [Repatch(known, c, new) EXCEPT !.touched = @ \cup {new.uuid}]
       ELSE Fail(st)

(* Mutant: the index of the new channel is the length of the table. *)
IndexAtEnd(st) == Len(st.chans) + 1
IndexOf(st) == NewIndex(st)
Add(st, new) ==
    LET made == NewChannel(st, new.name)
        connected == IF made.ok THEN Connect(made, NewIndex(st), new.patch) ELSE made
        entry == [uuid |-> new.uuid, name |-> new.name, patch |-> new.patch, eid |-> IndexOf(st)]
    IN IF connected.ok
       THEN [connected EXCEPT
                !.channels = [u \in DOMAIN @ \cup {new.uuid} |-> IF u = new.uuid THEN entry ELSE @[u]],
                !.touched = @ \cup {new.uuid}]
       ELSE connected

UpdateOrAdd(st, new) ==
    IF ~st.ok THEN st
    ELSE IF new.uuid \in DOMAIN st.channels THEN Update(st, new) ELSE Add(st, new)
SecondPass(st, conf) == FoldLeft(UpdateOrAdd, st, conf.channels)

(* Then: the defaults are those of the configuration that exist, and what  *)
(* the configuration does not name is removed.                             *)
(* Mutant: the defaults are taken as they are. *)
DefsAsGiven(st, conf) == conf.defs
DefsKept(st, conf) == conf.defs \cap st.touched
RemoveUntouched(st, u) ==
    IF st.ok /\ u \notin st.touched THEN RemoveChannel(st, st.channels[u].eid) ELSE st
RemoveRest(st, order) == FoldLeft(RemoveUntouched, st, order)
(* Mutant: channels that were removed stay in the map. *)
RetainedAll(st) == st.channels
Retained(st) == IF st.ok THEN [u \in DOMAIN st.channels \cap st.touched |-> st.channels[u]] ELSE st.channels

Context == [chans |-> chans, holes |-> holes, leaked |-> leaked, channels |-> channels,
            defs |-> defs, touched |-> {}, hist |-> hist, ok |-> TRUE]

(* The outcomes of process_config, one for each order of the map; channels *)
(* that the second pass added are touched, and the third leaves them.      *)
Outcomes(conf) ==
    {LET second == SecondPass(FirstPass(Context, order, conf), conf)
         third == RemoveRest([second EXCEPT !.defs = DefsKept(second, conf)], order)
     IN IF second.ok THEN [third EXCEPT !.channels = Retained(third)] ELSE second
     : order \in SetToSeqs(DOMAIN channels)}

ProcessConfig(conf) ==
    /\ applied < MaxApplied /\ applied' = applied + 1
    /\ \E st \in Outcomes(conf) :
          /\ chans' = st.chans /\ holes' = st.holes /\ leaked' = st.leaked
          /\ channels' = st.channels /\ defs' = st.defs
          /\ answer' = IF st.ok THEN "Ok" ELSE "Err"
          /\ hist' = st.hist \cup (IF st.ok THEN {} ELSE {"failed"})
    /\ asked' = UuidsOf(conf)

-----------------------------------------------------------------------------
(* default_config of session s *)
Started(s) ==
    LET d == Defaults[s]
    IN [chans |-> [i \in DOMAIN d |-> [name |-> d[i].name, to |-> {d[i].patch}]],
        channels |-> [u \in {d[i].uuid : i \in DOMAIN d} |->
            LET i == CHOOSE i \in DOMAIN d : d[i].uuid = u
            IN [uuid |-> u, name |-> d[i].name, patch |-> d[i].patch, eid |-> i]],
        defs |-> {d[i].uuid : i \in DOMAIN d}]

Init ==
    /\ session = 1
    /\ chans = Started(1).chans /\ holes = <<>> /\ leaked = {}
    /\ channels = Started(1).channels /\ defs = Started(1).defs
    /\ saved = NoConf
    /\ asked = Started(1).defs /\ answer = "Ok" /\ applied = 0
    /\ hist = {}

SetMixerConf(conf) ==
    /\ ProcessConfig(conf)
    /\ UNCHANGED <<session, saved>>

(* obtain_config, as it is written to a save file *)
ObtainConfig ==
    [channels |-> SetToSeq({[uuid |-> u, name |-> channels[u].name, patch |-> channels[u].patch]
                            : u \in DOMAIN channels}),
     defs |-> defs]
Save ==
    /\ saved' = ObtainConfig
    /\ UNCHANGED <<session, engineVars, mixerVars, asked, answer, applied, hist>>

Load ==
    /\ saved # NoConf
    /\ ProcessConfig(saved)
    /\ UNCHANGED <<session, saved>>

Restart ==
    /\ session + 1 \in DOMAIN Defaults /\ session' = session + 1
    /\ chans' = Started(session').chans /\ holes' = <<>> /\ leaked' = {}
    /\ channels' = Started(session').channels /\ defs' = Started(session').defs
    /\ asked' = Started(session').defs /\ answer' = "Ok" /\ hist' = {}
    /\ UNCHANGED <<saved, applied>>

Next == (\E conf \in Requests : SetMixerConf(conf)) \/ Save \/ Load \/ Restart

Spec == Init /\ [][Next]_vars

-----------------------------------------------------------------------------
(* Properties *)

TypeOK ==
    /\ session \in DOMAIN Defaults
    /\ chans \in Seq(Port \cup {NoPort}) /\ Len(chans) <= MaxChans
    /\ IsInjective(holes) /\ ToSet(holes) = {i \in DOMAIN chans : chans[i] = NoPort}
    /\ leaked \subseteq Names
    /\ DOMAIN channels \subseteq Uuids
    /\ \A u \in DOMAIN channels :
          channels[u] \in [uuid : {u}, name : Names, patch : Patches, eid : DOMAIN chans]
    /\ saved = NoConf \/ saved \in Conf
    /\ asked \subseteq Uuids /\ answer \in {"Ok", "Err"} /\ applied \in 0..MaxApplied /\ hist \subseteq Happenings

(* The default channels exist: a new audio action that is patched to them  *)
(* (actions/audio.rs:200) can be loaded, whatever configurations came      *)
(* before and wherever they failed.                                        *)
DefsExist == defs \subseteq DOMAIN channels

(* Each channel has a live port to itself, under its name, and no port is  *)
(* without a channel, as long as no configuration has failed or given the  *)
(* name of a channel to another: these leave the mixer broken until the    *)
(* server is started again (mixer.rs:101, 121).  Until a patch is changed, *)
(* which the mixer does not remember (mixer.rs:113), the port is connected *)
(* to the channel's patch and to nothing else.                             *)
PortsAreChannels ==
    hist \subseteq {"repatched"} =>
      /\ leaked = {}
      /\ \A u \in DOMAIN channels :
            LET c == channels[u]
            IN /\ c.eid \in DOMAIN chans /\ chans[c.eid] # NoPort /\ chans[c.eid].name = c.name
               /\ hist = {} => chans[c.eid].to = {c.patch} \cap Sinks
      /\ \A i \in DOMAIN chans : chans[i] # NoPort =>
            Cardinality({u \in DOMAIN channels : channels[u].eid = i}) = 1

(* A configuration that was applied is the one the mixer has, unless it    *)
(* gave a name to another channel.                                         *)
AppliedIsAsked == answer = "Ok" /\ "replaced" \notin hist => DOMAIN channels = asked
=============================================================================
