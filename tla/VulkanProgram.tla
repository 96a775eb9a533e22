---------------------------- MODULE VulkanProgram ---------------------------
(***************************************************************************)
(* A cheatah program on the generated Vulkan surface. The program holds    *)
(* nothing but tokens (long long); it calls the long long overloads, keeps *)
(* what they hand out with token(), and releases each handle with the      *)
(* command its @destroy note names. It loads the function pointers as      *)
(* gpu/vulkan/loader.hpp says, right after it created an instance or its   *)
(* device; the test suite instead has several devices and loads each for a *)
(* moment to probe it. The driver and the volk loader are external: what   *)
(* they do is modelled as far as the surface depends on it.                *)
(*                                                                         *)
(* An object of the driver is a pair <<kind, word>>: handles of different  *)
(* kinds may be the same word.                                             *)
(***************************************************************************)
EXTENDS VulkanHandles, FiniteSets, Sequences

CONSTANTS Commands,   \* what each #ifdef guard of commands.hpp adds: name -> entry
          Builds,     \* the sets of guards the Vulkan headers may define
          Programs,   \* the kinds of objects a program makes: a choice of sets of kinds
          Words,      \* kind -> the words the driver uses for its handles
          Numbers,    \* the numbers the program passes
          MaxHeld     \* bound: tokens the program holds at once

ASSUME WordsAssumption ==
    /\ \A k \in DOMAIN Words : Words[k] \subseteq 1 .. W64 - 1
    /\ \A kinds \in Programs : kinds \subseteq DOMAIN Words

ASSUME NumbersAssumption == Numbers \subseteq LongLong

ASSUME MaxHeldAssumption == MaxHeld \in Nat

VARIABLES build,     \* the guards of this build
          uses,      \* the kinds of objects this program makes
          suite,     \* it has several devices and probes them, as the tests do, or loads its only one
          probing,   \* the suite is loading one device after another
          volk,      \* the instance and the device the function pointers lead to
          objects,   \* the driver's live objects: what each is inside of, and whether it was lent
          held,      \* the tokens the program holds; maker and object are what it knows of them
          faults     \* what went wrong at a call

vars == <<build, uses, suite, probing, volk, objects, held, faults>>

Trampoline == <<"trampoline", 0>>   \* device commands look up the device they are given
Stale == <<"stale", 0>>             \* pointers of a driver that is gone

Roles == {"call", "make", "lend", "free"}

\* The commands a build compiles.
CommandsOf == [b \in Builds |->
                 [c \in UNION {DOMAIN Commands[g] : g \in b} |->
                    Commands[CHOOSE g \in b : c \in DOMAIN Commands[g]][c]]]

ByRole == [b \in Builds |-> [r \in Roles |-> {c \in DOMAIN CommandsOf[b] : CommandsOf[b][c].does = r}]]

Available == CommandsOf[build]

Does(role) == ByRole[build][role]

IsHandle(type) == type \notin NumberTypes \cup {"f32"}

\* What a create-info struct adds to what the new object is inside of.
StructField == [CommandBuffer |-> "CommandPool", DescriptorSet |-> "DescriptorPool",
                SwapchainKHR |-> "SurfaceKHR"]

\* These end with the pool they came from.
Pooled == {"CommandBuffer", "DescriptorSet"}

\* Handle parameters for which VK_NULL_HANDLE is allowed.
Optional == {"Fence", "Semaphore", "PipelineCache"}

\* The kinds whose objects Vulkan dispatches on: every command but the global ones starts with one.
Dispatched == {"Instance", "PhysicalDevice", "Device", "Queue", "CommandBuffer"}

\* The command of a build that releases a handle of this kind, which `maker` made: the one the note
\* of its maker names or, where there is no note, one that takes handles of the kind back.
Releaser(b, maker, kind) ==
    IF maker \in DOMAIN CommandsOf[b] /\ CommandsOf[b][maker].note # "none"
    THEN CommandsOf[b][maker].note
    ELSE CHOOSE c \in ByRole[b].free : CommandsOf[b][c].kind = kind

\* Command d releases handles of this kind and needs no other handle than these.
Releases(b, d, kind, needs) ==
    /\ d \in DOMAIN CommandsOf[b] /\ CommandsOf[b][d].kind = kind
    /\ \A i \in DOMAIN CommandsOf[b][d].in :
          IsHandle(CommandsOf[b][d].in[i]) => CommandsOf[b][d].in[i] \in {kind} \cup needs

\* What every build of the generated surface provides: a command is dispatched on its first handle,
\* what creates a handle is released by a command that needs no more than what created it, what
\* lends one does so from handles that are there, and only vkCreateInstance starts from nothing.
ASSUME CommandsAssumption ==
    \A b \in Builds : \A c \in DOMAIN CommandsOf[b] :
        LET in == CommandsOf[b][c].in
            kind == CommandsOf[b][c].kind
        IN  /\ in \in Seq(STRING)
            /\ in # <<>> => in[1] \in Dispatched
            /\ c \in ByRole[b].make \cup ByRole[b].lend =>
                  /\ IsHandle(kind)
                  /\ in = <<>> <=> kind = "Instance"
                  /\ kind \in {"Queue", "CommandBuffer"} => in[1] \notin {"Instance", "PhysicalDevice"}
            /\ c \in ByRole[b].lend =>
                  /\ kind \notin {"Instance", "Device"}
                  /\ \A i \in DOMAIN in : in[i] \notin Optional
            /\ c \in ByRole[b].make =>
                  Releases(b, Releaser(b, c, kind), kind,
                           (IF in = <<>> THEN {} ELSE {in[1]})
                             \cup {StructField[k] : k \in {kind} \cap DOMAIN StructField})

\* The same for a surface, which GLFW makes inside of an instance.
ASSUME SurfaceAssumption ==
    \A b \in Builds :
        "VK_KHR_surface" \in b =>
            Releases(b, Releaser(b, "glfwCreateWindowSurface", "SurfaceKHR"), "SurfaceKHR", {"Instance"})

Null == [kind |-> "null", token |-> 0, maker |-> "none", object |-> <<"null", 0>>]

-----------------------------------------------------------------------------
(* The driver and the loader *)

Below(o) == {p \in DOMAIN objects : p = o \/ o \in objects[p].above}

\* The objects of this kind that these are, or are inside of.
Around(kind, used) == {p \in used \cup UNION {objects[o].above : o \in used} : p[1] = kind}

\* The function pointer of a command leads to the driver of the objects it is given.
Leads(in, used) ==
    \/ in = <<>>
    \/ /\ Around("Instance", used) = {volk.instance}
       /\ \/ in[1] \in {"Instance", "PhysicalDevice"}
          \/ volk.device = Trampoline
          \/ Around("Device", used) = {volk.device}

\* The pointers into a driver that is gone are stale.
VolkWithout(gone) ==
    [instance |-> IF volk.instance \in gone THEN Stale ELSE volk.instance,
     device |-> IF volk.instance \in gone \/ volk.device \in gone THEN Stale ELSE volk.device]

-----------------------------------------------------------------------------
(* A call through the long long overload *)

HandlesOf(in) == {i \in DOMAIN in : IsHandle(in[i])}

\* The driver's view of the handles: the words the overload's casts make of the tokens.
Reached(in, args) ==
    {<<in[i], Cast(in[i], args[i].token)>> : i \in {j \in HandlesOf(in) : args[j] # Null}}

\* What the overload passes on for a number the exact overload takes, or for -1, "all ones".
NumberArrives(type, n) ==
    /\ n \in Values(type) => Cast(type, n) = n
    /\ (n = -1 /\ type \notin SignedTypes) => Cast(type, n) = Width(type) - 1

\* What goes wrong when command c is called with these tokens, and n for its numbers.
FaultsOf(c, args, n) ==
    LET in == Available[c].in
        used == Reached(in, args)
    IN  {f \in {"handle"} : \/ ~ used \subseteq DOMAIN objects
                            \/ \E i \in HandlesOf(in) : args[i] # Null /\ args[i].object \notin used}
        \cup {f \in {"driver"} : used \subseteq DOMAIN objects /\ ~ Leads(in, used)}
        \cup {f \in {"number"} : \E i \in DOMAIN in :
                                     in[i] \in NumberTypes /\ ~ NumberArrives(in[i], n)}

\* The word a releasing command gets for this token, by value or in an array.
Word(c, h) == LET kind == Available[c].kind
              IN  IF \E i \in DOMAIN Available[c].in : Available[c].in[i] = kind
                  THEN Cast(kind, h.token) ELSE handle(h.token)

\* The tokens the program may pass: of the right kinds, and all of one device.
Arguments(c) ==
    LET in == Available[c].in IN
    {args \in [HandlesOf(in) -> held \cup {Null}] :
        /\ \A i \in HandlesOf(in) : \/ args[i] \in held /\ args[i].kind = in[i]
                                    \/ args[i] = Null /\ in[i] \in Optional
        /\ \E d \in {o \in DOMAIN objects : o[1] = "Device"} \cup {Null.object} :
              \A i \in HandlesOf(in) :
                 args[i] # Null => Around("Device", {args[i].object}) \in {{d}, {}}}

Ready == faults = {} /\ ~probing

Room == Cardinality(held) < MaxHeld

\* The program has the token of o, a new object inside of these others.
Gains(o, above, lent, maker) ==
    /\ objects' = [p \in DOMAIN objects \cup {o} |->
                     IF p = o THEN [above |-> above, lent |-> lent] ELSE objects[p]]
    /\ held' = held \cup {[kind |-> o[1], token |-> token(o[2]), maker |-> maker, object |-> o]}

-----------------------------------------------------------------------------
Init ==
    /\ build \in Builds
    /\ uses \in Programs
    /\ suite \in BOOLEAN
    /\ probing = FALSE
    /\ volk = [instance |-> Stale, device |-> Stale]
    /\ objects = <<>>
    /\ held = {}
    /\ faults = {}

\* A command that creates: the driver returns a handle, which the program keeps as a token. An
\* instance and the device of a program are loaded at once.
Make(c) ==
    /\ Ready /\ Room /\ Available[c].kind \in uses
    /\ \E args \in Arguments(c), n \in Numbers, w \in Words[Available[c].kind] :
         LET kind == Available[c].kind
             o == <<kind, w>>
             around == UNION {{h.object} \cup objects[h.object].above :
                                h \in {args[i] : i \in HandlesOf(Available[c].in) \cap {1}}}
         IN  /\ o \notin DOMAIN objects
             /\ kind = "Instance" => held = {}
             /\ kind = "Device" => suite \/ \A h \in held : h.kind # "Device"
             /\ faults' = FaultsOf(c, args, n)
             /\ \E above \in IF kind \in DOMAIN StructField
                             THEN {around \cup {h.object} \cup objects[h.object].above : h \in
                                     {s \in held : s.kind = StructField[kind]
                                                   /\ Around("Device", {s.object}) \in {{}, Around("Device", around)}}}
                             ELSE {around} : Gains(o, above, FALSE, c)
             /\ volk' = CASE kind = "Instance" -> [instance |-> o, device |-> Trampoline]
                          [] kind = "Device" /\ ~suite -> [volk EXCEPT !.device = o]
                          [] OTHER -> volk
    /\ UNCHANGED <<build, uses, suite, probing>>

\* A command that hands out what belongs to its arguments.
Lend(c) ==
    /\ Ready /\ Room /\ Available[c].kind \in uses
    /\ \E args \in Arguments(c), n \in Numbers, w \in Words[Available[c].kind] :
         LET o == <<Available[c].kind, w>>
             above == UNION {{args[i].object} \cup objects[args[i].object].above :
                               i \in HandlesOf(Available[c].in)}
         IN  /\ o \notin DOMAIN objects
             /\ faults' = FaultsOf(c, args, n)
             /\ Gains(o, above, TRUE, c)
    /\ UNCHANGED <<build, uses, suite, probing, volk>>

\* GLFW makes a surface from the native instance and hands out the native surface.
SurfaceArrives ==
    /\ Ready /\ Room /\ "VK_KHR_surface" \in build /\ "SurfaceKHR" \in uses
    /\ \E h \in held, w \in Words.SurfaceKHR :
         /\ h.kind = "Instance"
         /\ <<"Instance", handle(h.token)>> \in DOMAIN objects
         /\ <<"SurfaceKHR", w>> \notin DOMAIN objects
         /\ Gains(<<"SurfaceKHR", w>>, {h.object}, FALSE, "glfwCreateWindowSurface")
    /\ UNCHANGED <<build, uses, suite, probing, volk, faults>>

\* The token of this kind that goes with h: its own, or that of what it is inside of.
With(h, kind) == IF h.kind = kind THEN h
                 ELSE LET near == {s \in held : s.kind = kind /\ s.object \in objects[h.object].above}
                      IN  IF near = {} THEN h ELSE CHOOSE s \in near : TRUE

\* The program gives back a handle, after all it made inside of it but what ends with it.
Release(h) ==
    /\ Ready
    /\ h.object \in DOMAIN objects /\ ~objects[h.object].lent
    /\ \A s \in held : (s # h /\ h.object \in objects[s.object].above) =>
          objects[s.object].lent \/ (s.kind \in Pooled /\ h.kind = StructField[s.kind])
    /\ \E n \in Numbers :
         LET c == Releaser(build, h.maker, h.kind)
             in == Available[c].in
             target == <<Available[c].kind, Word(c, h)>>
             gone == Below(target)
         IN  /\ faults' = FaultsOf(c, [i \in HandlesOf(in) |-> With(h, in[i])], n)
                          \cup {f \in {"handle"} : target \notin DOMAIN objects}
             /\ objects' = [p \in DOMAIN objects \ gone |-> objects[p]]
             /\ volk' = VolkWithout(gone)
             /\ held' = {s \in held : s # h /\ h.object \notin objects[s.object].above}
    /\ UNCHANGED <<build, uses, suite, probing>>

\* Any other command.
Invoke(c) ==
    /\ Ready
    /\ \E args \in Arguments(c), n \in Numbers : faults' = FaultsOf(c, args, n)
    /\ UNCHANGED <<build, uses, suite, probing, volk, objects, held>>

\* The suite probes an entry point: it loads each device in turn, then restores the instance.
ProbeDevice(h) ==
    /\ faults = {} /\ suite
    /\ h.kind = "Device"
    /\ probing' = TRUE
    /\ volk' = [volk EXCEPT !.device = h.object]
    /\ UNCHANGED <<build, uses, suite, objects, held, faults>>

\* Mutant: the suite goes on with the pointers of the last device.
ProbeEndsUnrestored ==
    /\ probing
    /\ probing' = FALSE
    /\ UNCHANGED <<build, uses, suite, volk, objects, held, faults>>

ProbeEnds ==
    /\ probing
    /\ probing' = FALSE
    /\ volk' = [volk EXCEPT !.device = Trampoline]
    /\ UNCHANGED <<build, uses, suite, objects, held, faults>>

Next ==
    \/ \E c \in Does("make") : Make(c)
    \/ \E c \in Does("lend") : Lend(c)
    \/ \E c \in Does("call") : Invoke(c)
    \/ \E h \in held : Release(h) \/ ProbeDevice(h)
    \/ SurfaceArrives
    \/ ProbeEnds

Spec == Init /\ [][Next]_vars

-----------------------------------------------------------------------------
(* Properties *)

\* Every token fits cheatah's integer, and the program's own bookkeeping is well formed.
TypeOK ==
    /\ build \in Builds /\ uses \in Programs /\ suite \in BOOLEAN /\ probing \in BOOLEAN
    /\ \A h \in held : h.token \in LongLong /\ h.token # 0 /\ h.object[1] = h.kind
    /\ \A o \in DOMAIN objects : objects[o].above \subseteq DOMAIN objects
    /\ faults \subseteq {"handle", "driver", "number"}

\* Each call reaches the driver with the handles the program means, live and of the right kinds:
\* the casts of the overloads undo token(), and no @destroy note names the wrong command.
HandlesArrive == "handle" \notin faults

\* Each call goes through a function pointer of the driver its handles belong to.
DriverReached == "driver" \notin faults

\* Every number that fits the Vulkan type arrives unchanged, and -1 as all ones.
NumbersArrive == "number" \notin faults

\* The tokens the program holds name exactly the driver's live objects: nothing is released that
\* the program did not release, and a program that released every token left nothing behind.
TokensNameObjects == faults = {} =>
    /\ {<<h.kind, handle(h.token)>> : h \in held} = DOMAIN objects
    /\ Cardinality(held) = Cardinality(DOMAIN objects)
=============================================================================
