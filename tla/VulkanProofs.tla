----------------------------- MODULE VulkanProofs ---------------------------
(***************************************************************************)
(* The conversions of the Vulkan surface lose nothing, for words of every  *)
(* width; and for every table of commands and every program, each call     *)
(* arrives with its handles at their driver, and the program's tokens name *)
(* the objects there are.                                                  *)
(***************************************************************************)
EXTENDS VulkanProgram, FiniteSetTheorems, TLAPS

\* A number in a word, and one below 0 that wraps into it.
LEMMA Remainder ==
  ASSUME NEW w \in Nat \ {0}
  PROVE  /\ \A x \in 0 .. w - 1 : x % w = x
         /\ \A x \in -w .. -1 : x % w = x + w
<1>1. ASSUME NEW x \in 0 .. w - 1  PROVE x % w = x
  BY <1>1, SMT
<1>2. ASSUME NEW x \in -w .. -1  PROVE x % w = x + w
  BY <1>2, SMT
<1> QED  BY <1>1, <1>2

\* An even width is twice its half.
LEMMA Half ==
  ASSUME NEW w \in Nat \ {0}, w % 2 = 0
  PROVE  w \div 2 \in Nat \ {0} /\ w = 2 * (w \div 2)
OBVIOUS

\* Wrapping into a signed word keeps what fits one.
LEMMA SignedKeeps ==
  ASSUME NEW w \in Nat \ {0}, w % 2 = 0, NEW x \in -(w \div 2) .. (w \div 2 - 1)
  PROVE  Signed(x, w) = x
<1> DEFINE h == w \div 2
<1>1. h \in Nat \ {0} /\ w = 2 * h  BY Half
<1>2. x \in -h .. h - 1  OBVIOUS
<1> HIDE DEF h
<1>3. CASE x >= 0
  <2>1. x % w = x  BY <1>1, <1>2, <1>3, Remainder
  <2> QED  BY <2>1, <1>1, <1>2, <1>3 DEF Signed, h
<1>4. CASE x < 0
  <2>1. x % w = x + w  BY <1>1, <1>2, <1>4, Remainder
  <2>2. ~ (x + w < h)  BY <1>1, <1>2
  <2> QED  BY <2>1, <2>2, <1>1, <1>2 DEF Signed, h
<1> QED  BY <1>2, <1>3, <1>4

LEMMA Widths ==
  ASSUME NEW type
  PROVE  /\ Width(type) \in Nat \ {0} /\ Width(type) % 2 = 0
         /\ type \in NumberTypes \ {"u64"} => 2 * Width(type) <= W64
         /\ type \notin NumberTypes \ {"u64"} => Width(type) = W64
BY WidthAssumption DEF Width, NumberTypes

\* handle() and the casts of the overloads undo token(): for every handle type and word the token
\* is a long long, only the null handle's is 0, and it comes back as the word it was made from.
THEOREM TokenRoundTrip ==
  \A type, word : (IsHandle(type) /\ type # "f32" /\ word \in Values(type)) =>
      /\ token(word) \in LongLong
      /\ handle(token(word)) = word /\ Cast(type, token(word)) = word
      /\ (token(word) = 0) <=> (word = 0)
<1> SUFFICES ASSUME NEW type, NEW word, IsHandle(type), word \in Values(type)
             PROVE  /\ token(word) \in LongLong
                    /\ handle(token(word)) = word /\ Cast(type, token(word)) = word
                    /\ (token(word) = 0) <=> (word = 0)
  OBVIOUS
<1> DEFINE h == W64 \div 2
<1>1. type \notin NumberTypes /\ type \notin SignedTypes  BY DEF IsHandle, NumberTypes, SignedTypes
<1>2. Width(type) = W64  BY <1>1, Widths
<1>3. word \in 0 .. W64 - 1  BY <1>1, <1>2 DEF Values
<1>4. h \in Nat \ {0} /\ W64 = 2 * h  BY WidthAssumption, Half
<1>5. word % W64 = word  BY <1>3, WidthAssumption, Remainder
<1> HIDE DEF h
<1>6. CASE word < h
  <2>1. token(word) = word  BY <1>5, <1>6 DEF token, Signed, h
  <2> QED  BY <2>1, <1>1, <1>2, <1>3, <1>4, <1>5, <1>6 DEF handle, Cast, LongLong, h
<1>7. CASE ~ (word < h)
  <2>1. token(word) = word - W64  BY <1>5, <1>7 DEF token, Signed, h
  <2>2. word - W64 \in -W64 .. -1 /\ word - W64 + W64 = word  BY <1>3, WidthAssumption
  <2>3. (word - W64) % W64 = word  BY <2>2, <1>3, WidthAssumption, Remainder
  <2>4. word - W64 \in -h .. h - 1  BY <1>3, <1>4, <1>7
  <2>5. word - W64 # 0 /\ word # 0  BY <1>3, <1>4, <1>7
  <2> QED  BY <2>1, <2>3, <2>4, <2>5, <1>1, <1>2 DEF handle, Cast, LongLong, h
<1> QED  BY <1>6, <1>7

\* A number that fits its Vulkan type arrives unchanged, and -1 as all ones.
LEMMA NumbersFit ==
  ASSUME NEW type \in NumberTypes, NEW n \in LongLong
  PROVE  NumberArrives(type, n)
<1> DEFINE w == Width(type)
<1>1. w \in Nat \ {0} /\ w % 2 = 0  BY Widths
<1>2. CASE type \in SignedTypes
  <2>1. n \in Values(type) => Signed(n, w) = n  BY <1>1, <1>2, SignedKeeps DEF Values
  <2> QED  BY <2>1, <1>2 DEF NumberArrives, Cast
<1>3. CASE type \notin SignedTypes
  <2>1. n \in 0 .. w - 1 => n % w = n  BY <1>1, Remainder
  <2>2. (-1) % w = -1 + w  BY <1>1, Remainder
  <2> QED  BY <1>1, <1>3, <2>1, <2>2 DEF NumberArrives, Cast, Values
<1> QED  BY <1>2, <1>3

\* No call of any program on any table of commands changes a number that fits.
THEOREM NumbersUnchanged == Spec => []NumbersArrive
<1>1. Init => NumbersArrive  BY DEF Init, NumbersArrive
<1>2. ASSUME NEW c, NEW args, NEW n \in Numbers
      PROVE  "number" \notin FaultsOf(c, args, n)
  BY NumbersFit, NumbersAssumption DEF FaultsOf
<1>3. NumbersArrive /\ [Next]_vars => NumbersArrive'
  <2> SUFFICES ASSUME NumbersArrive, [Next]_vars  PROVE NumbersArrive'  OBVIOUS
  <2>1. ASSUME NEW c, Make(c)  PROVE NumbersArrive'  BY <2>1, <1>2 DEF Make, NumbersArrive
  <2>2. ASSUME NEW c, Lend(c)  PROVE NumbersArrive'  BY <2>2, <1>2 DEF Lend, NumbersArrive
  <2>3. ASSUME NEW c, Invoke(c)  PROVE NumbersArrive'  BY <2>3, <1>2 DEF Invoke, NumbersArrive
  <2>4. ASSUME NEW h, Release(h)  PROVE NumbersArrive'  BY <2>4, <1>2 DEF Release, NumbersArrive
  <2>5. ASSUME NEW h, ProbeDevice(h)  PROVE NumbersArrive'  BY <2>5 DEF ProbeDevice, NumbersArrive
  <2>6. CASE SurfaceArrives  BY <2>6 DEF SurfaceArrives, NumbersArrive
  <2>7. CASE ProbeEnds  BY <2>7 DEF ProbeEnds, NumbersArrive
  <2>8. CASE UNCHANGED vars  BY <2>8 DEF vars, NumbersArrive
  <2> QED  BY <2>1, <2>2, <2>3, <2>4, <2>5, <2>6, <2>7, <2>8 DEF Next
<1> QED  BY <1>1, <1>3, PTL DEF Spec

-----------------------------------------------------------------------------
(* The handles of a program: the inductive invariant.                        *)

ChoicesInv ==
    /\ build \in Builds /\ uses \in Programs
    /\ suite \in BOOLEAN /\ probing \in BOOLEAN
    /\ probing => suite

\* The driver's objects are inside of others that are there.
ObjectsInv ==
    /\ \A o \in DOMAIN objects :
         /\ IsHandle(o[1]) /\ o[2] \in 1 .. W64 - 1 /\ o = <<o[1], o[2]>>
         /\ objects[o].above \subseteq DOMAIN objects
    /\ \A o \in DOMAIN objects : \A p \in objects[o].above : objects[p].above \subseteq objects[o].above

\* The program has one token of each.
HeldInv ==
    /\ IsFiniteSet(held)
    /\ \A h \in held : /\ h.object \in DOMAIN objects
                       /\ h.kind = h.object[1] /\ h.token = token(h.object[2])
    /\ \A h, s \in held : h.object = s.object => h = s
    /\ \A o \in DOMAIN objects : \E h \in held : h.object = o

\* The function pointers lead to the only instance, which everything is inside of, and to the only
\* device, or look the device up.
VolkInv ==
    /\ DOMAIN volk = {"instance", "device"}
    /\ \A o \in DOMAIN objects : \E p \in {o} \cup objects[o].above : p[1] = "Instance"
    /\ \A o \in DOMAIN objects : o[1] = "Instance" => o = volk.instance /\ objects[o].above = {}
    /\ \A o \in DOMAIN objects : o[1] \in Dispatched \ {"Instance", "PhysicalDevice"} =>
         \E p \in {o} \cup objects[o].above : p[1] = "Device"
    /\ \A o \in DOMAIN objects : o[1] = "Device" /\ ~ suite => o = volk.device
    /\ \A o \in DOMAIN objects : suite /\ ~ probing => volk.device = Trampoline

\* Command c releases h with the tokens of what h is inside of.
ReleasedBy(c, h) ==
    /\ c \in DOMAIN Available /\ Available[c].kind = h.kind
    /\ \A i \in HandlesOf(Available[c].in) :
         \/ Available[c].in[i] = h.kind
         \/ \E p \in objects[h.object].above : p[1] = Available[c].in[i]

ReleaseInv == \A h \in held : ~ objects[h.object].lent => ReleasedBy(Releaser(build, h.maker, h.kind), h)

HandlesInv == ChoicesInv /\ ObjectsInv /\ HeldInv /\ VolkInv /\ ReleaseInv /\ faults = {}

\* A token is the word of its object, in a long long.
LEMMA TokenIsWord ==
  ASSUME ObjectsInv, HeldInv, NEW h \in held
  PROVE  /\ h.token \in LongLong /\ h.token # 0
         /\ h.object = <<h.kind, handle(h.token)>>
         /\ h.object = <<h.kind, Cast(h.kind, h.token)>>
         /\ h # Null
<1>1. /\ h.object \in DOMAIN objects /\ h.kind = h.object[1] /\ h.token = token(h.object[2])
  BY DEF HeldInv
<1>2. /\ IsHandle(h.kind) /\ h.object[2] \in 1 .. W64 - 1 /\ h.object = <<h.kind, h.object[2]>>
  BY <1>1 DEF ObjectsInv
<1>3. h.kind \notin NumberTypes /\ h.kind \notin SignedTypes /\ h.kind # "f32"
  BY <1>2 DEF IsHandle, NumberTypes, SignedTypes
<1>4. h.object[2] \in Values(h.kind)
  <2>1. Width(h.kind) = W64  BY <1>3, Widths
  <2>2. W64 \in Nat  BY WidthAssumption
  <2> QED  BY <1>2, <1>3, <2>1, <2>2 DEF Values
<1>5. /\ token(h.object[2]) \in LongLong
      /\ handle(token(h.object[2])) = h.object[2]
      /\ Cast(h.kind, token(h.object[2])) = h.object[2]
      /\ token(h.object[2]) = 0 <=> h.object[2] = 0
  BY <1>2, <1>3, <1>4, TokenRoundTrip
<1>6. h.object[2] # 0  BY <1>2
<1>7. h # Null  BY <1>6 DEF Null
<1> QED  BY <1>1, <1>2, <1>5, <1>6, <1>7

\* What the assumption on the commands says of one that a build has.
LEMMA CommandHas ==
  ASSUME ChoicesInv, NEW c \in DOMAIN Available
  PROVE  /\ Available[c].in \in Seq(STRING)
         /\ Available[c].in # <<>> => /\ 1 \in HandlesOf(Available[c].in)
                                      /\ Available[c].in[1] \in Dispatched
                                      /\ Available[c].in[1] \notin Optional
<1>1. build \in Builds  BY DEF ChoicesInv
<1>2. /\ Available[c].in \in Seq(STRING)
      /\ Available[c].in # <<>> => Available[c].in[1] \in Dispatched
  BY <1>1, CommandsAssumption DEF Available
<1>3. Available[c].in # <<>> => 1 \in DOMAIN Available[c].in  BY <1>2
<1>4. \A kind \in Dispatched : IsHandle(kind) /\ kind \notin Optional
  BY DEF Dispatched, IsHandle, NumberTypes, Optional
<1> QED  BY <1>2, <1>3, <1>4 DEF HandlesOf

\* A call on live objects, dispatched on its first, goes to their driver.
LEMMA LeadsThere ==
  ASSUME ChoicesInv, ObjectsInv, VolkInv, ~ probing,
         NEW in, in = <<>> \/ in[1] \in Dispatched,
         NEW used \in SUBSET DOMAIN objects,
         in # <<>> => \E o \in used : o[1] = in[1]
  PROVE  Leads(in, used)
<1> SUFFICES ASSUME in # <<>>  PROVE Leads(in, used)
  BY DEF Leads
<1>1. PICK o \in used : o[1] = in[1]  OBVIOUS
<1> DEFINE all == used \cup UNION {objects[p].above : p \in used}
<1>2. all \subseteq DOMAIN objects /\ {o} \cup objects[o].above \subseteq all
  BY <1>1 DEF ObjectsInv
<1>3. Around("Instance", used) = {volk.instance}
  <2>1. \E p \in all : p[1] = "Instance"  BY <1>1, <1>2 DEF VolkInv
  <2>2. \A p \in all : p[1] = "Instance" => p = volk.instance  BY <1>2 DEF VolkInv
  <2> QED  BY <2>1, <2>2 DEF Around
<1>4. CASE in[1] \in {"Instance", "PhysicalDevice"}  BY <1>3, <1>4 DEF Leads
<1>5. CASE in[1] \notin {"Instance", "PhysicalDevice"} /\ suite
  BY <1>1, <1>3, <1>5 DEF Leads, VolkInv
<1>6. CASE in[1] \notin {"Instance", "PhysicalDevice"} /\ ~ suite
  <2>1. \E p \in all : p[1] = "Device"  BY <1>1, <1>2, <1>6 DEF VolkInv
  <2>2. \A p \in all : p[1] = "Device" => p = volk.device  BY <1>2, <1>6 DEF VolkInv
  <2>3. Around("Device", used) = {volk.device}  BY <2>1, <2>2 DEF Around
  <2> QED  BY <1>3, <2>3 DEF Leads
<1> QED  BY <1>4, <1>5, <1>6 DEF ChoicesInv

\* No call goes wrong with tokens the program holds, of the right kinds.
LEMMA NoFaults ==
  ASSUME HandlesInv, ~ probing, NEW c \in DOMAIN Available, NEW args, NEW n \in Numbers,
         \A i \in HandlesOf(Available[c].in) :
            \/ args[i] \in held /\ args[i].kind = Available[c].in[i]
            \/ args[i] = Null /\ Available[c].in[i] \in Optional
  PROVE  FaultsOf(c, args, n) = {}
<1> DEFINE in == Available[c].in
           used == Reached(in, args)
<1> USE DEF HandlesInv
<1>1. \A i \in HandlesOf(in) : args[i] # Null =>
         /\ args[i] \in held /\ args[i].kind = in[i]
         /\ <<in[i], Cast(in[i], args[i].token)>> = args[i].object
         /\ args[i].object \in DOMAIN objects
  BY TokenIsWord DEF HeldInv
<1>2. used = {args[i].object : i \in {j \in HandlesOf(in) : args[j] # Null}}
  BY <1>1 DEF Reached
<1>3. used \in SUBSET DOMAIN objects  BY <1>1, <1>2
<1>4. \A i \in HandlesOf(in) : args[i] # Null => args[i].object \in used  BY <1>2
<1>5. in # <<>> => in[1] \in Dispatched /\ \E o \in used : o[1] = in[1]
  <2> SUFFICES ASSUME in # <<>>  PROVE in[1] \in Dispatched /\ \E o \in used : o[1] = in[1]
    OBVIOUS
  <2>1. 1 \in HandlesOf(in) /\ in[1] \in Dispatched /\ in[1] \notin Optional  BY CommandHas
  <2>2. args[1] \in held /\ args[1].kind = in[1]  BY <2>1
  <2>3. args[1] # Null /\ args[1].object[1] = in[1]  BY <2>2, TokenIsWord DEF HeldInv
  <2> QED  BY <1>4, <2>1, <2>3
<1> HIDE DEF used
<1>6. Leads(in, used)  BY <1>3, <1>5, LeadsThere
<1>7. \A i \in DOMAIN in : in[i] \in NumberTypes => NumberArrives(in[i], n)
  BY NumbersFit, NumbersAssumption
<1> QED  BY <1>3, <1>4, <1>6, <1>7 DEF FaultsOf, used

\* These are there, with all that they are inside of.
Closed(above) == /\ above \subseteq DOMAIN objects
                 /\ \A p \in above : objects[p].above \subseteq above

\* Command d releases an object of this kind with the tokens of these.
ReleasedWith(d, kind, above) ==
    /\ d \in DOMAIN Available /\ Available[d].kind = kind
    /\ \A i \in HandlesOf(Available[d].in) :
          Available[d].in[i] = kind \/ \E p \in above : p[1] = Available[d].in[i]

\* A new object, inside of others that are there, and its token.
LEMMA Gained ==
  ASSUME HandlesInv,
         NEW o, o = <<o[1], o[2]>>, IsHandle(o[1]), o[2] \in 1 .. W64 - 1, o \notin DOMAIN objects,
         NEW above, Closed(above),
         NEW lent, NEW maker, Gains(o, above, lent, maker),
         lent = TRUE \/ ReleasedWith(Releaser(build, maker, o[1]), o[1], above),
         UNCHANGED <<build, uses, suite, probing>>
  PROVE  ChoicesInv' /\ ObjectsInv' /\ HeldInv' /\ ReleaseInv'
<1> DEFINE e == [kind |-> o[1], token |-> token(o[2]), maker |-> maker, object |-> o]
<1> USE DEF HandlesInv, Closed
<1>1. /\ DOMAIN objects' = DOMAIN objects \cup {o}
      /\ \A p \in DOMAIN objects : objects'[p] = objects[p]
      /\ objects'[o].above = above /\ objects'[o].lent = lent
  BY DEF Gains
<1>2. held' = held \cup {e}  BY DEF Gains
<1>3. e.object = o /\ e.kind = o[1] /\ e.token = token(o[2]) /\ e.maker = maker  OBVIOUS
<1> HIDE DEF e
<1>4. \A h \in held : h.object \in DOMAIN objects /\ h.object # o  BY DEF HeldInv
<1>5. ChoicesInv'  BY DEF ChoicesInv
<1>6. ObjectsInv'
  <2>1. \A p \in DOMAIN objects' : /\ IsHandle(p[1]) /\ p[2] \in 1 .. W64 - 1 /\ p = <<p[1], p[2]>>
                                   /\ objects'[p].above \subseteq DOMAIN objects'
    BY <1>1 DEF ObjectsInv
  <2>2. ASSUME NEW p \in DOMAIN objects', NEW q \in objects'[p].above
        PROVE  objects'[q].above \subseteq objects'[p].above
    <3>1. q \in DOMAIN objects /\ objects'[q].above = objects[q].above  BY <1>1, <2>2 DEF ObjectsInv
    <3> QED  BY <1>1, <2>2, <3>1 DEF ObjectsInv
  <2> QED  BY <2>1, <2>2 DEF ObjectsInv
<1>7. HeldInv'
  <2>1. IsFiniteSet(held')  BY <1>2, FS_AddElement DEF HeldInv
  <2>2. \A h \in held' : /\ h.object \in DOMAIN objects'
                         /\ h.kind = h.object[1] /\ h.token = token(h.object[2])
    BY <1>1, <1>2, <1>3 DEF HeldInv
  <2>3. \A h, s \in held' : h.object = s.object => h = s  BY <1>2, <1>3, <1>4 DEF HeldInv
  <2>4. \A p \in DOMAIN objects' : \E h \in held' : h.object = p  BY <1>1, <1>2, <1>3 DEF HeldInv
  <2> QED  BY <2>1, <2>2, <2>3, <2>4 DEF HeldInv
<1>8. ReleaseInv'
  <2>1. Available' = Available  BY DEF Available
  <2>2. ASSUME NEW h \in held, ~ objects'[h.object].lent
        PROVE  ReleasedBy(Releaser(build, h.maker, h.kind), h)'
    <3>1. objects'[h.object] = objects[h.object]  BY <1>1, <1>4
    <3>2. ReleasedBy(Releaser(build, h.maker, h.kind), h)  BY <2>2, <3>1 DEF ReleaseInv
    <3> QED  BY <2>1, <3>1, <3>2 DEF ReleasedBy
  <2>3. lent # TRUE => ReleasedBy(Releaser(build, e.maker, e.kind), e)'
    <3> DEFINE d == Releaser(build, maker, o[1])
    <3>1. Releaser(build, e.maker, e.kind)' = d  BY <1>3 DEF Releaser
    <3> HIDE DEF d
    <3>2. lent # TRUE => ReleasedWith(d, o[1], above)  BY DEF d
    <3> QED  BY <1>1, <1>3, <2>1, <3>1, <3>2 DEF ReleasedBy, ReleasedWith
  <2> QED  BY <1>1, <1>2, <1>3, <2>2, <2>3 DEF ReleaseInv
<1> QED  BY <1>5, <1>6, <1>7, <1>8

\* And the function pointers lead to its driver.
LEMMA GainedVolk ==
  ASSUME HandlesInv,
         NEW o, o \notin DOMAIN objects, NEW above, above \subseteq DOMAIN objects,
         NEW lent, NEW maker, Gains(o, above, lent, maker),
         UNCHANGED <<suite, probing>>,
         \E p \in {o} \cup above : p[1] = "Instance",
         DOMAIN objects = {} \/ volk'.instance = volk.instance,
         o[1] = "Instance" => o = volk'.instance /\ above = {},
         o[1] \in Dispatched \ {"Instance", "PhysicalDevice"} =>
            \E p \in {o} \cup above : p[1] = "Device",
         ~ suite => \A p \in DOMAIN objects : p[1] = "Device" => p = volk'.device,
         ~ suite /\ o[1] = "Device" => o = volk'.device,
         suite /\ ~ probing => volk'.device = Trampoline,
         DOMAIN volk' = {"instance", "device"}
  PROVE  VolkInv'
<1> USE DEF HandlesInv
<1>1. /\ DOMAIN objects' = DOMAIN objects \cup {o}
      /\ \A p \in DOMAIN objects : objects'[p] = objects[p]
      /\ objects'[o].above = above
  BY DEF Gains
<1>2. \A p \in DOMAIN objects' : \E q \in {p} \cup objects'[p].above : q[1] = "Instance"
  BY <1>1 DEF VolkInv
<1>3. \A p \in DOMAIN objects' : p[1] = "Instance" => p = volk'.instance /\ objects'[p].above = {}
  BY <1>1 DEF VolkInv
<1>4. \A p \in DOMAIN objects' : p[1] \in Dispatched \ {"Instance", "PhysicalDevice"} =>
         \E q \in {p} \cup objects'[p].above : q[1] = "Device"
  BY <1>1 DEF VolkInv
<1>5. \A p \in DOMAIN objects' : p[1] = "Device" /\ ~ suite => p = volk'.device  BY <1>1
<1> QED  BY <1>2, <1>3, <1>4, <1>5 DEF VolkInv

\* The object a token names, and all that is around it.
LEMMA AroundHeld ==
  ASSUME HandlesInv, NEW h \in held
  PROVE  /\ Closed({h.object} \cup objects[h.object].above)
         /\ \E p \in {h.object} \cup objects[h.object].above : p[1] = "Instance"
         /\ h.kind \in Dispatched \ {"Instance", "PhysicalDevice"} =>
              \E p \in {h.object} \cup objects[h.object].above : p[1] = "Device"
<1>1. h.object \in DOMAIN objects /\ h.kind = h.object[1]  BY DEF HandlesInv, HeldInv
<1> QED  BY <1>1 DEF HandlesInv, ObjectsInv, VolkInv, Closed

LEMMA MadeWord ==
  ASSUME ChoicesInv, NEW kind \in uses, NEW w \in Words[kind]
  PROVE  w \in 1 .. W64 - 1
BY WordsAssumption DEF ChoicesInv

\* What a command creates.
LEMMA MakeKeeps ==
  ASSUME HandlesInv, NEW c \in Does("make"), Make(c)
  PROVE  HandlesInv'
<1> DEFINE in == Available[c].in
           kind == Available[c].kind
<1> USE DEF HandlesInv
<1>c. /\ c \in DOMAIN Available /\ c \in ByRole[build].make /\ build \in Builds
      /\ Available = CommandsOf[build]
  BY DEF Does, ByRole, Roles, Available, ChoicesInv
<1>t. /\ IsHandle(kind)
      /\ in = <<>> <=> kind = "Instance"
      /\ kind \in {"Queue", "CommandBuffer"} => in[1] \notin {"Instance", "PhysicalDevice"}
      /\ Releases(build, Releaser(build, c, kind), kind,
                  (IF in = <<>> THEN {} ELSE {in[1]})
                    \cup {StructField[k] : k \in {kind} \cap DOMAIN StructField})
  BY <1>c, CommandsAssumption
<1>1. PICK args \in Arguments(c), n \in Numbers, w \in Words[kind] :
        LET o == <<kind, w>>
            around == UNION {{h.object} \cup objects[h.object].above :
                               h \in {args[i] : i \in HandlesOf(in) \cap {1}}}
        IN  /\ o \notin DOMAIN objects
            /\ kind = "Instance" => held = {}
            /\ kind = "Device" => suite \/ \A h \in held : h.kind # "Device"
            /\ faults' = FaultsOf(c, args, n)
            /\ \E above \in IF kind \in DOMAIN StructField
                            THEN {around \cup {h.object} \cup objects[h.object].above : h \in
                                    {s \in held : /\ s.kind = StructField[kind]
                                                  /\ Around("Device", {s.object}) \in {{}, Around("Device", around)}}}
                            ELSE {around} : Gains(o, above, FALSE, c)
            /\ volk' = CASE kind = "Instance" -> [instance |-> o, device |-> Trampoline]
                         [] kind = "Device" /\ ~suite -> [volk EXCEPT !.device = o]
                         [] OTHER -> volk
  BY DEF Make
<1>2. ~ probing /\ kind \in uses /\ UNCHANGED <<build, uses, suite, probing>>  BY DEF Make, Ready
<1> DEFINE o == <<kind, w>>
           around == UNION {{h.object} \cup objects[h.object].above :
                              h \in {args[i] : i \in HandlesOf(in) \cap {1}}}
<1>3. o = <<o[1], o[2]>> /\ IsHandle(o[1]) /\ o[2] \in 1 .. W64 - 1 /\ o[1] = kind
  BY <1>t, <1>2, MadeWord
<1>4. \A i \in HandlesOf(in) : \/ args[i] \in held /\ args[i].kind = in[i]
                               \/ args[i] = Null /\ in[i] \in Optional
  BY DEF Arguments
<1>5. faults' = {}  BY <1>1, <1>2, <1>4, <1>c, NoFaults
<1>6. CASE in = <<>>
  <2>1. kind = "Instance" /\ held = {}  BY <1>1, <1>t, <1>6
  <2>2. DOMAIN objects = {}  BY <2>1 DEF HeldInv
  <2>3. kind \notin DOMAIN StructField  BY <2>1 DEF StructField
  <2>4. around = {}
    <3>1. HandlesOf(in) = {}  BY <1>6 DEF HandlesOf
    <3> QED  BY <3>1
  <2>5. Gains(o, {}, FALSE, c)  BY <1>1, <2>3, <2>4
  <2>6. ReleasedWith(Releaser(build, c, kind), kind, {})
    <3> DEFINE d == Releaser(build, c, kind)
    <3>1. Releases(build, d, kind, {})  BY <1>c, <1>t, <1>6, <2>3
    <3> HIDE DEF d
    <3>2. d \in DOMAIN Available /\ Available[d].kind = kind  BY <3>1 DEF Releases, Available
    <3>3. \A i \in HandlesOf(Available[d].in) : Available[d].in[i] = kind
      BY <3>1 DEF Releases, HandlesOf, Available
    <3> QED  BY <3>2, <3>3 DEF ReleasedWith, d
  <2>7. volk' = [instance |-> o, device |-> Trampoline]  BY <1>1, <2>1
  <2> HIDE DEF o
  <2>8. ChoicesInv' /\ ObjectsInv' /\ HeldInv' /\ ReleaseInv'
    <3>1. o \notin DOMAIN objects  BY <1>1 DEF o
    <3>2. Closed({})  BY DEF Closed
    <3> QED  BY <1>2, <1>3, <2>5, <2>6, <3>1, <3>2, Gained
  <2>9. VolkInv'
    <3>1. /\ o \notin DOMAIN objects /\ volk'.instance = o /\ volk'.device = Trampoline
          /\ DOMAIN volk' = {"instance", "device"}
      BY <1>1, <2>7 DEF o
    <3>2. o[1] = "Instance" /\ "Instance" \notin Dispatched \ {"Instance", "PhysicalDevice"}
      BY <1>3, <2>1
    <3> QED  BY <1>2, <2>2, <2>5, <3>1, <3>2, GainedVolk
  <2> QED  BY <1>5, <2>8, <2>9
<1>7. CASE in # <<>>
  <2> DEFINE first == {args[1].object} \cup objects[args[1].object].above
  <2>1. /\ 1 \in HandlesOf(in) /\ in[1] \in Dispatched
        /\ args[1] \in held /\ args[1].kind = in[1]
    BY <1>4, <1>7, <1>c, CommandHas
  <2>2. around = first
    <3>1. HandlesOf(in) \cap {1} = {1}  BY <2>1
    <3> QED  BY <3>1
  <2>3. PICK above :
          /\ Gains(o, above, FALSE, c)
          /\ IF kind \in DOMAIN StructField
             THEN \E s \in held : /\ s.kind = StructField[kind]
                                  /\ above = first \cup {s.object} \cup objects[s.object].above
             ELSE above = first
    BY <1>1, <2>2
  <2>4. /\ Closed(first) /\ first \subseteq above
        /\ \E p \in first : p[1] = "Instance"
        /\ in[1] \in Dispatched \ {"Instance", "PhysicalDevice"} => \E p \in first : p[1] = "Device"
        /\ args[1].object \in first /\ args[1].object[1] = in[1]
    BY <2>1, <2>3, AroundHeld DEF HeldInv
  <2> HIDE DEF first, around, o
  <2>5. Closed(above) /\ (kind \in DOMAIN StructField => \E p \in above : p[1] = StructField[kind])
    <3> USE DEF Closed
    <3>1. CASE kind \in DOMAIN StructField
      <4>1. PICK s \in held : /\ s.kind = StructField[kind]
                              /\ above = first \cup {s.object} \cup objects[s.object].above
        BY <2>3, <3>1
      <4>2. Closed({s.object} \cup objects[s.object].above) /\ s.object[1] = StructField[kind]
        BY <4>1, AroundHeld DEF HeldInv
      <4> QED  BY <2>4, <4>1, <4>2
    <3>2. CASE kind \notin DOMAIN StructField  BY <2>3, <2>4, <3>2
    <3> QED  BY <3>1, <3>2
  <2>6. ReleasedWith(Releaser(build, c, kind), kind, above)
    <3> DEFINE d == Releaser(build, c, kind)
               needs == {in[1]} \cup {StructField[k] : k \in {kind} \cap DOMAIN StructField}
    <3>a. Releases(build, d, kind, needs)  BY <1>t, <1>7
    <3>b. \A x \in needs : x = in[1] \/ (kind \in DOMAIN StructField /\ x = StructField[kind])
      OBVIOUS
    <3> HIDE DEF d, needs
    <3>c. /\ d \in DOMAIN Available /\ Available[d].kind = kind
          /\ \A i \in HandlesOf(Available[d].in) : Available[d].in[i] \in {kind} \cup needs
      BY <3>a DEF Releases, HandlesOf, Available
    <3>1. /\ d \in DOMAIN Available /\ Available[d].kind = kind
          /\ \A i \in HandlesOf(Available[d].in) :
                \/ Available[d].in[i] = kind
                \/ Available[d].in[i] = in[1]
                \/ kind \in DOMAIN StructField /\ Available[d].in[i] = StructField[kind]
      BY <3>b, <3>c
    <3> QED  BY <2>4, <2>5, <3>1 DEF ReleasedWith, d
  <2>7. ChoicesInv' /\ ObjectsInv' /\ HeldInv' /\ ReleaseInv'
    <3>1. o \notin DOMAIN objects  BY <1>1 DEF o
    <3> HIDE DEF kind, in
    <3> QED  BY <1>2, <1>3, <2>3, <2>5, <2>6, <3>1, Gained
  <2>8. VolkInv'
    <3>1. o \notin DOMAIN objects /\ kind # "Instance"  BY <1>1, <1>7, <1>t DEF o
    <3>2. \/ kind = "Device" /\ ~ suite /\ volk'.instance = volk.instance /\ volk'.device = o
          \/ (kind # "Device" \/ suite) /\ volk' = volk
      <4>1. CASE kind = "Device" /\ ~ suite
        <5>1. volk' = [volk EXCEPT !.device = o]  BY <1>1, <3>1, <4>1 DEF o
        <5> QED  BY <4>1, <5>1
      <4>2. CASE kind # "Device" \/ suite  BY <1>1, <3>1, <4>2 DEF ChoicesInv
      <4> QED  BY <4>1, <4>2
    <3>3. kind = "Device" /\ ~ suite => \A p \in DOMAIN objects : p[1] # "Device"
      BY <1>1 DEF HeldInv
    <3>4. \E p \in {o} \cup above : p[1] = "Instance"  BY <2>4
    <3>5. o[1] \in Dispatched \ {"Instance", "PhysicalDevice"} =>
            \E p \in {o} \cup above : p[1] = "Device"
      <4>1. CASE kind = "Device"  BY <1>3, <4>1
      <4>2. CASE kind \in {"Queue", "CommandBuffer"}  BY <1>t, <2>1, <2>4, <4>2
      <4>3. CASE kind \notin {"Device", "Queue", "CommandBuffer"}  BY <1>3, <4>3 DEF Dispatched
      <4> QED  BY <4>1, <4>2, <4>3
    <3>6. ~ suite => \A p \in DOMAIN objects : p[1] = "Device" => p = volk'.device
      BY <3>2, <3>3 DEF VolkInv
    <3>7. ~ suite /\ o[1] = "Device" => o = volk'.device  BY <1>3, <3>2
    <3>8. suite => volk' = volk /\ volk.device = Trampoline  BY <1>2, <2>4, <3>2 DEF VolkInv, Closed
    <3>9. o[1] # "Instance" /\ volk'.instance = volk.instance  BY <1>3, <3>1, <3>2
    <3>10. DOMAIN volk' = {"instance", "device"}
      BY <1>1, <3>1 DEF VolkInv
    <3> QED  BY <1>2, <2>3, <2>5, <3>1, <3>4, <3>5, <3>6, <3>7, <3>8, <3>9, <3>10, GainedVolk DEF Closed
  <2> QED  BY <1>5, <2>7, <2>8
<1> QED  BY <1>6, <1>7

\* What a command lends.
LEMMA LendKeeps ==
  ASSUME HandlesInv, NEW c \in Does("lend"), Lend(c)
  PROVE  HandlesInv'
<1> DEFINE in == Available[c].in
           kind == Available[c].kind
<1> USE DEF HandlesInv
<1>c. /\ c \in DOMAIN Available /\ c \in ByRole[build].lend /\ build \in Builds
      /\ Available = CommandsOf[build]
  BY DEF Does, ByRole, Roles, Available, ChoicesInv
<1>t. /\ IsHandle(kind)
      /\ in = <<>> <=> kind = "Instance"
      /\ kind \in {"Queue", "CommandBuffer"} => in[1] \notin {"Instance", "PhysicalDevice"}
      /\ kind \notin {"Instance", "Device"}
      /\ \A i \in DOMAIN in : in[i] \notin Optional
  BY <1>c, CommandsAssumption
<1>1. PICK args \in Arguments(c), n \in Numbers, w \in Words[kind] :
        LET o == <<kind, w>>
            above == UNION {{args[i].object} \cup objects[args[i].object].above : i \in HandlesOf(in)}
        IN  /\ o \notin DOMAIN objects
            /\ faults' = FaultsOf(c, args, n)
            /\ Gains(o, above, TRUE, c)
  BY DEF Lend
<1>2. ~ probing /\ kind \in uses /\ UNCHANGED <<build, uses, suite, probing>> /\ volk' = volk
  BY DEF Lend, Ready
<1> DEFINE o == <<kind, w>>
           above == UNION {{args[i].object} \cup objects[args[i].object].above : i \in HandlesOf(in)}
<1>3. o = <<o[1], o[2]>> /\ IsHandle(o[1]) /\ o[2] \in 1 .. W64 - 1 /\ o[1] = kind
  BY <1>t, <1>2, MadeWord
<1>4. \A i \in HandlesOf(in) : args[i] \in held /\ args[i].kind = in[i]
  BY <1>t DEF Arguments, HandlesOf
<1>5. faults' = {}  BY <1>1, <1>2, <1>4, <1>c, NoFaults
<1>6. 1 \in HandlesOf(in) /\ in[1] \in Dispatched  BY <1>t, <1>c, CommandHas
<1>7. Closed(above)  BY <1>4, AroundHeld DEF Closed
<1> DEFINE first == {args[1].object} \cup objects[args[1].object].above
<1>8. /\ first \subseteq above
      /\ \E p \in first : p[1] = "Instance"
      /\ in[1] \in Dispatched \ {"Instance", "PhysicalDevice"} => \E p \in first : p[1] = "Device"
  BY <1>4, <1>6, AroundHeld
<1>9. o \notin DOMAIN objects /\ Gains(o, above, TRUE, c)  BY <1>1
<1> HIDE DEF first, above, o
<1>10. ChoicesInv' /\ ObjectsInv' /\ HeldInv' /\ ReleaseInv'
  <2> HIDE DEF kind, in
  <2> QED  BY <1>2, <1>3, <1>7, <1>9, Gained
<1>11. VolkInv'
  <2>1. \E p \in {o} \cup above : p[1] = "Instance"  BY <1>8
  <2>2. o[1] \in Dispatched \ {"Instance", "PhysicalDevice"} => \E p \in {o} \cup above : p[1] = "Device"
    <3>1. CASE kind \in {"Queue", "CommandBuffer"}  BY <1>t, <1>6, <1>8, <3>1
    <3>2. CASE kind \notin {"Queue", "CommandBuffer"}  BY <1>t, <1>3, <3>2 DEF Dispatched
    <3> QED  BY <3>1, <3>2
  <2>3. /\ ~ suite => \A p \in DOMAIN objects : p[1] = "Device" => p = volk'.device
        /\ suite => volk'.device = Trampoline
        /\ DOMAIN volk' = {"instance", "device"}
    BY <1>2, <1>4, <1>6 DEF VolkInv, HeldInv
  <2>4. o[1] # "Instance" /\ o[1] # "Device" /\ volk'.instance = volk.instance  BY <1>t, <1>2, <1>3
  <2> QED  BY <1>2, <1>7, <1>9, <2>1, <2>2, <2>3, <2>4, GainedVolk DEF Closed
<1> QED  BY <1>5, <1>10, <1>11

\* The surface that GLFW makes.
LEMMA SurfaceKeeps ==
  ASSUME HandlesInv, SurfaceArrives
  PROVE  HandlesInv'
<1> USE DEF HandlesInv
<1>1. PICK h \in held, w \in Words["SurfaceKHR"] :
        /\ h.kind = "Instance"
        /\ <<"SurfaceKHR", w>> \notin DOMAIN objects
        /\ Gains(<<"SurfaceKHR", w>>, {h.object}, FALSE, "glfwCreateWindowSurface")
  BY DEF SurfaceArrives
<1>2. /\ ~ probing /\ "VK_KHR_surface" \in build /\ "SurfaceKHR" \in uses
      /\ UNCHANGED <<build, uses, suite, probing, volk, faults>>
  BY DEF SurfaceArrives, Ready
<1> DEFINE o == <<"SurfaceKHR", w>>
<1>3. o = <<o[1], o[2]>> /\ IsHandle(o[1]) /\ o[2] \in 1 .. W64 - 1 /\ o[1] = "SurfaceKHR"
  <2>1. w \in 1 .. W64 - 1  BY <1>2, MadeWord
  <2>2. IsHandle("SurfaceKHR")  BY DEF IsHandle, NumberTypes
  <2> QED  BY <2>1, <2>2
<1>4. /\ o \notin DOMAIN objects
      /\ Gains(o, {h.object}, FALSE, "glfwCreateWindowSurface")
  BY <1>1
<1> HIDE DEF o
<1>5. h.object \in DOMAIN objects /\ h.object[1] = "Instance" /\ objects[h.object].above = {}
  BY <1>1 DEF HeldInv, VolkInv
<1>6. Closed({h.object})  BY <1>5 DEF Closed
<1>7. ReleasedWith(Releaser(build, "glfwCreateWindowSurface", o[1]), o[1], {h.object})
  <2>1. Releases(build, Releaser(build, "glfwCreateWindowSurface", "SurfaceKHR"), "SurfaceKHR", {"Instance"})
    BY <1>2, SurfaceAssumption DEF ChoicesInv
  <2> QED  BY <1>3, <1>5, <2>1 DEF Releases, ReleasedWith, HandlesOf, Available
<1>8. ChoicesInv' /\ ObjectsInv' /\ HeldInv' /\ ReleaseInv'  BY <1>2, <1>3, <1>4, <1>6, <1>7, Gained
<1>9. VolkInv'
  <2>1. \E p \in {o} \cup {h.object} : p[1] = "Instance"  BY <1>5
  <2>2. o[1] \notin Dispatched /\ o[1] # "Instance" /\ o[1] # "Device"  BY <1>3 DEF Dispatched
  <2>3. /\ ~ suite => \A p \in DOMAIN objects : p[1] = "Device" => p = volk'.device
        /\ suite => volk'.device = Trampoline
        /\ DOMAIN volk' = {"instance", "device"}
    BY <1>2, <1>5 DEF VolkInv
  <2>4. {h.object} \subseteq DOMAIN objects /\ volk'.instance = volk.instance  BY <1>2, <1>5
  <2> QED  BY <1>2, <1>4, <2>1, <2>2, <2>3, <2>4, GainedVolk
<1> QED  BY <1>2, <1>8, <1>9

\* The command that gives back a handle gets the handle, and what else it takes.
LEMMA ReleaseArrives ==
  ASSUME HandlesInv, ~ probing, NEW h \in held, ~ objects[h.object].lent, NEW n \in Numbers,
         NEW c, c = Releaser(build, h.maker, h.kind)
  PROVE  /\ <<Available[c].kind, Word(c, h)>> = h.object
         /\ FaultsOf(c, [i \in HandlesOf(Available[c].in) |-> With(h, Available[c].in[i])], n) = {}
<1> DEFINE in == Available[c].in
           args == [i \in HandlesOf(in) |-> With(h, in[i])]
<1> USE DEF HandlesInv
<1>1. ReleasedBy(c, h)  BY DEF ReleaseInv
<1>2. c \in DOMAIN Available /\ Available[c].kind = h.kind  BY <1>1 DEF ReleasedBy
<1>3. <<Available[c].kind, Word(c, h)>> = h.object
  <2>1. h.object = <<h.kind, handle(h.token)>> /\ h.object = <<h.kind, Cast(h.kind, h.token)>>
    BY TokenIsWord
  <2> QED  BY <1>2, <2>1 DEF Word
<1>4. ASSUME NEW i \in HandlesOf(in)
      PROVE  args[i] \in held /\ args[i].kind = in[i]
  <2>1. args[i] = With(h, in[i])  OBVIOUS
  <2>2. CASE in[i] = h.kind  BY <2>1, <2>2 DEF With
  <2>3. CASE in[i] # h.kind
    <3> DEFINE near == {s \in held : s.kind = in[i] /\ s.object \in objects[h.object].above}
    <3>1. PICK p \in objects[h.object].above : p[1] = in[i]  BY <1>1, <2>3 DEF ReleasedBy
    <3>2. p \in DOMAIN objects  BY <3>1 DEF HeldInv, ObjectsInv
    <3>3. PICK s \in held : s.object = p  BY <3>2 DEF HeldInv
    <3>4. s \in near  BY <3>1, <3>3 DEF HeldInv
    <3>5. args[i] = CHOOSE t \in near : TRUE  BY <2>1, <2>3, <3>4 DEF With
    <3>6. args[i] \in near  BY <3>4, <3>5
    <3> QED  BY <3>6
  <2> QED  BY <2>2, <2>3
<1> HIDE DEF args
<1>5. FaultsOf(c, args, n) = {}
  BY <1>2, <1>4, NoFaults
<1> QED  BY <1>3, <1>5 DEF args

\* What a program gives back goes with all that is inside of it.
LEMMA ReleaseKeeps ==
  ASSUME HandlesInv, NEW h \in held, Release(h)
  PROVE  HandlesInv'
<1> USE DEF HandlesInv
<1> DEFINE gone == Below(h.object)
<1>1. /\ ~ probing /\ h.object \in DOMAIN objects /\ ~ objects[h.object].lent
      /\ UNCHANGED <<build, uses, suite, probing>>
  BY DEF Release, Ready
<1>2. /\ faults' = {}
      /\ objects' = [p \in DOMAIN objects \ gone |-> objects[p]]
      /\ volk' = VolkWithout(gone)
      /\ held' = {s \in held : s # h /\ h.object \notin objects[s.object].above}
  <2> DEFINE c == Releaser(build, h.maker, h.kind)
             target == <<Available[c].kind, Word(c, h)>>
  <2>1. PICK n \in Numbers :
          /\ faults' = FaultsOf(c, [i \in HandlesOf(Available[c].in) |-> With(h, Available[c].in[i])], n)
                         \cup {f \in {"handle"} : target \notin DOMAIN objects}
          /\ objects' = [p \in DOMAIN objects \ Below(target) |-> objects[p]]
          /\ volk' = VolkWithout(Below(target))
          /\ held' = {s \in held : s # h /\ h.object \notin objects[s.object].above}
    BY DEF Release
  <2> HIDE DEF c
  <2>2. target = h.object
        /\ FaultsOf(c, [i \in HandlesOf(Available[c].in) |-> With(h, Available[c].in[i])], n) = {}
    BY <1>1, ReleaseArrives DEF c
  <2> QED  BY <1>1, <2>1, <2>2
<1>3. gone \subseteq DOMAIN objects
      /\ \A p \in DOMAIN objects : p \in gone <=> p = h.object \/ h.object \in objects[p].above
  BY DEF Below
<1> HIDE DEF gone
<1>4. \A p \in DOMAIN objects \ gone : objects[p].above \subseteq DOMAIN objects \ gone
  BY <1>3 DEF ObjectsInv
<1>5. /\ DOMAIN objects' = DOMAIN objects \ gone
      /\ \A p \in DOMAIN objects' : objects'[p] = objects[p]
  BY <1>2
<1>6. held' = {s \in held : s.object \notin gone}
  <2>1. \A s \in held : s.object \in DOMAIN objects /\ (s.object = h.object <=> s = h)  BY DEF HeldInv
  <2> QED  BY <1>2, <1>3, <2>1
<1>7. ChoicesInv'  BY <1>1 DEF ChoicesInv
<1>8. ObjectsInv'
  <2>1. \A p \in DOMAIN objects' : /\ IsHandle(p[1]) /\ p[2] \in 1 .. W64 - 1 /\ p = <<p[1], p[2]>>
                                   /\ objects'[p].above \subseteq DOMAIN objects'
    BY <1>4, <1>5 DEF ObjectsInv
  <2>2. \A p \in DOMAIN objects' : \A q \in objects'[p].above : objects'[q].above \subseteq objects'[p].above
    BY <1>4, <1>5 DEF ObjectsInv
  <2> QED  BY <2>1, <2>2 DEF ObjectsInv
<1>9. HeldInv'
  <2>1. IsFiniteSet(held')  BY <1>6, FS_Subset DEF HeldInv
  <2>2. \A s \in held' : /\ s \in held /\ s.object \in DOMAIN objects'
                         /\ s.kind = s.object[1] /\ s.token = token(s.object[2])
    BY <1>5, <1>6 DEF HeldInv
  <2>3. \A s, t \in held' : s.object = t.object => s = t  BY <2>2 DEF HeldInv
  <2>4. \A p \in DOMAIN objects' : \E s \in held' : s.object = p  BY <1>5, <1>6 DEF HeldInv
  <2> QED  BY <2>1, <2>2, <2>3, <2>4 DEF HeldInv
<1>10. VolkInv'
  <2>1. \A p \in DOMAIN objects' : \A q \in {p} \cup objects'[p].above : q \in DOMAIN objects'
    BY <1>4, <1>5
  <2>2. \A p \in DOMAIN objects' : \E q \in {p} \cup objects'[p].above : q[1] = "Instance"
    BY <1>5 DEF VolkInv
  <2>3. \A p \in DOMAIN objects' : p[1] = "Instance" => p = volk.instance /\ objects'[p].above = {}
    BY <1>5 DEF VolkInv
  <2>4. DOMAIN objects' # {} => volk.instance \notin gone
    <3> SUFFICES ASSUME NEW p \in DOMAIN objects'  PROVE volk.instance \notin gone  OBVIOUS
    <3>1. PICK q \in DOMAIN objects' : q[1] = "Instance"  BY <2>1, <2>2
    <3>2. q = volk.instance  BY <2>3, <3>1
    <3> QED  BY <1>5, <3>1, <3>2
  <2>5. DOMAIN volk' = {"instance", "device"}  BY <1>2 DEF VolkWithout
  <2>6. ASSUME NEW p \in DOMAIN objects', p[1] = "Device", ~ suite
        PROVE  p = volk'.device
    <3>1. p = volk.device /\ p \notin gone  BY <1>5, <2>6 DEF VolkInv
    <3> QED  BY <1>2, <2>4, <3>1 DEF VolkWithout
  <2>7. ASSUME NEW p \in DOMAIN objects', suite
        PROVE  volk'.device = Trampoline
    <3>1. volk.device = Trampoline  BY <1>1, <1>5, <2>7 DEF VolkInv
    <3>2. Trampoline \notin DOMAIN objects  BY DEF Trampoline, ObjectsInv
    <3> QED  BY <1>2, <1>3, <2>4, <3>1, <3>2 DEF VolkWithout
  <2>8. DOMAIN objects' # {} => volk'.instance = volk.instance  BY <1>2, <2>4 DEF VolkWithout
  <2>9. \A p \in DOMAIN objects' : p[1] \in Dispatched \ {"Instance", "PhysicalDevice"} =>
          \E q \in {p} \cup objects'[p].above : q[1] = "Device"
    BY <1>5 DEF VolkInv
  <2> QED  BY <1>1, <2>2, <2>3, <2>5, <2>6, <2>7, <2>8, <2>9 DEF VolkInv
<1>11. ReleaseInv'
  <2>1. Available' = Available  BY <1>1 DEF Available
  <2> SUFFICES ASSUME NEW s \in held', ~ objects'[s.object].lent
               PROVE  ReleasedBy(Releaser(build, s.maker, s.kind), s)'
    BY DEF ReleaseInv
  <2>2. s \in held /\ s.object \in DOMAIN objects'  BY <1>6, <1>9 DEF HeldInv
  <2>3. objects'[s.object] = objects[s.object]  BY <1>5, <2>2
  <2>4. ReleasedBy(Releaser(build, s.maker, s.kind), s)  BY <2>2, <2>3 DEF ReleaseInv
  <2>5. Releaser(build, s.maker, s.kind)' = Releaser(build, s.maker, s.kind)  BY <1>1 DEF Releaser
  <2> QED  BY <2>1, <2>3, <2>4, <2>5 DEF ReleasedBy
<1> QED  BY <1>2, <1>7, <1>8, <1>9, <1>10, <1>11

\* Nothing else that a program does changes what it holds.
LEMMA OthersKeep ==
  ASSUME HandlesInv,
         \/ \E c \in Does("call") : Invoke(c)
         \/ \E h \in held : ProbeDevice(h)
         \/ ProbeEnds
         \/ UNCHANGED vars
  PROVE  HandlesInv'
<1> USE DEF HandlesInv
<1>1. ASSUME UNCHANGED <<build, uses, suite, objects, held, faults>>, probing' \in BOOLEAN,
             probing' => suite, VolkInv'
      PROVE  HandlesInv'
  <2>1. ChoicesInv'  BY <1>1 DEF ChoicesInv
  <2>2. ObjectsInv'  BY <1>1 DEF ObjectsInv
  <2>3. HeldInv'  BY <1>1 DEF HeldInv
  <2>4. ReleaseInv'
    <3>1. Available' = Available  BY <1>1 DEF Available
    <3> SUFFICES ASSUME NEW h \in held, ~ objects[h.object].lent
                 PROVE  ReleasedBy(Releaser(build, h.maker, h.kind), h)'
      BY <1>1 DEF ReleaseInv
    <3>2. Releaser(build, h.maker, h.kind)' = Releaser(build, h.maker, h.kind)  BY <1>1 DEF Releaser
    <3>3. ReleasedBy(Releaser(build, h.maker, h.kind), h)  BY DEF ReleaseInv
    <3> QED  BY <1>1, <3>1, <3>2, <3>3 DEF ReleasedBy
  <2> QED  BY <1>1, <2>1, <2>2, <2>3, <2>4
<1>2. ASSUME NEW c \in Does("call"), Invoke(c)  PROVE HandlesInv'
  <2>1. UNCHANGED <<build, uses, suite, probing, volk, objects, held>>  BY <1>2 DEF Invoke
  <2>2. faults' = faults
    <3>1. c \in DOMAIN Available  BY DEF Does, ByRole, Roles, Available, ChoicesInv
    <3>2. PICK args \in Arguments(c), n \in Numbers : faults' = FaultsOf(c, args, n)  BY <1>2 DEF Invoke
    <3> QED  BY <1>2, <3>1, <3>2, NoFaults DEF Invoke, Ready, Arguments
  <2>3. VolkInv'  BY <2>1 DEF VolkInv
  <2> QED  BY <1>1, <2>1, <2>2, <2>3 DEF ChoicesInv
<1>3. ASSUME NEW h \in held, ProbeDevice(h)  PROVE HandlesInv'
  <2>1. /\ UNCHANGED <<build, uses, suite, objects, held, faults>> /\ suite /\ probing' = TRUE
        /\ volk' = [volk EXCEPT !.device = h.object]
    BY <1>3 DEF ProbeDevice
  <2>2. VolkInv'  BY <2>1 DEF VolkInv
  <2> QED  BY <1>1, <2>1, <2>2
<1>4. CASE ProbeEnds
  <2>1. /\ UNCHANGED <<build, uses, suite, objects, held, faults>> /\ suite /\ probing' = FALSE
        /\ volk' = [volk EXCEPT !.device = Trampoline]
    BY <1>4 DEF ProbeEnds, ChoicesInv
  <2>2. VolkInv'  BY <2>1 DEF VolkInv
  <2> QED  BY <1>1, <2>1, <2>2
<1>5. CASE UNCHANGED vars
  <2>1. VolkInv'  BY <1>5 DEF VolkInv, vars
  <2> QED  BY <1>1, <1>5, <2>1 DEF vars, ChoicesInv
<1> QED  BY <1>2, <1>3, <1>4, <1>5

LEMMA HandlesInvariant == Spec => []HandlesInv
<1>1. Init => HandlesInv
  <2> SUFFICES ASSUME Init  PROVE HandlesInv  OBVIOUS
  <2>1. DOMAIN objects = {}  BY DEF Init
  <2>2. held = {} /\ IsFiniteSet(held)  BY FS_EmptySet DEF Init
  <2> QED  BY <2>1, <2>2 DEF Init, HandlesInv, ChoicesInv, ObjectsInv, HeldInv, VolkInv, ReleaseInv
<1>2. HandlesInv /\ [Next]_vars => HandlesInv'
  BY MakeKeeps, LendKeeps, SurfaceKeeps, ReleaseKeeps, OthersKeep DEF Next
<1> QED  BY <1>1, <1>2, PTL DEF Spec

\* Every token of any program is a long long and not the null handle's, and the driver's objects are
\* inside of others that are there.
THEOREM VulkanTypes == Spec => []TypeOK
<1>1. HandlesInv => TypeOK
  <2> SUFFICES ASSUME HandlesInv  PROVE TypeOK  OBVIOUS
  <2> USE DEF HandlesInv
  <2>1. \A h \in held : h.token \in LongLong /\ h.token # 0  BY TokenIsWord
  <2> QED  BY <2>1 DEF TypeOK, ChoicesInv, HeldInv, ObjectsInv
<1> QED  BY <1>1, HandlesInvariant, PTL

\* Each call of any program, with every table of commands that the assumptions allow, reaches the
\* driver with the handles the program means: token(), handle() and the overloads' casts lose
\* none, and the command that a @destroy note names takes what the program has.
THEOREM CallsGetTheirHandles == Spec => []HandlesArrive
<1>1. HandlesInv => HandlesArrive  BY DEF HandlesInv, HandlesArrive
<1> QED  BY <1>1, HandlesInvariant, PTL

\* And through a function pointer of the driver that its handles belong to: a program that loads
\* its only device, and a suite that loads several for a moment, are both safe with the pointers.
THEOREM CallsReachTheirDriver == Spec => []DriverReached
<1>1. HandlesInv => DriverReached  BY DEF HandlesInv, DriverReached
<1> QED  BY <1>1, HandlesInvariant, PTL

\* The tokens a program holds name the driver's live objects, one each: what it does not hold is
\* gone, and what it released nobody else released for it.
THEOREM TokensAreTheObjects == Spec => []TokensNameObjects
<1>1. HandlesInv => TokensNameObjects
  <2> SUFFICES ASSUME HandlesInv
               PROVE  /\ {<<h.kind, handle(h.token)>> : h \in held} = DOMAIN objects
                      /\ Cardinality(held) = Cardinality(DOMAIN objects)
    BY DEF TokensNameObjects
  <2> USE DEF HandlesInv
  <2>1. \A h \in held : h.object = <<h.kind, handle(h.token)>>  BY TokenIsWord
  <2>2. {<<h.kind, handle(h.token)>> : h \in held} = {h.object : h \in held}  BY <2>1
  <2>3. {h.object : h \in held} = DOMAIN objects
    <3>1. \A h \in held : h.object \in DOMAIN objects  BY DEF HeldInv
    <3>2. \A o \in DOMAIN objects : \E h \in held : h.object = o  BY DEF HeldInv
    <3> QED  BY <3>1, <3>2
  <2>4. Cardinality(held) = Cardinality(DOMAIN objects)
    <3> DEFINE f == [h \in held |-> h.object]
    <3>1. f \in Bijection(held, DOMAIN objects)
      BY DEF HeldInv, Bijection, Injection, Surjection, IsInjective
    <3> QED  BY <3>1, FS_Bijection DEF HeldInv, ExistsBijection
  <2> QED  BY <2>2, <2>3, <2>4
<1> QED  BY <1>1, HandlesInvariant, PTL

=============================================================================
