---------------------------- MODULE RenderPasses ----------------------------
(***************************************************************************)
(* What a render command buffer promises: a sequence of passes, each of     *)
(* which first clears the textures it loads with Clear and then applies its *)
(* draws in order; committing the buffer runs its passes one after another.  *)
(***************************************************************************)
EXTENDS Naturals, Sequences

CONSTANTS Buffers,   \* command buffers
          Surfaces,  \* the textures passes render to
          Cleared,   \* the content of a texture just cleared
          Marks      \* what draws leave on a texture

VARIABLES recorded,  \* recorded[c]: the passes encoded into c
          pixels     \* pixels[t]: what was done to texture t since its last clear

passesVars == <<recorded, pixels>>

\* What the draws of a pass leave on t.
MarksOn(t, draws) ==
    LET after[n \in 0..Len(draws)] ==
           IF n = 0 THEN <<>>
           ELSE IF t \in draws[n].onto THEN Append(after[n-1], draws[n].mark) ELSE after[n-1]
    IN  after[Len(draws)]

RunPass(content, p) ==
    [t \in Surfaces |->
        (IF t \in p.clears THEN <<Cleared>> ELSE content[t]) \o MarksOn(t, p.draws)]

RunPasses(content, passes) ==
    LET after[n \in 0..Len(passes)] ==
           IF n = 0 THEN content ELSE RunPass(after[n-1], passes[n])
    IN  after[Len(passes)]

IsDraw(d) == d.onto \subseteq Surfaces /\ d.mark \in Marks
IsPass(p) ==
    /\ p.clears \subseteq Surfaces
    /\ \A i \in DOMAIN p.draws : IsDraw(p.draws[i])

Init ==
    /\ recorded = [c \in Buffers |-> <<>>]
    /\ pixels = [t \in Surfaces |-> <<>>]

\* A new pass, begun by its clears or by its first draw.
BeginsPass(old, new) ==
    LET p == new[Len(new)]
    IN  /\ new = Append(old, p)
        /\ IsPass(p) /\ Len(p.draws) <= 1

\* A draw joins the last pass begun.
AddsDraw(old, new) ==
    LET n == Len(old)
        draws == new[n].draws
    IN  /\ n > 0 /\ draws # <<>> /\ IsDraw(draws[Len(draws)])
        /\ new = [old EXCEPT ![n].draws = Append(@, draws[Len(draws)])]

Encode(c) ==
    /\ UNCHANGED pixels
    /\ \E old \in {recorded[c]}, new \in {recorded'[c]} :
         /\ new # old
         /\ CASE Len(new) = Len(old) + 1 -> BeginsPass(old, new)
              [] Len(new) = Len(old) -> AddsDraw(old, new)
              [] OTHER -> FALSE
         /\ recorded' = [recorded EXCEPT ![c] = new]

\* A commit that leaves a trace: any other is a stutter.
Commit(c) ==
    /\ pixels' # pixels
    /\ UNCHANGED recorded
    /\ pixels' = RunPasses(pixels, recorded[c])

Next == \E c \in Buffers : Encode(c) \/ Commit(c)

Spec == Init /\ [][Next]_passesVars
=============================================================================
