---------------------------- MODULE VulkanHandles ---------------------------
(***************************************************************************)
(* How numbers and handles cross between cheatah, which has one integer    *)
(* type (long long), and Vulkan: the two conversions of                    *)
(* gpu/vulkan/handles.hpp and the casts in the bodies of the generated     *)
(* long long overloads of gpu/vulkan/commands.hpp.                         *)
(***************************************************************************)
EXTENDS Integers

CONSTANTS W64,   \* how many values a 64-bit word has: 2^64, or less to check a scaled copy
          W32,   \* the same of 32 bits
          W16    \* and of 16

ASSUME WidthAssumption ==
    /\ W16 \in Nat \ {0} /\ W32 \in Nat \ {0} /\ W64 \in Nat \ {0}
    /\ W16 % 2 = 0 /\ W32 % 2 = 0 /\ W64 % 2 = 0
    /\ W16 <= W32 /\ 2 * W32 <= W64

\* The words of the numeric parameters; every other type of a parameter is a handle's.
NumberTypes == {"u16", "u32", "u64", "i32", "enum"}

SignedTypes == {"i32", "enum"}

Width(type) ==
    CASE type = "u16" -> W16
      [] type \in {"u32", "i32", "enum"} -> W32
      [] OTHER -> W64

Signed(x, width) == LET bits == x % width
                    IN  IF bits < width \div 2 THEN bits ELSE bits - width

LongLong == -(W64 \div 2) .. (W64 \div 2 - 1)

\* The values of a Vulkan type. A handle is a word, 0 for VK_NULL_HANDLE.
Values(type) ==
    IF type \in SignedTypes THEN -(Width(type) \div 2) .. (Width(type) \div 2 - 1)
                            ELSE 0 .. Width(type) - 1

\* Mutant: the conversion without the wrap into a signed word.
token_unsigned(native) == native

token(native) == Signed(native, W64)

\* Mutant: the word is cut to 32 bits.
handle_narrow(value) == value % W32

handle(value) == value % W64

\* Mutant: a handle goes through 32 bits.
CastNarrow(type, value) ==
    IF type \in SignedTypes THEN Signed(value, Width(type))
    ELSE IF type \in NumberTypes THEN value % Width(type) ELSE value % W32

\* Mutant: a number is cast to the signed type of its width.
CastSigned(type, value) ==
    IF type \in NumberTypes THEN Signed(value, Width(type)) ELSE value % W64

\* What an overload passes on for the long long it was given.
Cast(type, value) ==
    IF type \in SignedTypes THEN Signed(value, Width(type)) ELSE value % Width(type)
=============================================================================
