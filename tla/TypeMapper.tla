------------------------------ MODULE TypeMapper ------------------------------
(***************************************************************************)
(* The Type Mapper: the C++ type the emitter writes for an argument, and  *)
(* the underlying type of an enum.                                         *)
(*                                                                         *)
(* A C++ type name is kept as what tells two names apart: a wrapper with  *)
(* its template parameter ("" when there is none between the brackets,    *)
(* None for a wrapper that is no template), or an enum's qualified name   *)
(* as its sequence of scope segments: "wl_output::transform" is           *)
(* <<"wl_output", "transform">>.                                           *)
(***************************************************************************)
EXTENDS WlDomain

Wrapper == [int |-> "Wint", uint |-> "Wuint", fixed |-> "Wfixed", string |-> "Wstring",
            object |-> "Wobject", new_id |-> "Wnew_id", array |-> "Warray", fd |-> "Wfd"]

(* get_cxx_Wtype: Wobject<X> and Wnew_id<X>, Wobject<> without interface. *)
CxxWtype(type, iface) ==
    [w |-> Wrapper[type],
     param |-> IF type \in {"object", "new_id"}
               THEN IF iface = None THEN "" ELSE iface
               ELSE None]

(* The type branch of as_cxx_data_member: with enum="X.Y" every dot       *)
(* becomes "::", a bare enum="Y" is qualified with the owning interface;  *)
(* without an enum the wire type is mapped.                               *)
MemberType(owner, arg) ==
    IF arg.enum # None
    THEN [enum |-> IF Len(arg.enum) > 1 THEN arg.enum ELSE <<owner>> \o arg.enum]
    ELSE CxxWtype(arg.arg_type, arg.interface)

(* wl_enum.underlying_type: Wuint::integral_type for a bitfield, else     *)
(* Wint::integral_type.                                                    *)
UnderlyingType(enum) ==
    CxxWtype(IF enum.is_bitfield THEN "uint" ELSE "int", None)

=============================================================================
