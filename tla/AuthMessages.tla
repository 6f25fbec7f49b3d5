---------------------------- MODULE AuthMessages ----------------------------
(***************************************************************************)
(* The messages of the auth service as the frontend's stubs declare them,  *)
(* frontend/gen/auth/v1/auth_pb.ts.  A user is an id and an email; the     *)
(* avatar and the times are a matter of the moment they were read.         *)
(***************************************************************************)
CONSTANTS
    UserIds,   \* ids of user rows
    Emails,    \* addresses that Google vouches for
    None       \* a field that is not set

User == [id : UserIds, email : Emails]

GoogleLoginURLRequest  == {<<>>}
GoogleLoginURLResponse == [url : {"google"}]
WhoAmIRequest          == {<<>>}
WhoAmIResponse         == [user : User \cup {None}]

AuthService == [
    googleLoginURL |-> [input |-> GoogleLoginURLRequest, output |-> GoogleLoginURLResponse],
    whoAmI         |-> [input |-> WhoAmIRequest, output |-> WhoAmIResponse]]
=============================================================================
