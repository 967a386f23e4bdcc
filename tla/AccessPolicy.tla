---------------------------- MODULE AccessPolicy ----------------------------
(***************************************************************************)
(* What a token may be used for: the policy services of creators and       *)
(* editors and the validation of access tokens.  A user is the columns the *)
(* policy looks at.                                                        *)
(***************************************************************************)

CONSTANTS
  Channels,     \* web, mobile, api
  Api,          \* the last of them
  Clients,      \* client ids a caller can name
  ApiClients,   \* those that may use the api
  None          \* no client, no url, nothing asked for

ASSUME ApiIsChannel == Api \in Channels
ASSUME ClientsKnown == ApiClients \subseteq Clients /\ None \notin Clients \cup Channels \cup BOOLEAN

User == [active: BOOLEAN, channels: SUBSET Channels]

\* What registration writes.
Registered == [active |-> TRUE, channels |-> Channels \ {Api}]

\* Mutant: the api is a channel like any other.
IsChannelAuthorized_NoApi(user, channel) == user.active /\ channel \in user.channels

\* Every user may use the api, active or not.
IsChannelAuthorized(user, channel) ==
  channel = Api \/ (user.active /\ channel \in user.channels)

IsTokenUsageValid(user, channel, client) ==
  /\ IsChannelAuthorized(user, channel)
  /\ channel = Api /\ client # None => client \in ApiClients

\* A token without a url may be used for all of them.  The permissions of the others are
\* in the database.
CanAccessResource(url, permitted) == url = None \/ permitted

\* No access token the services issue names a url.
ValidateToken(user, channel, client) ==
  IsTokenUsageValid(user, channel, client) /\ CanAccessResource(None, FALSE)
=============================================================================
