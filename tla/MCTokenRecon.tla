---------------------------- MODULE MCTokenRecon ----------------------------
(* Small instances of TokenRecon: files with one or two tokens, whose sections,
   rules and holders are written in the ways that the readers tell apart. *)
EXTENDS TokenRecon

Section(name, entries) == [name |-> name, entries |-> entries]

General == <<"totalSupply">>
Roles == <<"owner">>
Paused == <<"paused">>

\* More calls than a chunk holds, a malformed holder in front of a good one, a
\* rule given twice and one that is not known.
Holders ==
  <<Section(<<"erc", "-", "2", "0">>,
            <<Entry("a", <<Malformed, "h">>, <<>>, <<"general", "balance", "general", "misspelt">>)>>)>>

\* A slot and the proof; an entry without rules, which has no checks.
AllPhases ==
  <<Section(<<"erc", "2", "0">>, <<Entry("a", <<>>, <<"s">>, <<"storagehash">>)>>),
    Section(<<"erc", "1155">>, <<PlainEntry("b")>>)>>

\* One address in two sections of one standard; a section of another one.
TwoTokens ==
  <<Section(<<"erc", "721">>, <<Entry("a", <<"h">>, <<>>, <<"balance", "roles">>)>>),
    Section(<<"erc", "-", "721">>, <<PlainEntry("a"), PlainEntry("b")>>),
    Section(<<"-", "erc", "2", "-", "0">>, <<Entry("c", <<>>, <<>>, <<"roles">>)>>)>>

\* An address under both standards, which tokensync refuses.
TwoStandards ==
  <<Section(<<"erc", "721">>, <<Entry("a", <<>>, <<>>, <<"general">>)>>),
    Section(<<"erc", "2", "0">>, <<Entry("a", <<>>, <<>>, <<"general", "codehash">>)>>)>>

MalformedToken ==
  <<Section(<<"erc", "2", "0">>, <<Entry(Malformed, <<>>, <<>>, <<"general">>)>>)>>

OtherCharacter == <<Section(<<"erc", ".", "721">>, <<PlainEntry("a")>>)>>

NoName == <<Section(<<>>, <<PlainEntry("a")>>)>>

MCFiles ==
  {Holders, AllPhases, TwoTokens, TwoStandards, MalformedToken, OtherCharacter, NoName, <<>>}
=============================================================================
