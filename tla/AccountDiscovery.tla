--------------------------- MODULE AccountDiscovery ---------------------------
(***************************************************************************)
(* Which Plugin Account an Agent has: discoverPluginAccounts derives the   *)
(* accounts from the OCTO bindings of the OpenClaw configuration, and the  *)
(* tools, the guidance in the prompt and the bind command each look the    *)
(* account of an Agent up among them.  Pure functions, no state.           *)
(*                                                                         *)
(* The id of a discovered account is a digest of its Bot's origin and id;  *)
(* it is the Bot here.                                                     *)
(***************************************************************************)
EXTENDS Naturals, FiniteSets

CONSTANTS
  Agents,  \* ids of Agents, known to OpenClaw or not
  Bots,    \* OCTO Bots
  Unset    \* a field that is absent, blank or, in a binding, "*"

Bindings == [agent : Agents, bot : Bots \union {Unset}]

\* channels.octo.accounts[bot]: the Agent it may name, and whether its apiUrl
\* is an origin.
ChannelAccounts == [agent : Agents \union {Unset}, valid : BOOLEAN]

Configs == [agents   : SUBSET Agents,
            bindings : SUBSET Bindings,
            channels : [Bots -> ChannelAccounts \union {Unset}]]

PluginAccounts == [id : Bots, agent : Agents, enabled : BOOLEAN]

----------------------------------------------------------------------------
BotsOf(config, g) == {b.bot : b \in {x \in config.bindings : x.agent = g}}

\* Agent g is mapped to Bot b: it exists, has one explicit binding, and the
\* Bot's channel account exists, is nobody else's and can be used.
Mapped(config, g, b) ==
  /\ g \in config.agents
  /\ BotsOf(config, g) = {b}
  /\ config.channels[b] # Unset
  /\ config.channels[b].agent \in {Unset, g}
  /\ config.channels[b].valid

\* mutant: an Agent whose mapping is no good counts as an owner of its Bots
OwnersBound(config, b) == {g \in Agents : b \in BotsOf(config, g)}

ownersByBot(config, b) == {g \in Agents : Mapped(config, g, b)}

\* A Bot that is mapped to several Agents is nobody's.
discoverPluginAccounts(config) ==
  {a \in PluginAccounts : /\ a.enabled
                          /\ Mapped(config, a.agent, a.id)
                          /\ ownersByBot(config, a.id) = {a.agent}}

----------------------------------------------------------------------------
(* The lookups.                                                            *)

listByAgentId(accounts, g) == {a \in accounts : a.enabled /\ a.agent = g}

\* The tool factories offer nothing unless the account is unambiguous.
ToolsOffered(accounts, g) == Cardinality(listByAgentId(accounts, g)) = 1

buildMailToolGuidance(accounts, g) ==
  LET matches == {a \in accounts : a.enabled /\ a.agent = g}
  IN  IF matches = {} THEN "unavailable"
      ELSE IF Cardinality(matches) > 1 THEN "ambiguous" ELSE "configured"

----------------------------------------------------------------------------
Unbound(config, g) ==
  [config EXCEPT !.bindings = {x \in @ : x.agent # g}]

\* The account of Bot b under a configuration: it has one Agent, which has no
\* other account, is offered its tools and is told so; and no Agent that is
\* not mapped to the Bot makes a difference to it.
SeparateIn(config, b) ==
  LET accounts == discoverPluginAccounts(config) IN
  /\ \A a \in accounts : a.id = b =>
       /\ \A o \in accounts : o.id = b \/ o.agent = a.agent => o = a
       /\ ToolsOffered(accounts, a.agent)
       /\ buildMailToolGuidance(accounts, a.agent) = "configured"
  /\ \A g \in Agents :
       LET others == discoverPluginAccounts(Unbound(config, g))
       IN  \A a \in PluginAccounts :
             a.id = b /\ a.agent # g /\ ~Mapped(config, g, b) =>
               (a \in accounts <=> a \in others)

Separate == [b \in Bots |-> \A config \in Configs : SeparateIn(config, b)]
=============================================================================
