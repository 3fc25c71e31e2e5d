-------------------------- MODULE MCProviderAdapter --------------------------
(* ProviderAdapter for TLC: one profile that counts cached input apart and  *)
(* one that does not, with few tokens and a ceiling above the base rate.    *)
EXTENDS ProviderAdapter

Profile(provider) ==
    [provider |-> provider, inputBound |-> 2, maxOutput |-> 1,
     inputBase |-> 1, inputCeiling |-> 2, output |-> 3]

TwoProfiles == {Profile("anthropic"), Profile("openai"), Profile("mistral")}
WithKeys == {Profile("anthropic"), Profile("openai")}

==============================================================================
