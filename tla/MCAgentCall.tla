----------------------------- MODULE MCAgentCall -----------------------------
EXTENDS AgentCall
===============================================================================
