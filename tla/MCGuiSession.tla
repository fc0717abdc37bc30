---- MODULE MCGuiSession ----
(* Model-checking instance of GuiSession.                                    *)
EXTENDS GuiSession
====
