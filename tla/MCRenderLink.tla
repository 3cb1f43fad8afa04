---------------------------- MODULE MCRenderLink ----------------------------
EXTENDS RenderLink
=============================================================================
